----------------------------- MODULE WALProofs -----------------------------
(***************************************************************************)
(* WAL: what is in the file and what a Replay makes of it, for any number of  *)
(* records, failures and crashes.                                           *)
(***************************************************************************)
EXTENDS WAL, AscendingProofs

-----------------------------------------------------------------------------
(* The inductive invariant.                                                 *)

IsPart(p, n, k) == p.n = n /\ p.part = k

(***************************************************************************)
(* A record starts with its first part and goes on part by part until it is    *)
(* whole or breaks off; what comes behind it was written later.             *)
(***************************************************************************)
Records(f, ls) ==
  /\ \A i \in 1 .. Len(f) :
       /\ f[i].n \in DOMAIN ls /\ f[i].part \in 1 .. HeaderSize + ls[f[i].n]
       /\ f[i].part <= i
       /\ \A k \in 1 .. f[i].part : IsPart(f[i - f[i].part + k], f[i].n, k)
  /\ \A i, j \in 1 .. Len(f) : i < j =>
       \/ f[i].n < f[j].n
       \/ f[i].n = f[j].n /\ f[j].part = f[i].part + (j - i)

FileOK == Records(file, lengths)

\* How far a running Append has come.
WriterOK ==
  /\ writer \in {"header", "payload"} => Len(lengths) > 0 /\ Len(file) > 0
  /\ writer = "header" => IsPart(file[Len(file)], Len(lengths), HeaderSize)
  /\ writer = "payload" => IsPart(file[Len(file)], Len(lengths), Size(Len(lengths)))

EndsBy(n, i) == \E j \in 1 .. i : IsPart(file[j], n, Size(n))

\* What was promised is whole and synced.
PromiseOK == \A n \in promised : EndsBy(n, synced)

(***************************************************************************)
(* A Replay has come to the end of a whole record, and has delivered the       *)
(* records before it; one that has returned has met no record that was owed   *)
(* to it behind the one it stopped at, unless that one broke off.           *)
(***************************************************************************)
ReplayOK ==
  /\ reader.at \in 1 .. Len(file) + 1
  /\ reader.at > 1 => file[reader.at - 1].part = Size(file[reader.at - 1].n)
  /\ \A i, j \in DOMAIN reader.got : i < j => reader.got[i] < reader.got[j]
  /\ \A n \in Range(reader.got) : EndsBy(n, reader.at - 1)
  /\ \A i \in 1 .. reader.at - 1 : file[i].n \in Range(reader.got)
  /\ reader.owed \subseteq promised
  /\ reader.pc \in {"done", "failed"}
       => \A n \in reader.owed \ Range(reader.got) : \E m \in Broken : m < n
  /\ reader.pc = "failed" => \E m \in Broken : \E i \in DOMAIN file : m < file[i].n

WalOK == /\ TypeOK /\ Len(lengths) <= MaxAppends
         /\ FileOK /\ WriterOK /\ PromiseOK /\ ReplayOK

-----------------------------------------------------------------------------
(* Parts written behind the file.                                           *)

LEMMA SizeIs ==
  ASSUME TypeOK, NEW n \in DOMAIN lengths
  PROVE  Size(n) \in Nat /\ Size(n) > HeaderSize /\ HeaderSize = 4 /\ n \in Nat \ {0}
<1>1. lengths \in Seq(PayloadLengths)
  BY DEF TypeOK
<1>2. lengths[n] \in PayloadLengths /\ n \in Nat \ {0}
  BY <1>1
<1>3. lengths[n] \in Nat \ {0}
  BY <1>2, BoundsAssumption
<1> QED
  BY <1>2, <1>3 DEF Size, HeaderSize

\* What TypeOK says of the file.
LEMMA FileType ==
  ASSUME TypeOK
  PROVE  /\ file \in Seq(Part) /\ Len(file) \in Nat /\ DOMAIN file = 1 .. Len(file)
         /\ \A i \in 1 .. Len(file) : file[i].n \in Nat /\ file[i].part \in Nat
<1>1. file \in Seq(Part)
  BY DEF TypeOK
<1>2. \A i \in 1 .. Len(file) : file[i] \in Part
  BY <1>1
<1> QED
  BY <1>1, <1>2 DEF Part

LEMMA Concatenated ==
  ASSUME NEW S, NEW f \in Seq(S), NEW p \in Seq(S), NEW g, g = f \o p
  PROVE  /\ g \in Seq(S) /\ Len(g) = Len(f) + Len(p) /\ DOMAIN g = 1 .. Len(g)
         /\ Len(f) \in Nat /\ Len(g) \in Nat
         /\ \A i \in 1 .. Len(f) : g[i] = f[i]
         /\ \A i \in Len(f) + 1 .. Len(g) : g[i] = p[i - Len(f)]
OBVIOUS

\* g is f with the parts from a to b of the n-th record written behind it.
Grown(g, f, n, a, b) ==
  /\ g \in Seq(Part)
  /\ Len(g) = Len(f) + (b + 1 - a) /\ Len(f) \in Nat /\ DOMAIN g = 1 .. Len(g)
  /\ \A i \in 1 .. Len(f) : g[i] = f[i]
  /\ \A i \in Len(f) + 1 .. Len(g) : IsPart(g[i], n, a + (i - Len(f)) - 1)

LEMMA PartsAdded ==
  ASSUME NEW f \in Seq(Part), NEW n \in 1 .. MaxAppends, NEW a \in Nat \ {0}, NEW b \in Nat, b >= a - 1,
         NEW g, g = f \o Parts(n, a, b)
  PROVE  Grown(g, f, n, a, b)
<1> DEFINE count == b + 1 - a
           parts == [i \in 1 .. count |-> [n |-> n, part |-> a + i - 1]]
<1>1. count \in Nat
  OBVIOUS
<1>2. parts \in Seq(Part) /\ Len(parts) = count
  <2>1. parts \in [1 .. count -> Part]
    BY BoundsAssumption DEF Part
  <2> HIDE DEF parts
  <2> QED
    BY <1>1, <2>1
<1>3. Parts(n, a, b) = parts
  BY DEF Parts
<1>4. \A j \in 1 .. count : IsPart(parts[j], n, a + j - 1)
  BY DEF IsPart
<1> HIDE DEF parts, count
<1>5. /\ g \in Seq(Part) /\ Len(g) = Len(f) + count /\ Len(f) \in Nat /\ DOMAIN g = 1 .. Len(g)
      /\ \A i \in 1 .. Len(f) : g[i] = f[i]
      /\ \A i \in Len(f) + 1 .. Len(f) + count : g[i] = parts[i - Len(f)]
  <2>1. g = f \o parts
    BY <1>3
  <2>2. PICK p \in Seq(Part) : p = parts
    BY <1>2
  <2>3. g = f \o p
    BY <2>1, <2>2
  <2>4. /\ g \in Seq(Part) /\ Len(g) = Len(f) + Len(p) /\ DOMAIN g = 1 .. Len(g)
        /\ Len(f) \in Nat /\ Len(g) \in Nat
        /\ \A i \in 1 .. Len(f) : g[i] = f[i]
        /\ \A i \in Len(f) + 1 .. Len(g) : g[i] = p[i - Len(f)]
    BY <2>3, Concatenated
  <2> QED
    BY <1>2, <2>2, <2>4
<1>6. \A i \in Len(f) + 1 .. Len(g) : IsPart(g[i], n, a + (i - Len(f)) - 1)
  <2> TAKE i \in Len(f) + 1 .. Len(g)
  <2>1. i - Len(f) \in 1 .. count /\ g[i] = parts[i - Len(f)]
    BY <1>1, <1>5
  <2>2. IsPart(parts[i - Len(f)], n, a + (i - Len(f)) - 1)
    BY <1>4, <2>1
  <2> QED
    BY <2>1, <2>2
<1> QED
  BY <1>5, <1>6 DEF count, Grown

(***************************************************************************)
(* The parts of a record are written behind what is there: from the first, of  *)
(* a record that is new, or from where the last part left off.              *)
(***************************************************************************)
LEMMA RecordsGoOn ==
  ASSUME NEW f \in Seq(Part), NEW ls, NEW ms, Records(f, ls),
         \A m \in DOMAIN ls : m \in DOMAIN ms /\ ms[m] = ls[m],
         NEW n \in 1 .. MaxAppends, n \in DOMAIN ms, ms[n] \in Nat,
         NEW a \in Nat \ {0}, NEW b \in Nat, b >= a - 1, b <= HeaderSize + ms[n],
         \/ a = 1 /\ \A i \in 1 .. Len(f) : f[i].n < n
         \/ Len(f) > 0 /\ IsPart(f[Len(f)], n, a - 1),
         NEW g, Grown(g, f, n, a, b)
  PROVE  Records(g, ms)
<1>0. /\ g \in Seq(Part) /\ Len(g) = Len(f) + (b + 1 - a) /\ Len(f) \in Nat /\ DOMAIN g = 1 .. Len(g)
      /\ \A i \in 1 .. Len(f) : g[i] = f[i]
      /\ \A i \in Len(f) + 1 .. Len(g) : IsPart(g[i], n, a + (i - Len(f)) - 1)
  BY DEF Grown
<1> DEFINE end == Len(f)
           last == Len(g)
<1>1. /\ g \in Seq(Part) /\ last = end + (b + 1 - a) /\ end \in Nat /\ last \in Nat
      /\ \A i \in 1 .. end : g[i] = f[i]
      /\ \A i \in end + 1 .. last : IsPart(g[i], n, a + (i - end) - 1)
      /\ n \in Int /\ \A i \in 1 .. end : i \in Int
      /\ \A i \in end + 1 .. last : i \in Int
  <2>1. /\ g \in Seq(Part) /\ last = end + (b + 1 - a) /\ end \in Nat /\ last \in Nat
        /\ \A i \in 1 .. end : g[i] = f[i]
    BY <1>0
  <2>2. \A i \in end + 1 .. last : IsPart(g[i], n, a + (i - end) - 1)
    BY <1>0
  <2>3. /\ n \in Int /\ \A i \in 1 .. end : i \in Int
        /\ \A i \in end + 1 .. last : i \in Int
    BY BoundsAssumption
  <2> QED
    BY <2>1, <2>2, <2>3
<1>2. \A i \in 1 .. end : f[i].n \in Nat /\ f[i].part \in Nat
  <2>1. \A i \in 1 .. end : f[i] \in Part
    OBVIOUS
  <2> QED
    BY <2>1 DEF Part
<1>3. \/ a = 1 /\ \A i \in 1 .. end : f[i].n < n
      \/ end > 0 /\ f[end].n = n /\ f[end].part = a - 1
  BY DEF IsPart
<1>4. /\ \A i \in 1 .. end :
          /\ f[i].n \in DOMAIN ls /\ f[i].part \in 1 .. HeaderSize + ls[f[i].n]
          /\ f[i].part <= i
          /\ \A k \in 1 .. f[i].part : IsPart(f[i - f[i].part + k], f[i].n, k)
      /\ \A i, j \in 1 .. end : i < j =>
          \/ f[i].n < f[j].n
          \/ f[i].n = f[j].n /\ f[j].part = f[i].part + (j - i)
  BY DEF Records
<1>5. HeaderSize = 4
  BY DEF HeaderSize
<1> HIDE DEF end, last
<1>6. ASSUME NEW i \in 1 .. end
      PROVE  /\ g[i].n \in DOMAIN ms /\ g[i].part \in 1 .. HeaderSize + ms[g[i].n]
             /\ g[i].part <= i
             /\ \A k \in 1 .. g[i].part : IsPart(g[i - g[i].part + k], g[i].n, k)
  <2>1. \A k \in 1 .. f[i].part : i - f[i].part + k \in 1 .. end
    <3> TAKE k \in 1 .. f[i].part
    <3>1. end \in Int /\ i \in Int /\ 1 <= i /\ i <= end
      BY <1>1
    <3>2. f[i].part \in Int /\ f[i].part <= i
      BY <1>2, <1>4
    <3>3. k \in Int /\ 1 <= k /\ k <= f[i].part
      BY <3>2
    <3> QED
      BY <3>1, <3>2, <3>3, SMTT(60)
  <2> QED
    BY <1>1, <1>4, <2>1
<1>7. ASSUME NEW i \in end + 1 .. last
      PROVE  g[i].n = n /\ g[i].part = a + (i - end) - 1
  BY <1>1 DEF IsPart
<1>8. a - 1 <= end /\ \A k \in 1 .. a - 1 : IsPart(f[end - (a - 1) + k], n, k)
  <2>1. CASE a = 1
    BY <1>1, <2>1
  <2>2. CASE end > 0 /\ f[end].n = n /\ f[end].part = a - 1
    <3>1. end \in 1 .. end
      BY <1>1, <2>2
    <3> QED
      BY <1>4, <2>2, <3>1
  <2> QED
    BY <1>3, <2>1, <2>2
<1>9. ASSUME NEW i \in end + 1 .. last
      PROVE  /\ g[i].n \in DOMAIN ms /\ g[i].part \in 1 .. HeaderSize + ms[g[i].n]
             /\ g[i].part <= i
             /\ \A k \in 1 .. g[i].part : IsPart(g[i - g[i].part + k], g[i].n, k)
  <2>1. g[i].n = n /\ g[i].part = a + (i - end) - 1
    BY <1>7
  <2>2. ASSUME NEW k \in 1 .. g[i].part
        PROVE  IsPart(g[i - g[i].part + k], n, k)
    <3> DEFINE j == end - (a - 1) + k
    <3>1. i - g[i].part + k = j /\ j \in Int /\ k \in Int
      BY <1>1, <2>1
    <3>2. CASE k <= a - 1
      <4>1. j \in 1 .. end /\ k \in 1 .. a - 1
        BY <1>1, <1>8, <2>1, <3>2
      <4>2. g[j] = f[j] /\ IsPart(f[j], n, k)
        BY <1>1, <1>8, <4>1
      <4> QED
        BY <3>1, <4>2
    <3>3. CASE k > a - 1
      <4>1. j \in end + 1 .. last /\ a + (j - end) - 1 = k
        BY <1>1, <2>1, <3>3
      <4> HIDE DEF j
      <4>2. IsPart(g[j], n, a + (j - end) - 1)
        BY <1>1, <4>1
      <4> QED
        BY <3>1, <4>1, <4>2
    <3> QED
      BY <3>1, <3>2, <3>3
  <2>3. g[i].part \in 1 .. HeaderSize + ms[n] /\ g[i].part <= i
    BY <1>1, <1>5, <1>8, <2>1
  <2> QED
    BY <2>1, <2>2, <2>3
<1>10. ASSUME NEW i \in 1 .. last, NEW j \in 1 .. last, i < j
      PROVE  \/ g[i].n < g[j].n
             \/ g[i].n = g[j].n /\ g[j].part = g[i].part + (j - i)
  <2>1. CASE j <= end
    <3>1. i \in 1 .. end /\ j \in 1 .. end
      BY <1>1, <1>10, <2>1
    <3> QED
      BY <1>1, <1>4, <1>10, <3>1, ZenonT(60)
  <2>2. CASE i > end
    <3>1. i \in end + 1 .. last /\ j \in end + 1 .. last
      BY <1>1, <1>10, <2>2
    <3> QED
      BY <1>1, <1>7, <3>1
  <2>3. CASE i <= end /\ j > end
    <3>1. i \in 1 .. end /\ j \in end + 1 .. last
      BY <1>1, <2>3
    <3>2. g[j].n = n /\ g[j].part = a + (j - end) - 1 /\ g[i] = f[i]
      BY <1>1, <1>7, <3>1
    <3>3. CASE f[i].n < n
      BY <3>2, <3>3
    <3>4. CASE end > 0 /\ f[end].n = n /\ f[end].part = a - 1
      <4>1. CASE i = end
        BY <1>1, <3>1, <3>2, <3>4, <4>1
      <4>2. CASE i < end
        <5>1. end \in 1 .. end
          BY <1>1, <3>4, SMTT(60)
        <5>2. \/ f[i].n < f[end].n
              \/ f[i].n = f[end].n /\ f[end].part = f[i].part + (end - i)
          BY <1>4, <3>1, <4>2, <5>1
        <5>3. f[i].part \in Int /\ end \in Int /\ i \in Int /\ j \in Int /\ a \in Int
          BY <1>1, <1>2, <3>1
        <5>4. CASE f[i].n < f[end].n
          BY <3>2, <3>4, <5>4
        <5>5. CASE f[i].n = f[end].n /\ f[end].part = f[i].part + (end - i)
          <6>1. f[i].part = (a - 1) - (end - i) /\ f[i].n = n
            BY <3>4, <5>3, <5>5
          <6>2. (a - 1) - (end - i) + (j - i) = a + (j - end) - 1
            BY <5>3
          <6> QED
            BY <3>2, <6>1, <6>2
        <5> QED
          BY <5>2, <5>4, <5>5
      <4> QED
        BY <1>1, <3>1, <4>1, <4>2
    <3> QED
      BY <1>3, <3>1, <3>3, <3>4
  <2> QED
    BY <1>1, <2>1, <2>2, <2>3
<1> QED
  <2>1. 1 .. last = (1 .. end) \cup (end + 1 .. last)
    BY <1>1
  <2>2. \A i \in 1 .. last :
             /\ g[i].n \in DOMAIN ms /\ g[i].part \in 1 .. HeaderSize + ms[g[i].n]
             /\ g[i].part <= i
             /\ \A k \in 1 .. g[i].part : IsPart(g[i - g[i].part + k], g[i].n, k)
    BY <1>6, <1>9, <2>1
  <2> QED
    BY <1>10, <2>2 DEF Records, last

\* What the invariant says of the parts that are there.
LEMMA FileFacts ==
  ASSUME TypeOK, FileOK
  PROVE  /\ Len(file) \in Nat /\ DOMAIN file = 1 .. Len(file)
         /\ \A i \in 1 .. Len(file) :
              /\ file[i].n \in DOMAIN lengths /\ file[i].n \in Nat
              /\ file[i].part \in Nat /\ 1 <= file[i].part
              /\ file[i].part <= Size(file[i].n) /\ file[i].part <= i
              /\ \A k \in 1 .. file[i].part : IsPart(file[i - file[i].part + k], file[i].n, k)
         /\ \A i, j \in 1 .. Len(file) : i < j =>
              \/ file[i].n < file[j].n
              \/ file[i].n = file[j].n /\ file[j].part = file[i].part + (j - i)
<1>1. Len(file) \in Nat /\ DOMAIN file = 1 .. Len(file)
  BY FileType
<1>2. /\ \A i \in 1 .. Len(file) :
           /\ file[i].n \in DOMAIN lengths
           /\ file[i].part \in 1 .. Size(file[i].n) /\ file[i].part <= i
           /\ \A k \in 1 .. file[i].part : IsPart(file[i - file[i].part + k], file[i].n, k)
      /\ \A i, j \in 1 .. Len(file) : i < j =>
           \/ file[i].n < file[j].n
           \/ file[i].n = file[j].n /\ file[j].part = file[i].part + (j - i)
  BY DEF FileOK, Records, Size
<1>3. ASSUME NEW i \in 1 .. Len(file)
      PROVE  /\ file[i].n \in Nat /\ file[i].part \in Nat
             /\ 1 <= file[i].part /\ file[i].part <= Size(file[i].n)
  <2>1. file[i].n \in Nat /\ file[i].part \in Nat
    BY FileType
  <2>2. Size(file[i].n) \in Nat /\ file[i].part \in 1 .. Size(file[i].n)
    BY <1>2, SizeIs
  <2> QED
    BY <2>1, <2>2
<1> QED
  BY <1>1, <1>2, <1>3

-----------------------------------------------------------------------------
(* What a Replay meets.                                                     *)

\* Where a whole record ended, the next one begins.
LEMMA RecordBegins ==
  ASSUME TypeOK, FileOK, NEW at \in 1 .. Len(file),
         at > 1 => file[at - 1].part = Size(file[at - 1].n)
  PROVE  file[at].part = 1
<1>1. /\ at \in Int /\ file[at].part \in Nat /\ 1 <= file[at].part
      /\ file[at].part <= at /\ file[at].part <= Size(file[at].n)
      /\ Size(file[at].n) \in Nat
      /\ \A k \in 1 .. file[at].part : IsPart(file[at - file[at].part + k], file[at].n, k)
  BY FileFacts, SizeIs
<1>2. ASSUME file[at].part > 1 PROVE FALSE
  <2> DEFINE k == file[at].part - 1
  <2>1. k \in 1 .. file[at].part /\ at - file[at].part + k = at - 1 /\ at > 1
    BY <1>1, <1>2
  <2>2. IsPart(file[at - 1], file[at].n, k)
    BY <1>1, <2>1
  <2>3. file[at].part - 1 = Size(file[at].n)
    BY <2>1, <2>2 DEF IsPart
  <2> QED
    BY <1>1, <2>3
<1> QED
  BY <1>1, <1>2

\* The record of which the first part is at `at` is there to its end.
Complete(at) ==
  LET m == file[at].n
  IN  at + Size(m) - 1 <= Len(file) /\ \A k \in 1 .. Size(m) : IsPart(file[at + k - 1], m, k)

\* Between the first part and another one there is nothing of a later record.
LEMMA SameRecord ==
  ASSUME TypeOK, FileOK, NEW at \in 1 .. Len(file), file[at].part = 1,
         NEW j \in 1 .. Len(file), file[j].n = file[at].n
  PROVE  j = at + file[j].part - 1 /\ \A k \in 1 .. file[j].part : IsPart(file[at + k - 1], file[at].n, k)
<1>1. /\ at \in Int /\ j \in Int /\ file[at].n \in Nat
      /\ file[j].part \in Nat /\ 1 <= file[j].part /\ file[j].part <= j
      /\ \A k \in 1 .. file[j].part : IsPart(file[j - file[j].part + k], file[j].n, k)
  BY FileFacts
<1>2. CASE j = at
  BY <1>1, <1>2
<1>3. CASE at < j
  <2>1. file[j].part = 1 + (j - at)
    <3>1. \/ file[at].n < file[j].n
          \/ file[at].n = file[j].n /\ file[j].part = file[at].part + (j - at)
      BY <1>3, FileFacts
    <3> QED
      BY <1>1, <3>1
  <2>2. j - file[j].part = at - 1
    BY <1>1, <2>1
  <2>3. \A k \in 1 .. file[j].part : j - file[j].part + k = at + k - 1
    BY <1>1, <2>1
  <2> QED
    BY <1>1, <2>2, <2>3
<1>4. CASE j < at
  <2>1. 1 = file[j].part + (at - j)
    BY <1>1, <1>4, FileFacts
  <2> QED
    BY <1>1, <1>4, <2>1
<1> QED
  BY <1>1, <1>2, <1>3, <1>4

LEMMA BrokenOrComplete ==
  ASSUME TypeOK, FileOK, NEW at \in 1 .. Len(file), file[at].part = 1
  PROVE  file[at].n \in Broken \/ Complete(at)
<1>1. SUFFICES ASSUME file[at].n \notin Broken PROVE Complete(at)
  OBVIOUS
<1>2. DOMAIN file = 1 .. Len(file) /\ at \in DOMAIN file
  BY FileFacts
<1>3. file[at].n \in Whole(file)
  BY <1>1, <1>2 DEF Broken
<1>4. PICK j \in 1 .. Len(file) : file[j].part = Size(file[j].n) /\ file[j].n = file[at].n
  BY <1>2, <1>3 DEF Whole
<1>5. j = at + file[j].part - 1 /\ \A k \in 1 .. file[j].part : IsPart(file[at + k - 1], file[at].n, k)
  BY <1>4, SameRecord
<1>6. at \in Int /\ j \in Int /\ j <= Len(file) /\ file[j].part = Size(file[at].n)
  BY <1>4
<1> QED
  BY <1>5, <1>6 DEF Complete

\* A later part is of the same record or of a later one.
LEMMA LaterPart ==
  ASSUME TypeOK, FileOK, NEW i \in 1 .. Len(file), NEW j \in 1 .. Len(file), i <= j
  PROVE  /\ file[i].n \in Nat /\ file[j].n \in Nat /\ file[i].n <= file[j].n
         /\ file[i].n # file[j].n => file[i].n < file[j].n
         /\ file[i].n = file[j].n => file[j].part = file[i].part + (j - i)
<1>1. /\ file[i].n \in Nat /\ file[j].n \in Nat /\ i \in Int /\ j \in Int
      /\ file[i].part \in Nat
  BY FileFacts
<1>2. CASE i = j
  BY <1>1, <1>2
<1>3. CASE i < j
  <2>1. \/ file[i].n < file[j].n
        \/ file[i].n = file[j].n /\ file[j].part = file[i].part + (j - i)
    BY <1>3, FileFacts
  <2> QED
    BY <1>1, <2>1
<1> QED
  BY <1>1, <1>2, <1>3

(***************************************************************************)
(* A whole record that a Replay has not delivered ends behind the place it has *)
(* come to; if the record at that place is not complete, it is another one,    *)
(* written before, that broke off.                                          *)
(***************************************************************************)
LEMMA OwedBehind ==
  ASSUME TypeOK, FileOK, NEW at \in 1 .. Len(file) + 1,
         at > 1 => file[at - 1].part = Size(file[at - 1].n),
         NEW got, \A i \in 1 .. at - 1 : file[i].n \in got,
         NEW n, n \notin got, EndsBy(n, Len(file))
  PROVE  /\ at <= Len(file) /\ file[at].part = 1
         /\ ~Complete(at) => file[at].n \in Broken /\ file[at].n < n
<1>1. PICK j \in 1 .. Len(file) : file[j].n = n /\ file[j].part = Size(n)
  BY DEF EndsBy, IsPart
<1>2. j \in Int /\ at \in Int /\ Len(file) \in Nat /\ j <= Len(file)
  BY FileFacts
<1>3. at <= j
  <2>1. j \notin 1 .. at - 1
    BY <1>1
  <2> QED
    BY <1>2, <2>1
<1>4. at \in 1 .. Len(file) /\ at <= Len(file)
  BY <1>2, <1>3
<1>5. file[at].part = 1
  BY <1>4, RecordBegins
<1>6. ASSUME ~Complete(at) PROVE file[at].n \in Broken /\ file[at].n < n
  <2>1. file[at].n \in Broken
    BY <1>4, <1>5, <1>6, BrokenOrComplete
  <2>2. file[at].n # n
    <3>1. n \in Whole(file)
      BY <1>1, FileFacts DEF Whole
    <3> QED
      BY <2>1, <3>1 DEF Broken
  <2>3. file[at].n # file[j].n => file[at].n < file[j].n
    BY <1>3, <1>4, LaterPart
  <2> QED
    BY <1>1, <2>1, <2>2, <2>3
<1> QED
  BY <1>4, <1>5, <1>6

(***************************************************************************)
(* The four parts ReadRecord takes for a header are the one of the record      *)
(* there as far as they are in place.                                       *)
(***************************************************************************)
LEMMA HeaderThere ==
  ASSUME TypeOK, FileOK, NEW at \in 1 .. Len(file), file[at].part = 1,
         NEW k \in 1 .. HeaderSize, at + k - 1 <= Len(file)
  PROVE  /\ file[at + k - 1].part = k => file[at + k - 1].n = file[at].n
         /\ file[at + k - 1].part # k => file[at].n < file[at + k - 1].n
         /\ Complete(at) => file[at + k - 1].part = k
<1> DEFINE j == at + k - 1
<1>1. /\ j \in 1 .. Len(file) /\ j \in Int /\ k \in Int /\ at \in Int /\ at <= j
  BY FileFacts DEF HeaderSize
<1>2. /\ file[at].n \in Nat /\ file[j].n \in Nat
      /\ file[at].n # file[j].n => file[at].n < file[j].n
      /\ file[at].n = file[j].n => file[j].part = file[at].part + (j - at)
  <2> HIDE DEF j
  <2> QED
    BY <1>1, LaterPart
<1>3. file[at].n = file[j].n => file[j].part = k
  BY <1>1, <1>2
<1>4. ASSUME file[j].part = k PROVE file[j].n = file[at].n
  <2>1. IsPart(file[j - k + 1], file[j].n, 1)
    <3>1. \A i \in 1 .. file[j].part : IsPart(file[j - file[j].part + i], file[j].n, i)
      <4> HIDE DEF j
      <4> QED
        BY <1>1, FileFacts
    <3>2. 1 \in 1 .. k
      BY <1>1
    <3> HIDE DEF j
    <3> QED
      BY <1>4, <3>1, <3>2
  <2>2. j - k + 1 = at
    BY <1>1
  <2> QED
    BY <2>1, <2>2 DEF IsPart
<1>5. ASSUME Complete(at) PROVE file[j].part = k
  <2>1. file[at].n \in DOMAIN lengths
    BY FileFacts
  <2>2. k \in 1 .. Size(file[at].n)
    BY <1>1, <2>1, SizeIs
  <2> QED
    BY <1>5, <2>2 DEF Complete, IsPart
<1> QED
  BY <1>2, <1>3, <1>4, <1>5

-----------------------------------------------------------------------------
(* One turn of Replay's loop.                                               *)

Here == reader.at

\* What a Replay that stops here has to have met.
StopsAtBroken ==
  \A n \in reader.owed \ Range(reader.got) : \E m \in Broken : m < n

FailsBefore == \E m \in Broken : \E i \in DOMAIN file : m < file[i].n

\* Nothing that was owed is left out where the record is not complete.
LEMMA StopsWell ==
  ASSUME WalOK, ~(Here \in 1 .. Len(file) /\ Complete(Here))
  PROVE  StopsAtBroken
<1>1. SUFFICES ASSUME NEW n \in reader.owed \ Range(reader.got)
               PROVE  \E m \in Broken : m < n
  BY DEF StopsAtBroken
<1>2. TypeOK /\ FileOK /\ n \in promised
  BY <1>1 DEF WalOK, ReplayOK
<1>3. EndsBy(n, Len(file))
  <2>1. EndsBy(n, synced) /\ synced \in 0 .. Len(file) /\ Len(file) \in Nat
    BY <1>2, FileFacts DEF WalOK, PromiseOK, TypeOK
  <2> QED
    BY <2>1 DEF EndsBy
<1>4. /\ Here \in 1 .. Len(file) + 1
      /\ Here > 1 => file[Here - 1].part = Size(file[Here - 1].n)
      /\ \A i \in 1 .. Here - 1 : file[i].n \in Range(reader.got)
  BY DEF WalOK, ReplayOK, Here
<1>5. /\ Here <= Len(file)
      /\ ~Complete(Here) => file[Here].n \in Broken /\ file[Here].n < n
  <2> HIDE DEF Here
  <2>1. n \notin Range(reader.got)
    OBVIOUS
  <2> QED
    BY <1>2, <1>3, <1>4, <2>1, OwedBehind
<1> QED
  <2>1. Len(file) \in Nat
    BY <1>2, FileFacts
  <2>2. Here \in 1 .. Len(file)
    BY <1>4, <1>5, <2>1
  <2> QED
    BY <1>5, <2>2

LEMMA FailsWell ==
  ASSUME WalOK, Here \in 1 .. Len(file), ~Complete(Here),
         NEW j \in 1 .. Len(file), file[Here].n < file[j].n
  PROVE  FailsBefore
<1>1. TypeOK /\ FileOK /\ (Here > 1 => file[Here - 1].part = Size(file[Here - 1].n))
  BY DEF WalOK, ReplayOK, Here
<1> HIDE DEF Here
<1>2. file[Here].part = 1
  BY <1>1, RecordBegins
<1>3. file[Here].n \in Broken
  BY <1>1, <1>2, BrokenOrComplete
<1>4. j \in DOMAIN file
  BY <1>1, FileFacts
<1> QED
  BY <1>3, <1>4 DEF FailsBefore

\* The payload that is read, when the record is there to its end.
LEMMA PayloadThere ==
  ASSUME TypeOK, FileOK, NEW at \in 1 .. Len(file), Complete(at), NEW m, m = file[at].n
  PROVE  SubSeq(file, at + HeaderSize, at + Size(m) - 1) = Parts(m, HeaderSize + 1, Size(m))
<1>1. /\ file \in Seq(Part) /\ Len(file) \in Nat /\ at \in Int
      /\ m \in DOMAIN lengths
  BY FileFacts, FileType
<1>2. Size(m) \in Nat /\ Size(m) > HeaderSize /\ HeaderSize = 4
  BY <1>1, SizeIs
<1>3. at + Size(m) - 1 <= Len(file) /\ \A k \in 1 .. Size(m) : IsPart(file[at + k - 1], m, k)
  BY DEF Complete
<1> DEFINE read == SubSeq(file, at + 4, at + Size(m) - 1)
           rest == Parts(m, 5, Size(m))
<1>4. read = [i \in 1 .. Size(m) - 4 |-> file[at + 4 + i - 1]]
  BY <1>1, <1>2, <1>3
<1>5. rest = [i \in 1 .. Size(m) - 4 |-> [n |-> m, part |-> 5 + i - 1]]
  BY <1>2 DEF Parts
<1>6. ASSUME NEW i \in 1 .. Size(m) - 4
      PROVE  file[at + 4 + i - 1] = [n |-> m, part |-> 5 + i - 1]
  <2> DEFINE k == i + 4
  <2>1. k \in 1 .. Size(m) /\ at + 4 + i - 1 = at + k - 1 /\ 5 + i - 1 = k /\ at + k - 1 \in 1 .. Len(file)
    BY <1>1, <1>2, <1>3
  <2> HIDE DEF k
  <2>2. file[at + k - 1] \in Part /\ IsPart(file[at + k - 1], m, k)
    BY <1>1, <1>3, <2>1
  <2>3. file[at + k - 1] = [n |-> m, part |-> k]
    BY <2>2 DEF Part, IsPart
  <2> QED
    BY <2>1, <2>3
<1>7. read = rest
  BY <1>4, <1>5, <1>6, Zenon
<1> QED
  BY <1>2, <1>7

\* A checksum that is right is the one of the record there, which is whole.
LEMMA RightChecksum ==
  ASSUME TypeOK, FileOK, NEW at \in 1 .. Len(file), file[at].part = 1,
         NEW m, m = file[at].n, at + Size(m) - 1 <= Len(file),
         ChecksumOK(file[at + HeaderSize - 1], SubSeq(file, at + HeaderSize, at + Size(m) - 1))
  PROVE  Complete(at)
<1>1. /\ file \in Seq(Part) /\ Len(file) \in Nat /\ at \in Int
      /\ m \in DOMAIN lengths
  BY FileFacts, FileType
<1>2. Size(m) \in Nat /\ Size(m) > HeaderSize /\ HeaderSize = 4
  BY <1>1, SizeIs
<1>3. file[at + HeaderSize - 1].n = m
  <2>1. HeaderSize \in 1 .. HeaderSize /\ at + HeaderSize - 1 <= Len(file)
    BY <1>1, <1>2
  <2>2. file[at + HeaderSize - 1].part = HeaderSize
    BY DEF ChecksumOK
  <2> QED
    BY <2>1, <2>2, HeaderThere
<1>4. SubSeq(file, at + 4, at + Size(m) - 1) = Parts(m, 5, Size(m))
  BY <1>2, <1>3 DEF ChecksumOK
<1> DEFINE j == at + Size(m) - 1
<1>5. j \in 1 .. Len(file)
  BY <1>1, <1>2
<1>6. IsPart(file[j], m, Size(m))
  <2>1. PICK size \in Nat : size = Size(m) /\ size > 4
    BY <1>2
  <2>2. PICK i \in Nat : i = size - 4 /\ i > 0
    BY <2>1
  <2>3. i \in 1 .. size - 4 /\ at + 4 + i - 1 = j /\ 5 + i - 1 = size
    <3>1. i \in 1 .. size - 4
      BY <2>1, <2>2
    <3>2. 5 + i - 1 = size
      BY <2>1, <2>2
    <3>3. at + 4 + i - 1 = at + size - 1
      BY <1>1, <2>1, <2>2
    <3> QED
      BY <2>1, <3>1, <3>2, <3>3
  <2>4. SubSeq(file, at + 4, j)[i] = file[at + 4 + i - 1]
    BY <1>1, <1>5, <2>1, <2>3
  <2>5. Parts(m, 5, Size(m))[i] = [n |-> m, part |-> 5 + i - 1]
    BY <2>1, <2>3 DEF Parts
  <2>6. file[j] = [n |-> m, part |-> size]
    BY <1>4, <2>3, <2>4, <2>5
  <2> QED
    BY <2>1, <2>6 DEF IsPart
<1>7. \A k \in 1 .. file[j].part : IsPart(file[at + k - 1], file[at].n, k)
  <2> HIDE DEF j
  <2> QED
    BY <1>5, <1>6, SameRecord DEF IsPart
<1> QED
  BY <1>5, <1>6, <1>7 DEF Complete, IsPart

\* One turn ends the Replay for a reason or delivers the record that is there.
Ended ==
  \E how \in {"done", "failed"} :
    reader' = [reader EXCEPT !.pc = how] /\ StopsAtBroken /\ (how = "failed" => FailsBefore)

Delivered ==
  /\ Here \in 1 .. Len(file) /\ Complete(Here)
  /\ reader' = [reader EXCEPT !.at = @ + Size(file[Here].n), !.got = Append(@, file[Here].n)]

LEMMA ReadStep ==
  ASSUME WalOK, ReadRecord
  PROVE  Ended \/ Delivered
<1>1. TypeOK /\ FileOK /\ Here \in 1 .. Len(file) + 1
      /\ (Here > 1 => file[Here - 1].part = Size(file[Here - 1].n))
  BY DEF WalOK, ReplayOK, Here
<1>2. Len(file) \in Nat /\ Here \in Int
  BY <1>1, FileFacts
<1> DEFINE left == Len(file) + 1 - Here
           h(k) == file[Here + k - 1]
           size == HeaderSize + lengths[h(3).n]
           payload == SubSeq(file, Here + HeaderSize, Here + size - 1)
<1>3. \/ left < HeaderSize /\ Ends("done")
      \/ ~(left < HeaderSize) /\ ~(h(1).part = 1 /\ h(2).part = 2) /\ Ends("failed")
      \/ /\ ~(left < HeaderSize) /\ h(3).part # 3
         /\ \E how \in {"done", "failed"} : Ends(how)
      \/ ~(left < HeaderSize) /\ h(3).part = 3 /\ left < size /\ Ends("done")
      \/ ~(left < HeaderSize) /\ h(3).part = 3 /\ ~(left < size) /\ ~ChecksumOK(h(4), payload) /\ Ends("failed")
      \/ /\ ~(left < HeaderSize) /\ h(3).part = 3 /\ ~(left < size) /\ ChecksumOK(h(4), payload)
         /\ reader' = [reader EXCEPT !.at = @ + size, !.got = Append(@, h(1).n)]
  BY DEF ReadRecord, RunsOut, Here
<1> DEFINE m == file[Here].n
<1>4. ASSUME Here \in 1 .. Len(file)
      PROVE  /\ file[Here].part = 1 /\ m \in DOMAIN lengths
             /\ Size(m) \in Nat /\ Size(m) > HeaderSize /\ HeaderSize = 4
  <2> HIDE DEF Here
  <2>1. file[Here].part = 1 /\ m \in DOMAIN lengths
    BY <1>1, <1>4, RecordBegins, FileFacts
  <2> QED
    BY <1>1, <2>1, SizeIs
<1>5. ASSUME Here \in 1 .. Len(file), Complete(Here)
      PROVE  Size(m) <= left
  BY <1>2, <1>4, <1>5 DEF Complete
<1>6. CASE left < HeaderSize /\ Ends("done")
  <2>1. ~(Here \in 1 .. Len(file) /\ Complete(Here))
    <3>1. SUFFICES ASSUME Here \in 1 .. Len(file), Complete(Here) PROVE FALSE
      OBVIOUS
    <3>2. Size(m) <= left /\ Size(m) \in Nat /\ Size(m) > HeaderSize /\ HeaderSize = 4
      BY <1>4, <1>5, <3>1
    <3> HIDE DEF m
    <3> QED
      BY <1>2, <1>6, <3>2
  <2>2. StopsAtBroken
    BY <2>1, StopsWell
  <2> QED
    BY <1>6, <2>2 DEF Ended, Ends
<1>7. CASE ~(left < HeaderSize)
  <2>1. Here \in 1 .. Len(file) /\ \A k \in 1 .. HeaderSize : Here + k - 1 \in 1 .. Len(file)
    BY <1>1, <1>2, <1>7 DEF HeaderSize
  <2>2. /\ file[Here].part = 1 /\ m \in DOMAIN lengths
        /\ Size(m) \in Nat /\ Size(m) > HeaderSize /\ HeaderSize = 4
    BY <1>4, <2>1
  <2>3. ASSUME NEW k \in 1 .. HeaderSize
        PROVE  /\ h(k).part = k => h(k).n = m
               /\ h(k).part # k => m < h(k).n
               /\ Complete(Here) => h(k).part = k
    <3>1. Here + k - 1 <= Len(file)
      BY <1>2, <2>1
    <3> HIDE DEF Here
    <3> QED
      BY <1>1, <2>1, <2>2, <3>1, HeaderThere
  <2>4. ASSUME NEW how \in {"done", "failed"}, Ends(how), ~Complete(Here),
               how = "failed" => FailsBefore
        PROVE  Ended
    <3>1. StopsAtBroken
      BY <2>4, StopsWell
    <3> QED
      BY <2>4, <3>1 DEF Ended, Ends
  <2>5. ASSUME ~Complete(Here), NEW k \in 1 .. HeaderSize, h(k).part # k
        PROVE  FailsBefore
    <3>1. m < h(k).n /\ Here + k - 1 \in 1 .. Len(file)
      BY <2>1, <2>3, <2>5
    <3> QED
      BY <2>1, <2>5, <3>1, FailsWell
  <2>6. /\ 1 \in 1 .. HeaderSize /\ 2 \in 1 .. HeaderSize /\ 3 \in 1 .. HeaderSize
        /\ 4 \in 1 .. HeaderSize
    BY <2>2
  <2>7. CASE ~(h(1).part = 1 /\ h(2).part = 2) /\ Ends("failed")
    <3>1. PICK k \in 1 .. HeaderSize : h(k).part # k
      BY <2>6, <2>7
    <3>2. ~Complete(Here)
      BY <2>3, <3>1
    <3>3. FailsBefore
      BY <2>5, <3>1, <3>2
    <3> QED
      BY <2>4, <2>7, <3>2, <3>3
  <2>8. CASE h(3).part # 3 /\ \E how \in {"done", "failed"} : Ends(how)
    <3>1. ~Complete(Here)
      BY <2>3, <2>6, <2>8
    <3>2. FailsBefore
      BY <2>5, <2>6, <2>8, <3>1
    <3> QED
      BY <2>4, <2>8, <3>1, <3>2
  <2>9. ASSUME h(3).part = 3 PROVE size = Size(m) /\ h(3).n = m
    <3>1. h(3).n = m
      BY <2>3, <2>6, <2>9
    <3> QED
      BY <3>1 DEF Size
  <2>10. CASE h(3).part = 3 /\ left < size /\ Ends("done")
    <3>1. ~Complete(Here)
      <4>1. size = Size(m)
        BY <2>9, <2>10
      <4>2. left < Size(m) /\ Size(m) \in Nat
        BY <2>2, <2>10, <4>1
      <4>3. Complete(Here) => Size(m) <= left
        BY <1>5, <2>1
      <4> HIDE DEF m, size, h
      <4> QED
        BY <1>2, <4>2, <4>3
    <3> QED
      BY <2>4, <2>10, <3>1
  <2>11. CASE h(3).part = 3 /\ ~(left < size) /\ ~ChecksumOK(h(4), payload) /\ Ends("failed")
    <3>1. size = Size(m)
      BY <2>9, <2>11
    <3>2. Here + Size(m) - 1 \in 1 .. Len(file) /\ Here <= Here + Size(m) - 1
      <4>1. ~(left < Size(m)) /\ Size(m) \in Nat /\ Size(m) > 4
        BY <2>2, <2>11, <3>1
      <4> HIDE DEF m, size, h
      <4> QED
        BY <1>2, <2>1, <4>1
    <3>3. ~Complete(Here)
      <4>1. SUFFICES ASSUME Complete(Here) PROVE FALSE
        OBVIOUS
      <4>2. payload = Parts(m, HeaderSize + 1, Size(m))
        <5>1. SubSeq(file, Here + HeaderSize, Here + Size(m) - 1) = Parts(m, HeaderSize + 1, Size(m))
          <6> HIDE DEF Here
          <6> QED
            BY <1>1, <2>1, <4>1, PayloadThere
        <5> QED
          BY <3>1, <5>1
      <4>3. h(4).part = HeaderSize
        BY <2>2, <2>3, <2>6, <4>1
      <4>4. h(4).n = m
        BY <2>2, <2>3, <2>6, <4>3
      <4> HIDE DEF payload, h, m
      <4> QED
        BY <2>11, <4>2, <4>3, <4>4 DEF ChecksumOK
    <3>4. FailsBefore
      <4> DEFINE j == Here + Size(m) - 1
      <4>1. file[j].n # m
        <5>1. SUFFICES ASSUME file[j].n = m PROVE FALSE
          OBVIOUS
        <5>2. j = Here + file[j].part - 1 /\ \A k \in 1 .. file[j].part : IsPart(file[Here + k - 1], m, k)
          <6> HIDE DEF j, Here
          <6> QED
            BY <1>1, <2>1, <2>2, <3>2, <5>1, SameRecord DEF j
        <5>3. file[j].part \in Nat
          <6> HIDE DEF j
          <6> QED
            BY <1>1, <3>2, FileFacts DEF j
        <5>4. file[j].part = Size(m) /\ j <= Len(file)
          <6> HIDE DEF m
          <6> QED
            BY <1>2, <2>2, <3>2, <5>2, <5>3
        <5> QED
          BY <3>3, <5>2, <5>4 DEF Complete
      <4>2. m < file[j].n
        <5>1. j \in 1 .. Len(file) /\ Here <= j
          BY <3>2
        <5> HIDE DEF j, Here
        <5> QED
          BY <1>1, <2>1, <4>1, <5>1, LaterPart
      <4>3. j \in 1 .. Len(file)
        BY <3>2
      <4> HIDE DEF j
      <4> QED
        BY <2>1, <3>3, <4>2, <4>3, FailsWell
    <3> QED
      BY <2>4, <2>11, <3>3, <3>4
  <2>12. CASE /\ h(3).part = 3 /\ ~(left < size) /\ ChecksumOK(h(4), payload)
              /\ reader' = [reader EXCEPT !.at = @ + size, !.got = Append(@, h(1).n)]
    <3>1. size = Size(m)
      BY <2>9, <2>12
    <3>2. Here + Size(m) - 1 <= Len(file)
      <4>1. ~(left < Size(m)) /\ Size(m) \in Nat
        BY <2>2, <2>12, <3>1
      <4> HIDE DEF m, size, h
      <4> QED
        BY <1>2, <4>1
    <3>3. ChecksumOK(file[Here + HeaderSize - 1], SubSeq(file, Here + HeaderSize, Here + Size(m) - 1))
      BY <2>2, <2>12, <3>1
    <3>4. Complete(Here)
      <4> HIDE DEF Here
      <4> QED
        BY <1>1, <2>1, <2>2, <3>2, <3>3, RightChecksum
    <3>5. h(1).n = m
      BY <2>3, <2>6, <3>4
    <3>6. reader' = [reader EXCEPT !.at = @ + Size(m), !.got = Append(@, m)]
      BY <2>12, <3>1, <3>5
    <3> QED
      BY <2>1, <3>4, <3>6 DEF Delivered
  <2> QED
    BY <1>3, <1>7, <2>7, <2>8, <2>10, <2>11, <2>12
<1> QED
  BY <1>3, <1>6, <1>7

\* The reader is what TypeOK says, part by part.
ReaderType ==
  /\ reader.pc \in {"idle", "reading", "done", "failed"} /\ reader.at \in Nat \ {0}
  /\ reader.got \in Seq(1 .. MaxAppends) /\ reader.owed \in SUBSET (1 .. MaxAppends)
  /\ reader = [pc |-> reader.pc, at |-> reader.at, got |-> reader.got, owed |-> reader.owed]

LEMMA ReaderTyped == ASSUME TypeOK PROVE ReaderType
BY DEF TypeOK, ReaderType

LEMMA ReadKeeps ==
  ASSUME WalOK, ReadRecord
  PROVE  TypeOK' /\ ReplayOK'
<1>1. TypeOK /\ FileOK /\ ReplayOK /\ ReaderType /\ Len(lengths) <= MaxAppends
  BY ReaderTyped DEF WalOK
<1>2. UNCHANGED <<file, lengths, synced, acked, promised, writer, handle, faults>>
  BY DEF ReadRecord
<1>3. UNCHANGED <<deferSync, open, reopens>> /\ Broken' = Broken
  BY <1>2 DEF handle, Broken, Whole, Size
<1>4. \A n, k : EndsBy(n, k)' <=> EndsBy(n, k)
  BY <1>2 DEF EndsBy, Size
<1>5. TypeOK /\ ReaderType' => TypeOK'
  BY <1>2, <1>3 DEF TypeOK, ReaderType
<1>6. CASE Ended
  <2>1. PICK how \in {"done", "failed"} :
          reader' = [reader EXCEPT !.pc = how] /\ StopsAtBroken /\ (how = "failed" => FailsBefore)
    BY <1>6 DEF Ended
  <2>2. /\ reader'.pc = how /\ reader'.at = reader.at /\ reader'.got = reader.got
        /\ reader'.owed = reader.owed
    BY <1>1, <2>1 DEF ReaderType
  <2>3. ReaderType'
    BY <1>1, <2>1, <2>2 DEF ReaderType
  <2>4. ReplayOK'
    BY <1>1, <1>2, <1>3, <1>4, <2>1, <2>2 DEF ReplayOK, StopsAtBroken, FailsBefore, Size
  <2> QED
    BY <1>1, <1>5, <2>3, <2>4
<1>7. CASE Delivered
  <2> DEFINE m == file[Here].n
             to == Here + Size(m)
  <2>1. /\ Here \in 1 .. Len(file) /\ Complete(Here)
        /\ reader' = [reader EXCEPT !.at = @ + Size(m), !.got = Append(@, m)]
    BY <1>7 DEF Delivered
  <2>2. /\ reader'.pc = reader.pc /\ reader'.pc = "reading" /\ reader'.at = to
        /\ reader'.got = Append(reader.got, m) /\ reader'.owed = reader.owed
    BY <1>1, <2>1 DEF ReaderType, Here, ReadRecord
  <2>3. m \in 1 .. MaxAppends /\ m \in DOMAIN lengths
    <3>1. m \in DOMAIN lengths
      BY <1>1, <2>1, FileFacts
    <3>2. DOMAIN lengths = 1 .. Len(lengths) /\ Len(lengths) \in Nat
      BY <1>1 DEF TypeOK
    <3> QED
      BY <1>1, <3>1, <3>2, BoundsAssumption
  <2>4. Size(m) \in Nat /\ Size(m) > 4 /\ Here \in Int /\ Len(file) \in Nat
    BY <1>1, <2>1, <2>3, SizeIs, FileFacts
  <2>5. to - 1 <= Len(file) /\ \A k \in 1 .. Size(m) : IsPart(file[Here + k - 1], m, k)
    <3>1. Here + Size(m) - 1 <= Len(file) /\ \A k \in 1 .. Size(m) : IsPart(file[Here + k - 1], m, k)
      BY <2>1, Zenon DEF Complete
    <3> HIDE DEF m
    <3> QED
      BY <2>4, <3>1
  <2>6. reader.got \in Seq(1 .. MaxAppends)
    BY <1>1 DEF ReaderType
  <2> DEFINE got == reader.got
  <2>7. /\ reader'.got \in Seq(1 .. MaxAppends) /\ DOMAIN reader'.got = 1 .. Len(got) + 1
        /\ DOMAIN got = 1 .. Len(got) /\ Len(got) \in Nat
        /\ \A i \in 1 .. Len(got) : reader'.got[i] = got[i]
        /\ reader'.got[Len(got) + 1] = m
    <3> HIDE DEF m
    <3> QED
      BY <2>2, <2>3, <2>6
  <2>8. Range(reader'.got) = Range(got) \cup {m}
    <3> HIDE DEF m, got
    <3> QED
      BY <2>7 DEF Range
  <2>9. ReaderType'
    <3>1. to \in Nat \ {0}
      BY <2>1, <2>4
    <3> QED
      BY <1>1, <2>1, <2>2, <2>7, <3>1 DEF ReaderType
  <2>10. to \in 1 .. Len(file) + 1 /\ to - 1 = Here + Size(m) - 1 /\ to - 1 \in 1 .. Len(file)
    <3> HIDE DEF m
    <3> QED
      BY <2>1, <2>4, <2>5
  <2>11. IsPart(file[to - 1], m, Size(m))
    <3>1. Size(m) \in 1 .. Size(m)
      <4> HIDE DEF m
      <4> QED
        BY <2>4
    <3> QED
      BY <2>5, <2>10, <3>1
  <2>12. \A n \in Range(got) : n < m
    <3> TAKE n \in Range(got)
    <3>1. EndsBy(n, Here - 1)
      BY <1>1 DEF ReplayOK, Here
    <3>2. PICK j \in 1 .. Here - 1 : IsPart(file[j], n, Size(n))
      BY <3>1 DEF EndsBy
    <3>3. j \in 1 .. Len(file) /\ j \in Int /\ j < Here
      BY <2>1, <2>4, <3>2
    <3>4. /\ file[j].n # m => file[j].n < m
          /\ file[j].n = m => file[Here].part = file[j].part + (Here - j)
      <4> HIDE DEF Here
      <4> QED
        BY <1>1, <2>1, <3>3, LaterPart
    <3>5. file[Here].part = 1
      BY <2>4, <2>5 DEF IsPart
    <3>6. file[j].n # m
      BY <2>4, <3>2, <3>3, <3>4, <3>5 DEF IsPart
    <3> QED
      BY <3>2, <3>4, <3>6 DEF IsPart
  <2>13. \A i, j \in DOMAIN reader'.got : i < j => reader'.got[i] < reader'.got[j]
    <3> SUFFICES ASSUME NEW i \in 1 .. Len(got) + 1, NEW j \in 1 .. Len(got) + 1, i < j
                 PROVE  reader'.got[i] < reader'.got[j]
      BY <2>7
    <3>1. i \in 1 .. Len(got) /\ i \in DOMAIN got
      BY <2>7
    <3>2. CASE j = Len(got) + 1
      <4>1. got[i] \in Range(got)
        BY <3>1 DEF Range
      <4> QED
        BY <2>7, <2>12, <3>1, <3>2, <4>1
    <3>3. CASE j # Len(got) + 1
      <4>1. j \in 1 .. Len(got) /\ j \in DOMAIN got
        BY <2>7, <3>3
      <4>2. got[i] < got[j]
        BY <1>1, <3>1, <4>1 DEF ReplayOK
      <4> QED
        BY <2>7, <3>1, <4>1, <4>2
    <3> QED
      BY <3>2, <3>3
  <2>14. \A n \in Range(reader'.got) : EndsBy(n, to - 1)
    <3>1. EndsBy(m, to - 1)
      <4>1. to - 1 \in 1 .. to - 1
        <5> HIDE DEF to
        <5> QED
          BY <2>10
      <4> QED
        BY <2>11, <4>1 DEF EndsBy
    <3>2. ASSUME NEW n \in Range(got) PROVE EndsBy(n, to - 1)
      <4>1. PICK j \in 1 .. Here - 1 : IsPart(file[j], n, Size(n))
        BY <1>1 DEF ReplayOK, Here, EndsBy
      <4>2. j \in 1 .. to - 1
        <5> HIDE DEF m
        <5> QED
          BY <2>4, <4>1
      <4> QED
        BY <4>1, <4>2 DEF EndsBy
    <3> QED
      BY <2>8, <3>1, <3>2
  <2>15. \A i \in 1 .. to - 1 : file[i].n \in Range(reader'.got)
    <3> TAKE i \in 1 .. to - 1
    <3>1. CASE i < Here
      <4>1. i \in 1 .. Here - 1
        BY <2>4, <3>1
      <4> QED
        BY <1>1, <2>8, <4>1 DEF ReplayOK, Here
    <3>2. CASE ~(i < Here)
      <4> DEFINE k == i - Here + 1
      <4>1. k \in 1 .. Size(m) /\ Here + k - 1 = i
        <5> HIDE DEF m
        <5> QED
          BY <2>4, <2>10, <3>2
      <4>2. IsPart(file[Here + k - 1], m, k)
        <5> HIDE DEF k, m
        <5> QED
          BY <2>5, <4>1
      <4>3. file[i].n = m
        BY <4>1, <4>2 DEF IsPart
      <4> QED
        BY <2>8, <4>3
    <3> QED
      BY <3>1, <3>2
  <2>16. ReplayOK'
    <3> HIDE DEF got, to, m
    <3> QED
      BY <1>1, <1>2, <1>3, <1>4, <2>2, <2>10, <2>11, <2>13, <2>14, <2>15
      DEF ReplayOK, IsPart, Size
  <2> QED
    BY <1>1, <1>5, <2>9, <2>16
<1> QED
  BY <1>6, <1>7, ReadStep

-----------------------------------------------------------------------------
(* Parts written behind the file disturb neither a promise nor a Replay.     *)

LengthsStay == \A m \in DOMAIN lengths : m \in DOMAIN lengths' /\ lengths'[m] = lengths[m]

LEMMA GrownEnds ==
  ASSUME TypeOK, FileOK, NEW n, NEW a, NEW b, Grown(file', file, n, a, b), LengthsStay
  PROVE  /\ Len(file) \in Nat /\ Len(file') \in Nat
         /\ \A m : \A i \in 0 .. Len(file) : EndsBy(m, i) => EndsBy(m, i)'
         /\ \A i \in 1 .. Len(file) : file'[i] = file[i] /\ Size(file[i].n)' = Size(file[i].n)
<1>1. Len(file) \in Nat /\ Len(file') \in Nat /\ \A i \in 1 .. Len(file) : file'[i] = file[i]
  <2>1. file' \in Seq(Part) /\ \A i \in 1 .. Len(file) : file'[i] = file[i]
    BY DEF Grown
  <2> QED
    BY <2>1, FileFacts
<1>2. \A i \in 1 .. Len(file) : Size(file[i].n)' = Size(file[i].n)
  <2> TAKE i \in 1 .. Len(file)
  <2>1. file[i].n \in DOMAIN lengths
    BY FileFacts
  <2>2. file'[i] = file[i]
    BY <1>1
  <2>3. lengths'[file[i].n] = lengths[file[i].n]
    BY <2>1 DEF LengthsStay
  <2> QED
    BY <2>2, <2>3 DEF Size, HeaderSize
<1>3. ASSUME NEW m, NEW i \in 0 .. Len(file), EndsBy(m, i)
      PROVE  EndsBy(m, i)'
  <2>1. PICK j \in 1 .. i : file[j].n = m /\ file[j].part = Size(m)
    BY <1>3 DEF EndsBy, IsPart
  <2>2. j \in 1 .. Len(file)
    BY <1>1, <2>1
  <2>3. file'[j] = file[j] /\ lengths'[m] = lengths[m]
    <3>1. m \in DOMAIN lengths
      BY <2>1, <2>2, FileFacts
    <3> QED
      BY <1>1, <2>2, <3>1 DEF LengthsStay
  <2>4. file'[j].n = m /\ file'[j].part = HeaderSize + lengths'[m]
    BY <2>1, <2>3 DEF Size
  <2> QED
    BY <2>1, <2>4 DEF EndsBy, IsPart, Size
<1> QED
  BY <1>1, <1>2, <1>3

\* A record that broke off and has something behind it is never completed.
LEMMA BrokenStays ==
  ASSUME TypeOK, FileOK, FileOK', NEW n, NEW a, NEW b, Grown(file', file, n, a, b), LengthsStay,
         Len(file) <= Len(file'),
         NEW m \in Broken, NEW j \in 1 .. Len(file), m < file[j].n
  PROVE  m \in Broken'
<1>1. PICK i \in 1 .. Len(file) : m = file[i].n
  BY FileFacts DEF Broken
<1>2. /\ Len(file) \in Nat /\ Len(file') \in Nat /\ Len(file) <= Len(file')
      /\ DOMAIN file' = 1 .. Len(file')
      /\ \A k \in 1 .. Len(file) : file'[k] = file[k] /\ Size(file[k].n)' = Size(file[k].n)
  <2>1. /\ Len(file) \in Nat /\ Len(file') \in Nat
        /\ \A k \in 1 .. Len(file) : file'[k] = file[k] /\ Size(file[k].n)' = Size(file[k].n)
    BY GrownEnds
  <2>2. DOMAIN file' = 1 .. Len(file')
    BY DEF Grown
  <2> QED
    BY <2>1, <2>2
<1>3. i \in DOMAIN file' /\ file'[i].n = m
  BY <1>1, <1>2
<1>4. ASSUME NEW k \in DOMAIN file', file'[k].n = m, file'[k].part = Size(m)'
      PROVE  FALSE
  <2>1. CASE k \in 1 .. Len(file)
    <3>1. file[k].n = m /\ file[k].part = Size(m)
      BY <1>2, <1>4, <2>1
    <3>2. m \in Whole(file)
      BY <2>1, <3>1, FileFacts DEF Whole
    <3> QED
      BY <3>2 DEF Broken
  <2>2. CASE k \notin 1 .. Len(file)
    <3>1. j \in 1 .. Len(file') /\ k \in 1 .. Len(file') /\ j < k
      BY <1>2, <2>2
    <3>2. file'[j].n < file'[k].n \/ file'[j].n = file'[k].n
      BY <3>1 DEF FileOK, Records
    <3>3. file[j].n \in Nat /\ m \in Nat
      BY <1>1, FileFacts
    <3> QED
      BY <1>2, <1>4, <3>2, <3>3
  <2> QED
    BY <2>1, <2>2
<1>5. m \notin Whole(file)'
  BY <1>4 DEF Whole
<1> QED
  BY <1>3, <1>5 DEF Broken

LEMMA GrowthKeeps ==
  ASSUME WalOK, FileOK', NEW n, NEW a, NEW b, Grown(file', file, n, a, b), LengthsStay,
         Len(file) <= Len(file'), UNCHANGED <<synced, promised, reader>>
  PROVE  PromiseOK' /\ ReplayOK'
<1>1. /\ TypeOK /\ FileOK /\ PromiseOK /\ ReplayOK /\ ReaderType
      /\ synced \in 0 .. Len(file) /\ promised \subseteq acked
  BY ReaderTyped DEF WalOK, TypeOK
<1>2. /\ Len(file) \in Nat /\ Len(file') \in Nat
      /\ DOMAIN file = 1 .. Len(file) /\ DOMAIN file' = 1 .. Len(file')
      /\ \A m : \A i \in 0 .. Len(file) : EndsBy(m, i) => EndsBy(m, i)'
      /\ \A i \in 1 .. Len(file) : file'[i] = file[i] /\ Size(file[i].n)' = Size(file[i].n)
  <2>1. DOMAIN file = 1 .. Len(file)
    BY <1>1, FileFacts
  <2>2. DOMAIN file' = 1 .. Len(file')
    BY DEF Grown
  <2> QED
    BY <1>1, <2>1, <2>2, GrownEnds
<1>3. PromiseOK'
  BY <1>1, <1>2 DEF PromiseOK
<1>4. \A m \in Broken : \A j \in 1 .. Len(file) : m < file[j].n => m \in Broken'
  BY <1>1, BrokenStays
<1> DEFINE at == reader.at
<1>5. at \in 1 .. Len(file) + 1 /\ at - 1 \in 0 .. Len(file) /\ at \in 1 .. Len(file') + 1
  BY <1>1, <1>2 DEF ReplayOK
<1>6. (reader.at > 1 => file[reader.at - 1].part = Size(file[reader.at - 1].n))'
  <2>1. reader' = reader
    OBVIOUS
  <2>2. SUFFICES ASSUME at > 1
                 PROVE  file'[at - 1].part = HeaderSize + lengths'[file'[at - 1].n]
    BY <2>1 DEF Size, HeaderSize
  <2> DEFINE i == at - 1
  <2>3. i \in 1 .. Len(file) /\ file[i].part = Size(file[i].n)
    BY <1>1, <1>2, <1>5, <2>2 DEF ReplayOK
  <2> HIDE DEF i
  <2>4. file'[i] = file[i] /\ HeaderSize + lengths'[file'[i].n] = Size(file[i].n)
    BY <1>2, <2>3 DEF Size, HeaderSize
  <2>5. file'[i].part = HeaderSize + lengths'[file'[i].n]
    BY <2>3, <2>4
  <2> QED
    BY <2>5 DEF i
<1>7. \A k \in Range(reader.got) : EndsBy(k, at - 1)'
  BY <1>1, <1>2, <1>5 DEF ReplayOK
<1>8. \A i \in 1 .. at - 1 : file'[i].n \in Range(reader.got)
  BY <1>1, <1>2, <1>5 DEF ReplayOK
<1>9. ASSUME reader.pc \in {"done", "failed"}, NEW k \in reader.owed \ Range(reader.got)
      PROVE  \E m \in Broken' : m < k
  <2>1. PICK m \in Broken : m < k
    BY <1>1, <1>9 DEF ReplayOK
  <2>2. EndsBy(k, synced)
    BY <1>1 DEF ReplayOK, PromiseOK
  <2>3. PICK j \in 1 .. Len(file) : file[j].n = k
    BY <1>1, <1>2, <2>2 DEF EndsBy, IsPart
  <2> QED
    BY <1>4, <2>1, <2>3
<1>10. ASSUME reader.pc = "failed"
       PROVE  \E m \in Broken' : \E i \in DOMAIN file' : m < file'[i].n
  <2>1. PICK m \in Broken : \E i \in DOMAIN file : m < file[i].n
    BY <1>1, <1>10 DEF ReplayOK
  <2>2. PICK i \in 1 .. Len(file) : m < file[i].n
    BY <1>2, <2>1
  <2>3. m \in Broken' /\ i \in DOMAIN file' /\ file'[i] = file[i]
    BY <1>2, <1>4, <2>2
  <2> QED
    BY <2>2, <2>3
<1>11. ReplayOK'
  <2>1. reader' = reader /\ promised' = promised
    OBVIOUS
  <2>2. /\ \A i, j \in DOMAIN reader.got : i < j => reader.got[i] < reader.got[j]
        /\ reader.owed \subseteq promised
    BY <1>1 DEF ReplayOK
  <2>3. (reader.at \in 1 .. Len(file) + 1)'
    BY <1>5, <2>1
  <2>4. (\A k \in Range(reader.got) : EndsBy(k, reader.at - 1))'
    BY <1>7, <2>1 DEF EndsBy, Size
  <2>5. (\A i \in 1 .. reader.at - 1 : file[i].n \in Range(reader.got))'
    BY <1>8, <2>1
  <2>6. (reader.pc \in {"done", "failed"}
           => \A k \in reader.owed \ Range(reader.got) : \E m \in Broken : m < k)'
    BY <1>9, <2>1
  <2>7. (reader.pc = "failed" => \E m \in Broken : \E i \in DOMAIN file : m < file[i].n)'
    BY <1>10, <2>1
  <2> QED
    BY <1>6, <2>1, <2>2, <2>3, <2>4, <2>5, <2>6, <2>7 DEF ReplayOK
<1> QED
  BY <1>3, <1>11

LEMMA PromisesGrow ==
  ASSUME WalOK, UNCHANGED <<file, lengths, reader>>, promised \subseteq promised'
  PROVE  FileOK' /\ ReplayOK' /\ Whole(file)' = Whole(file) /\ \A n, k : EndsBy(n, k)' <=> EndsBy(n, k)
<1>1. FileOK /\ ReplayOK
  BY DEF WalOK
<1>2. Whole(file)' = Whole(file) /\ Broken' = Broken /\ \A n, k : EndsBy(n, k)' <=> EndsBy(n, k)
  BY DEF Broken, Whole, Size, EndsBy
<1>3. FileOK'
  BY <1>1 DEF FileOK, Records
<1> QED
  BY <1>1, <1>2, <1>3 DEF ReplayOK, Size

-----------------------------------------------------------------------------
(* Every step keeps the invariant.                                          *)

LEMMA WalInit == Init => WalOK
<1> SUFFICES ASSUME Init PROVE WalOK
  OBVIOUS
<1>1. TypeOK /\ Len(lengths) <= MaxAppends
  <2>1. deferSync \in BOOLEAN /\ open \in BOOLEAN
    BY DEF Init
  <2>2. /\ file = << >> /\ lengths = << >> /\ synced = 0 /\ acked = {} /\ promised = {}
        /\ writer = "idle" /\ faults = 0 /\ reopens = 0
        /\ reader = [pc |-> "idle", at |-> 1, got |-> << >>, owed |-> {}]
    BY DEF Init, NoReader
  <2>3. reader \in [pc : {"idle", "reading", "done", "failed"}, at : Nat \ {0},
                    got : Seq(1 .. MaxAppends), owed : SUBSET (1 .. MaxAppends)]
    BY <2>2
  <2> QED
    BY <2>1, <2>2, <2>3, BoundsAssumption DEF TypeOK
<1>2. FileOK /\ WriterOK /\ PromiseOK
  BY DEF Init, FileOK, Records, WriterOK, PromiseOK
<1>3. ReplayOK
  <2>1. Range(reader.got) = {}
    BY DEF Init, NoReader, Range
  <2> QED
    BY <2>1 DEF Init, NoReader, ReplayOK
<1> QED
  BY <1>1, <1>2, <1>3 DEF WalOK

\* WriteHeader writes the first parts of a new record.
HeaderGrown ==
  \E k \in 0 .. HeaderSize :
    /\ Grown(file', file, Len(lengths) + 1, 1, k)
    /\ \/ k = HeaderSize /\ writer' = "header" /\ UNCHANGED faults
       \/ writer' = "idle" /\ Fault

LEMMA HeaderGrows ==
  ASSUME WalOK, NEW ln \in PayloadLengths, WriteHeader(ln)
  PROVE  /\ lengths' \in Seq(PayloadLengths) /\ Len(lengths') = Len(lengths) + 1
         /\ DOMAIN lengths' = 1 .. Len(lengths) + 1
         /\ Len(lengths) + 1 \in 1 .. MaxAppends /\ Len(lengths') <= MaxAppends
         /\ lengths'[Len(lengths) + 1] = ln /\ ln \in Nat /\ LengthsStay
         /\ HeaderGrown
<1> DEFINE n == Len(lengths) + 1
<1>1. /\ TypeOK /\ FileOK /\ lengths \in Seq(PayloadLengths) /\ file \in Seq(Part)
      /\ Len(lengths) \in Nat /\ DOMAIN lengths = 1 .. Len(lengths) /\ Len(file) \in Nat
      /\ DOMAIN file = 1 .. Len(file)
  <2>1. TypeOK /\ FileOK /\ lengths \in Seq(PayloadLengths)
    BY DEF WalOK, TypeOK
  <2> QED
    BY <2>1, FileType
<1>2. /\ lengths' = Append(lengths, ln) /\ Len(lengths) < MaxAppends
      /\ UNCHANGED <<synced, acked, promised, handle, reader>>
  BY DEF WriteHeader
<1>3. /\ lengths' \in Seq(PayloadLengths) /\ Len(lengths') = n /\ DOMAIN lengths' = 1 .. n
      /\ n \in 1 .. MaxAppends /\ Len(lengths') <= MaxAppends
      /\ lengths'[n] = ln /\ ln \in Nat /\ LengthsStay
  BY <1>1, <1>2, BoundsAssumption DEF LengthsStay
<1>4. PICK k \in 0 .. HeaderSize :
        /\ file' = file \o Parts(n, 1, k)
        /\ \/ k = HeaderSize /\ writer' = "header" /\ UNCHANGED faults
           \/ writer' = "idle" /\ Fault
  <2>1. \/ /\ file' = file \o Parts(n, 1, HeaderSize)
           /\ writer' = "header" /\ UNCHANGED faults
        \/ \E k \in Left(HeaderSize) : file' = file \o Parts(n, 1, k) /\ writer' = "idle" /\ Fault
    BY <1>3 DEF WriteHeader
  <2>2. HeaderSize \in 0 .. HeaderSize /\ \A k \in Left(HeaderSize) : k \in 0 .. HeaderSize
    BY DEF HeaderSize, Left
  <2> QED
    BY <2>1, <2>2
<1>5. k \in Nat /\ k <= 4 /\ HeaderSize = 4
  BY DEF HeaderSize
<1> HIDE DEF n
<1>6. Grown(file', file, n, 1, k)
  <2>1. 1 \in Nat \ {0} /\ k >= 1 - 1
    BY <1>5
  <2> QED
    BY <1>1, <1>3, <1>4, <1>5, <2>1, PartsAdded
<1>7. HeaderGrown
  BY <1>4, <1>6 DEF HeaderGrown, n
<1> QED
  BY <1>3, <1>7 DEF n

LEMMA HeaderKeeps ==
  ASSUME WalOK, NEW ln \in PayloadLengths, WriteHeader(ln)
  PROVE  WalOK'
<1> DEFINE n == Len(lengths) + 1
<1>1. /\ TypeOK /\ FileOK /\ lengths \in Seq(PayloadLengths) /\ file \in Seq(Part)
      /\ Len(lengths) \in Nat /\ DOMAIN lengths = 1 .. Len(lengths) /\ Len(file) \in Nat
      /\ DOMAIN file = 1 .. Len(file)
  <2>1. TypeOK /\ FileOK /\ lengths \in Seq(PayloadLengths)
    BY DEF WalOK, TypeOK
  <2> QED
    BY <2>1, FileType
<1>2. /\ lengths' = Append(lengths, ln) /\ Len(lengths) < MaxAppends
      /\ UNCHANGED <<synced, acked, promised, handle, reader>>
  BY DEF WriteHeader
<1>3. /\ lengths' \in Seq(PayloadLengths) /\ Len(lengths') = n /\ DOMAIN lengths' = 1 .. n
      /\ n \in 1 .. MaxAppends /\ Len(lengths') <= MaxAppends
      /\ lengths'[n] = ln /\ ln \in Nat /\ LengthsStay
  BY HeaderGrows
<1>4. PICK k \in 0 .. HeaderSize :
        /\ Grown(file', file, n, 1, k)
        /\ \/ k = HeaderSize /\ writer' = "header" /\ UNCHANGED faults
           \/ writer' = "idle" /\ Fault
  BY HeaderGrows DEF HeaderGrown
<1>5. k \in Nat /\ k <= 4 /\ HeaderSize = 4
  BY DEF HeaderSize
<1> HIDE DEF n
<1>6. Grown(file', file, n, 1, k)
  BY <1>4
<1>7. FileOK'
  <2>1. \A i \in 1 .. Len(file) : file[i].n < n
    <3> TAKE i \in 1 .. Len(file)
    <3>1. file[i].n \in DOMAIN lengths
      BY <1>1, FileFacts
    <3> QED
      BY <1>1, <3>1 DEF n
  <2>2. Records(file, lengths)
    BY <1>1 DEF FileOK
  <2>3. \A m \in DOMAIN lengths : m \in DOMAIN lengths' /\ lengths'[m] = lengths[m]
    BY <1>3 DEF LengthsStay
  <2>4. /\ n \in DOMAIN lengths' /\ lengths'[n] \in Nat
        /\ 1 \in Nat \ {0} /\ k \in Nat /\ k >= 1 - 1 /\ k <= HeaderSize + lengths'[n]
    BY <1>3, <1>5
  <2>5. Records(file', lengths')
    BY <1>1, <1>3, <1>6, <2>1, <2>2, <2>3, <2>4, RecordsGoOn
  <2> QED
    BY <2>5 DEF FileOK
<1>8. /\ file' \in Seq(Part) /\ Len(file') = Len(file) + k /\ Len(file) <= Len(file')
      /\ \A i \in Len(file) + 1 .. Len(file') : IsPart(file'[i], n, 1 + (i - Len(file)) - 1)
  BY <1>1, <1>5, <1>6 DEF Grown
<1>9. PromiseOK' /\ ReplayOK'
  BY <1>2, <1>3, <1>6, <1>7, <1>8, GrowthKeeps
<1>10. TypeOK'
  <2>1. /\ synced' \in 0 .. Len(file') /\ writer' \in {"idle", "header", "payload"}
        /\ faults' \in 0 .. MaxFaults /\ acked' \subseteq DOMAIN lengths'
    <3>1. synced \in 0 .. Len(file) /\ faults \in 0 .. MaxFaults /\ acked \subseteq DOMAIN lengths
      BY <1>1 DEF TypeOK
    <3>2. faults' \in 0 .. MaxFaults
      BY <1>4, <3>1, BoundsAssumption DEF Fault
    <3>3. acked' \subseteq DOMAIN lengths'
      BY <1>2, <1>3, <3>1 DEF LengthsStay
    <3> QED
      BY <1>1, <1>2, <1>4, <1>8, <3>1, <3>2, <3>3
  <2> QED
    BY <1>1, <1>2, <1>3, <1>8, <2>1 DEF TypeOK, handle
<1>11. WriterOK'
  <2>1. SUFFICES ASSUME writer' = "header"
                 PROVE  Len(lengths') > 0 /\ Len(file') > 0 /\ IsPart(file'[Len(file')], Len(lengths'), HeaderSize)
    <3>1. writer' \in {"idle", "header"}
      BY <1>4
    <3> QED
      BY <3>1 DEF WriterOK
  <2>2. k = 4
    BY <1>4, <1>5, <2>1
  <2>3. Len(file') \in Len(file) + 1 .. Len(file') /\ 1 + (Len(file') - Len(file)) - 1 = 4 /\ Len(file') > 0
    BY <1>1, <1>8, <2>2
  <2>4. IsPart(file'[Len(file')], n, 4)
    BY <1>8, <2>3
  <2>5. Len(lengths') > 0
    BY <1>3
  <2> QED
    BY <1>3, <1>5, <2>3, <2>4, <2>5
<1> QED
  BY <1>3, <1>7, <1>9, <1>10, <1>11 DEF WalOK

\* WritePayload goes on with the last record.
PayloadGrown ==
  \E to \in HeaderSize .. Size(Len(lengths)) :
    /\ Grown(file', file, Len(lengths), HeaderSize + 1, to)
    /\ \/ to = Size(Len(lengths)) /\ writer' = "payload" /\ UNCHANGED faults
       \/ writer' = "idle" /\ Fault

LEMMA PayloadGrows ==
  ASSUME WalOK, WritePayload
  PROVE  PayloadGrown
<1> DEFINE n == Len(lengths)
           from == HeaderSize + 1
<1>1. /\ TypeOK /\ FileOK /\ WriterOK /\ lengths \in Seq(PayloadLengths) /\ file \in Seq(Part)
      /\ n \in Nat /\ DOMAIN lengths = 1 .. n /\ n <= MaxAppends /\ Len(file) \in Nat
  <2>1. TypeOK /\ FileOK /\ WriterOK /\ n <= MaxAppends /\ lengths \in Seq(PayloadLengths)
    BY DEF WalOK, TypeOK
  <2> QED
    BY <2>1, FileType
<1>2. /\ writer = "header" /\ UNCHANGED <<lengths, synced, acked, promised, handle, reader>>
  BY DEF WritePayload
<1>3. /\ n \in 1 .. MaxAppends /\ n \in DOMAIN lengths /\ lengths[n] \in Nat
      /\ Size(n) = HeaderSize + lengths[n] /\ Size(n) \in Nat /\ HeaderSize = 4 /\ Size(n) > HeaderSize
      /\ Len(file) > 0 /\ IsPart(file[Len(file)], n, HeaderSize)
  <2>1. n > 0 /\ Len(file) > 0 /\ IsPart(file[Len(file)], n, HeaderSize)
    BY <1>1, <1>2 DEF WriterOK
  <2>2. n \in 1 .. MaxAppends /\ n \in DOMAIN lengths
    BY <1>1, <2>1, BoundsAssumption
  <2>3. lengths[n] \in Nat
    <3>1. lengths[n] \in PayloadLengths
      BY <1>1, <2>2
    <3> QED
      BY <3>1, BoundsAssumption
  <2> HIDE DEF n
  <2>4. Size(n) \in Nat /\ HeaderSize = 4 /\ Size(n) > HeaderSize
    BY <1>1, <2>2, SizeIs
  <2> QED
    BY <2>1, <2>2, <2>3, <2>4 DEF Size
<1>4. PICK to \in HeaderSize .. Size(n) :
        /\ file' = file \o Parts(n, from, to)
        /\ \/ to = Size(n) /\ writer' = "payload" /\ UNCHANGED faults
           \/ writer' = "idle" /\ Fault
  <2>1. \/ /\ file' = file \o Parts(n, from, Size(n))
           /\ writer' = "payload" /\ UNCHANGED faults
        \/ \E k \in Left(lengths[n]) :
             file' = file \o Parts(n, from, HeaderSize + k) /\ writer' = "idle" /\ Fault
    BY DEF WritePayload
  <2>2. Size(n) \in HeaderSize .. Size(n)
    BY <1>3
  <2>3. \A k \in Left(lengths[n]) : HeaderSize + k \in HeaderSize .. Size(n)
    BY <1>3 DEF Left
  <2> QED
    BY <2>1, <2>2, <2>3
<1>5. to \in Nat /\ to >= from - 1 /\ to <= HeaderSize + lengths[n] /\ from \in Nat \ {0} /\ from = 5
  BY <1>3
<1> HIDE DEF n, from
<1>6. Grown(file', file, n, from, to)
  BY <1>1, <1>3, <1>4, <1>5, PartsAdded
<1> QED
  BY <1>4, <1>6 DEF PayloadGrown, n, from

LEMMA PayloadKeeps ==
  ASSUME WalOK, WritePayload
  PROVE  WalOK'
<1> DEFINE n == Len(lengths)
           from == HeaderSize + 1
<1>1. /\ TypeOK /\ FileOK /\ WriterOK /\ lengths \in Seq(PayloadLengths) /\ file \in Seq(Part)
      /\ n \in Nat /\ DOMAIN lengths = 1 .. n /\ n <= MaxAppends /\ Len(file) \in Nat
  <2>1. TypeOK /\ FileOK /\ WriterOK /\ n <= MaxAppends /\ lengths \in Seq(PayloadLengths)
    BY DEF WalOK, TypeOK
  <2> QED
    BY <2>1, FileType
<1>2. /\ writer = "header" /\ UNCHANGED <<lengths, synced, acked, promised, handle, reader>>
  BY DEF WritePayload
<1>3. /\ n \in 1 .. MaxAppends /\ n \in DOMAIN lengths /\ lengths[n] \in Nat
      /\ Size(n) = HeaderSize + lengths[n] /\ Size(n) \in Nat /\ HeaderSize = 4 /\ Size(n) > HeaderSize
      /\ Len(file) > 0 /\ IsPart(file[Len(file)], n, HeaderSize)
  <2>1. n > 0 /\ Len(file) > 0 /\ IsPart(file[Len(file)], n, HeaderSize)
    BY <1>1, <1>2 DEF WriterOK
  <2>2. n \in 1 .. MaxAppends /\ n \in DOMAIN lengths
    BY <1>1, <2>1, BoundsAssumption
  <2>3. lengths[n] \in Nat
    <3>1. lengths[n] \in PayloadLengths
      BY <1>1, <2>2
    <3> QED
      BY <3>1, BoundsAssumption
  <2> HIDE DEF n
  <2>4. Size(n) \in Nat /\ HeaderSize = 4 /\ Size(n) > HeaderSize
    BY <1>1, <2>2, SizeIs
  <2> QED
    BY <2>1, <2>2, <2>3, <2>4 DEF Size
<1>4. PICK to \in HeaderSize .. Size(n) :
        /\ Grown(file', file, n, from, to)
        /\ \/ to = Size(n) /\ writer' = "payload" /\ UNCHANGED faults
           \/ writer' = "idle" /\ Fault
  BY PayloadGrows DEF PayloadGrown
<1>5. to \in Nat /\ to >= from - 1 /\ to <= HeaderSize + lengths[n] /\ from \in Nat \ {0} /\ from = 5
  BY <1>3
<1> HIDE DEF n, from
<1>6. Grown(file', file, n, from, to)
  BY <1>4
<1>7. LengthsStay
  BY <1>2 DEF LengthsStay
<1>8. FileOK'
  <2>1. Records(file, lengths)
    BY <1>1 DEF FileOK
  <2>2. IsPart(file[Len(file)], n, from - 1)
    BY <1>3, <1>5
  <2>3. Records(file', lengths)
    BY <1>1, <1>3, <1>5, <1>6, <2>1, <2>2, RecordsGoOn
  <2> QED
    BY <1>2, <2>3 DEF FileOK
<1>9. /\ file' \in Seq(Part) /\ Len(file') = Len(file) + (to - 4) /\ Len(file) <= Len(file')
      /\ \A i \in Len(file) + 1 .. Len(file') : IsPart(file'[i], n, 5 + (i - Len(file)) - 1)
  <2>1. /\ file' \in Seq(Part) /\ Len(file') = Len(file) + (to + 1 - 5)
        /\ \A i \in Len(file) + 1 .. Len(file') : IsPart(file'[i], n, 5 + (i - Len(file)) - 1)
    BY <1>5, <1>6 DEF Grown
  <2> QED
    BY <1>1, <1>5, <2>1
<1>10. PromiseOK' /\ ReplayOK'
  BY <1>2, <1>6, <1>7, <1>8, <1>9, GrowthKeeps
<1>11. TypeOK'
  <2>1. synced \in 0 .. Len(file) /\ faults \in 0 .. MaxFaults
    BY <1>1 DEF TypeOK
  <2>2. faults' \in 0 .. MaxFaults
    BY <1>4, <2>1, BoundsAssumption DEF Fault
  <2>3. synced' \in 0 .. Len(file') /\ writer' \in {"idle", "header", "payload"}
    BY <1>1, <1>2, <1>4, <1>5, <1>9, <2>1
  <2> QED
    BY <1>1, <1>2, <1>9, <2>2, <2>3 DEF TypeOK, handle
<1>12. WriterOK'
  <2>1. SUFFICES ASSUME writer' = "payload"
                 PROVE  /\ Len(lengths') > 0 /\ Len(file') > 0
                        /\ IsPart(file'[Len(file')], Len(lengths'), HeaderSize + lengths'[Len(lengths')])
    <3>1. writer' \in {"idle", "payload"}
      BY <1>4
    <3> QED
      BY <3>1 DEF WriterOK, Size
  <2>2. to = Size(n)
    BY <1>4, <2>1
  <2>3. /\ Len(file') \in Len(file) + 1 .. Len(file') /\ Len(file') > 0
        /\ 5 + (Len(file') - Len(file)) - 1 = Size(n)
    <3>1. Len(file') = Len(file) + (to - 4) /\ to \in Nat /\ to > 4 /\ Len(file) \in Nat
      BY <1>1, <1>3, <1>5, <1>9, <2>2
    <3>2. Len(file') \in Len(file) + 1 .. Len(file') /\ Len(file') > 0
      BY <3>1
    <3>3. 5 + (Len(file') - Len(file)) - 1 = to
      BY <3>1
    <3> QED
      BY <2>2, <3>2, <3>3
  <2>4. IsPart(file'[Len(file')], n, Size(n))
    BY <1>9, <2>3
  <2>5. n > 0 /\ Len(lengths') = n
    BY <1>1, <1>2, <1>3 DEF n
  <2> QED
    BY <1>2, <1>3, <2>3, <2>4, <2>5
<1> QED
  BY <1>1, <1>2, <1>8, <1>10, <1>11, <1>12 DEF WalOK, n

LEMMA FinishKeeps ==
  ASSUME WalOK, FinishAppend
  PROVE  WalOK'
<1>1. /\ TypeOK /\ FileOK /\ WriterOK /\ PromiseOK /\ Len(lengths) <= MaxAppends
      /\ lengths \in Seq(PayloadLengths) /\ Len(file) \in Nat
  <2>1. TypeOK /\ FileOK /\ WriterOK /\ PromiseOK /\ Len(lengths) <= MaxAppends
    BY DEF WalOK
  <2> QED
    BY <2>1, FileType DEF TypeOK
<1>2. /\ writer = "payload" /\ writer' = "idle" /\ UNCHANGED <<file, lengths, handle, reader>>
      /\ \/ /\ acked' = acked \cup {Len(lengths)}
            /\ promised' = IF deferSync THEN promised ELSE promised \cup {Len(lengths)}
            /\ synced' = IF deferSync THEN synced ELSE Len(file)
            /\ UNCHANGED faults
         \/ Fault /\ UNCHANGED <<synced, acked, promised>>
  BY DEF FinishAppend, SyncedTo
<1>3. Len(lengths) \in DOMAIN lengths /\ Len(file) > 0 /\ IsPart(file[Len(file)], Len(lengths), Size(Len(lengths)))
  BY <1>1, <1>2 DEF WriterOK
<1>4. promised \subseteq promised'
  BY <1>2
<1>5. FileOK' /\ ReplayOK' /\ \A n, k : EndsBy(n, k)' <=> EndsBy(n, k)
  BY <1>2, <1>4, PromisesGrow
<1>6. PromiseOK'
  <2>1. ASSUME NEW n \in promised' PROVE EndsBy(n, synced')
    <3>1. CASE n \in promised
      <4>1. EndsBy(n, synced) /\ synced \in 0 .. Len(file)
        BY <1>1, <3>1 DEF PromiseOK, TypeOK
      <4>2. CASE synced' = synced
        BY <4>1, <4>2
      <4>3. CASE synced' = Len(file)
        BY <1>1, <4>1, <4>3 DEF EndsBy
      <4> QED
        BY <1>2, <4>2, <4>3
    <3>2. CASE n \notin promised
      <4>1. n = Len(lengths) /\ synced' = Len(file)
        BY <1>2, <3>2
      <4>2. Len(file) \in 1 .. Len(file)
        BY <1>1, <1>3
      <4> QED
        BY <1>3, <4>1, <4>2 DEF EndsBy
    <3> QED
      BY <3>1, <3>2
  <2> QED
    BY <1>2, <2>1 DEF PromiseOK, EndsBy, Size
<1>7. TypeOK'
  <2>1. /\ acked \subseteq DOMAIN lengths /\ promised \subseteq acked /\ synced \in 0 .. Len(file)
        /\ faults \in 0 .. MaxFaults
    BY <1>1 DEF TypeOK
  <2>2. acked' \subseteq DOMAIN lengths /\ promised' \subseteq acked'
    BY <1>2, <1>3, <2>1
  <2>3. synced' \in 0 .. Len(file)
    BY <1>1, <1>2, <2>1
  <2>4. faults' \in 0 .. MaxFaults
    BY <1>2, <2>1, BoundsAssumption DEF Fault
  <2> QED
    BY <1>1, <1>2, <2>2, <2>3, <2>4 DEF TypeOK, handle
<1>8. WriterOK'
  BY <1>2 DEF WriterOK
<1> QED
  BY <1>1, <1>2, <1>5, <1>6, <1>7, <1>8 DEF WalOK

LEMMA FlushKeeps ==
  ASSUME WalOK, Flush
  PROVE  WalOK'
<1>1. /\ TypeOK /\ FileOK /\ PromiseOK /\ Len(lengths) <= MaxAppends
      /\ Len(file) \in Nat /\ DOMAIN file = 1 .. Len(file)
  <2>1. TypeOK /\ FileOK /\ PromiseOK /\ Len(lengths) <= MaxAppends
    BY DEF WalOK
  <2> QED
    BY <2>1, FileType
<1>2. /\ writer = "idle" /\ UNCHANGED <<file, lengths, acked, writer, handle, reader, faults>>
      /\ synced' = Len(file) /\ promised' = promised \cup (acked \cap Whole(file))
  BY DEF Flush
<1>3. FileOK' /\ ReplayOK' /\ \A n, k : EndsBy(n, k)' <=> EndsBy(n, k)
  <2>1. promised \subseteq promised'
    BY <1>2
  <2> QED
    BY <1>2, <2>1, PromisesGrow
<1>4. PromiseOK'
  <2>1. ASSUME NEW n \in promised' PROVE EndsBy(n, synced')
    <3>1. CASE n \in promised
      <4>1. EndsBy(n, synced) /\ synced \in 0 .. Len(file)
        BY <1>1, <3>1 DEF PromiseOK, TypeOK
      <4> QED
        BY <1>1, <1>2, <4>1 DEF EndsBy
    <3>2. CASE n \in Whole(file)
      BY <1>1, <1>2, <3>2 DEF Whole, EndsBy, IsPart
    <3> QED
      BY <1>2, <3>1, <3>2
  <2> QED
    BY <1>2, <2>1 DEF PromiseOK, EndsBy, Size
<1>5. TypeOK'
  <2>1. promised' \subseteq acked' /\ synced' \in 0 .. Len(file)
    BY <1>1, <1>2 DEF TypeOK
  <2> QED
    BY <1>1, <1>2, <2>1 DEF TypeOK, handle
<1>6. WriterOK'
  BY <1>2 DEF WriterOK
<1> QED
  BY <1>1, <1>2, <1>3, <1>4, <1>5, <1>6 DEF WalOK

\* SetDeferSync, Close and OpenWAL: only the handle changes.
LEMMA HandleKeeps ==
  ASSUME WalOK, (\E on \in BOOLEAN : SetDeferSync(on)) \/ Close \/ OpenWAL
  PROVE  WalOK'
<1>1. TypeOK /\ WriterOK /\ PromiseOK /\ Len(lengths) <= MaxAppends
  BY DEF WalOK
<1>2. UNCHANGED <<file, lengths, synced, acked, promised, writer, reader, faults>>
  BY DEF SetDeferSync, Close, OpenWAL, FileOnOpen
<1>3. deferSync' \in BOOLEAN /\ open' \in BOOLEAN /\ reopens' \in 0 .. MaxReopens
  <2>1. CASE \E on \in BOOLEAN : SetDeferSync(on)
    BY <1>1, <2>1, BoundsAssumption DEF SetDeferSync, Reopen, TypeOK
  <2>2. CASE Close
    <3>1. deferSync' \in BOOLEAN /\ open' \in BOOLEAN
      BY <1>1, <2>2, Zenon DEF Close, TypeOK
    <3>2. reopens' \in 0 .. MaxReopens
      <4>1. reopens < MaxReopens /\ reopens' = reopens + 1 /\ reopens \in 0 .. MaxReopens
        BY <1>1, <2>2 DEF Close, Reopen, TypeOK
      <4> QED
        BY <4>1, BoundsAssumption
    <3> QED
      BY <3>1, <3>2
  <2>3. CASE OpenWAL
    BY <1>1, <2>3 DEF OpenWAL, TypeOK
  <2> QED
    BY <2>1, <2>2, <2>3
<1>4. TypeOK'
  BY <1>1, <1>2, <1>3 DEF TypeOK
<1>5. FileOK' /\ ReplayOK' /\ \A n, k : EndsBy(n, k)' <=> EndsBy(n, k)
  BY <1>2, PromisesGrow
<1>6. PromiseOK' /\ WriterOK'
  BY <1>1, <1>2 DEF PromiseOK, WriterOK, EndsBy, Size
<1> QED
  BY <1>1, <1>2, <1>4, <1>5, <1>6 DEF WalOK

LEMMA CrashKeeps ==
  ASSUME WalOK, Crash
  PROVE  WalOK'
<1>1. /\ TypeOK /\ FileOK /\ PromiseOK /\ Len(lengths) <= MaxAppends
      /\ file \in Seq(Part) /\ Len(file) \in Nat /\ DOMAIN file = 1 .. Len(file)
      /\ synced \in 0 .. Len(file)
  <2>1. TypeOK /\ FileOK /\ PromiseOK /\ Len(lengths) <= MaxAppends /\ synced \in 0 .. Len(file)
    BY DEF WalOK, TypeOK
  <2> QED
    BY <2>1, FileType
<1>2. /\ Fault /\ writer' = "idle" /\ reader' = NoReader
      /\ UNCHANGED <<lengths, synced, acked, promised, reopens>>
  BY DEF Crash
<1>3. PICK size \in synced .. Len(file) : file' = SubSeq(file, 1, size)
  BY DEF Crash
<1>4. /\ file' \in Seq(Part) /\ Len(file') = size /\ size \in Nat /\ synced <= size /\ size <= Len(file)
      /\ \A i \in 1 .. size : file'[i] = file[i] /\ i \in 1 .. Len(file)
  BY <1>1, <1>3
<1>5. FileOK'
  <2>1. /\ \A i \in 1 .. Len(file) :
             /\ file[i].n \in DOMAIN lengths /\ file[i].part \in 1 .. HeaderSize + lengths[file[i].n]
             /\ file[i].part <= i
             /\ \A k \in 1 .. file[i].part : IsPart(file[i - file[i].part + k], file[i].n, k)
        /\ \A i, j \in 1 .. Len(file) : i < j =>
             \/ file[i].n < file[j].n
             \/ file[i].n = file[j].n /\ file[j].part = file[i].part + (j - i)
    BY <1>1 DEF FileOK, Records
  <2>2. ASSUME NEW i \in 1 .. size, NEW k \in 1 .. file[i].part
        PROVE  IsPart(file'[i - file[i].part + k], file[i].n, k)
    <3>1. i \in 1 .. Len(file) /\ file[i].part <= i /\ file[i].part \in Nat
      BY <1>1, <1>4, FileFacts
    <3>2. i - file[i].part + k \in 1 .. size
      BY <1>4, <3>1
    <3>3. IsPart(file[i - file[i].part + k], file[i].n, k)
      BY <2>1, <3>1
    <3> QED
      BY <1>4, <3>2, <3>3
  <2>3. \A i \in 1 .. size :
          /\ file'[i].n \in DOMAIN lengths /\ file'[i].part \in 1 .. HeaderSize + lengths[file'[i].n]
          /\ file'[i].part <= i
          /\ \A k \in 1 .. file'[i].part : IsPart(file'[i - file'[i].part + k], file'[i].n, k)
    BY <1>4, <2>1, <2>2
  <2>4. \A i, j \in 1 .. size : i < j =>
             \/ file'[i].n < file'[j].n
             \/ file'[i].n = file'[j].n /\ file'[j].part = file'[i].part + (j - i)
    BY <1>4, <2>1, SMTT(60)
  <2> QED
    BY <1>2, <1>4, <2>3, <2>4 DEF FileOK, Records
<1>6. PromiseOK'
  <2>1. ASSUME NEW n \in promised
        PROVE  \E j \in 1 .. synced : IsPart(file'[j], n, HeaderSize + lengths[n])
    <3>1. PICK j \in 1 .. synced : IsPart(file[j], n, HeaderSize + lengths[n])
      BY <1>1 DEF PromiseOK, EndsBy, Size
    <3>2. file'[j] = file[j]
      BY <1>1, <1>4, <3>1
    <3> QED
      BY <3>1, <3>2
  <2> QED
    BY <1>2, <2>1 DEF PromiseOK, EndsBy, Size
<1>7. NoReader = [pc |-> "idle", at |-> 1, got |-> << >>, owed |-> {}] /\ Range(NoReader.got) = {}
  BY DEF NoReader, Range
<1>8. ReplayOK'
  BY <1>1, <1>2, <1>4, <1>7 DEF ReplayOK
<1>9. TypeOK'
  <2>1. deferSync' \in BOOLEAN /\ open' \in BOOLEAN
    BY DEF Crash
  <2>2. faults' \in 0 .. MaxFaults
    BY <1>1, <1>2, BoundsAssumption DEF Fault, TypeOK
  <2>3. synced' \in 0 .. Len(file')
    BY <1>1, <1>2, <1>4
  <2>4. (reader \in [pc : {"idle", "reading", "done", "failed"}, at : Nat \ {0},
                      got : Seq(1 .. MaxAppends), owed : SUBSET (1 .. MaxAppends)])'
    BY <1>2, <1>7
  <2> QED
    BY <1>1, <1>2, <1>4, <2>1, <2>2, <2>3, <2>4 DEF TypeOK
<1>10. WriterOK'
  BY <1>2 DEF WriterOK
<1> QED
  BY <1>1, <1>2, <1>5, <1>6, <1>8, <1>9, <1>10 DEF WalOK

LEMMA StartKeeps ==
  ASSUME WalOK, StartReplay
  PROVE  WalOK'
<1>1. /\ TypeOK /\ FileOK /\ WriterOK /\ PromiseOK /\ Len(lengths) <= MaxAppends /\ Len(file) \in Nat
  BY FileType DEF WalOK
<1>2. UNCHANGED <<file, lengths, synced, acked, promised, writer, handle, faults>>
  BY DEF StartReplay
<1>3. reader' = [pc |-> "reading", at |-> 1, got |-> << >>, owed |-> promised]
  BY DEF StartReplay, NoReader
<1>4. promised \subseteq 1 .. MaxAppends
  <2>1. promised \subseteq DOMAIN lengths /\ lengths \in Seq(PayloadLengths)
    BY <1>1 DEF TypeOK
  <2> QED
    BY <1>1, <2>1, BoundsAssumption
<1>5. (reader \in [pc : {"idle", "reading", "done", "failed"}, at : Nat \ {0},
                    got : Seq(1 .. MaxAppends), owed : SUBSET (1 .. MaxAppends)])'
  BY <1>3, <1>4
<1>6. TypeOK'
  BY <1>1, <1>2, <1>5 DEF TypeOK, handle
<1>7. Range(reader'.got) = {}
  BY <1>3 DEF Range
<1>8. ReplayOK'
  BY <1>1, <1>2, <1>3, <1>7 DEF ReplayOK
<1>9. FileOK' /\ PromiseOK' /\ WriterOK'
  BY <1>1, <1>2 DEF FileOK, Records, PromiseOK, WriterOK, EndsBy, Size
<1> QED
  BY <1>1, <1>2, <1>6, <1>8, <1>9 DEF WalOK

LEMMA WalNext == WalOK /\ [Next]_vars => WalOK'
<1> SUFFICES ASSUME WalOK, [Next]_vars PROVE WalOK'
  OBVIOUS
<1>1. CASE \E ln \in PayloadLengths : WriteHeader(ln)
  BY <1>1, HeaderKeeps
<1>2. CASE WritePayload
  BY <1>2, PayloadKeeps
<1>3. CASE FinishAppend
  BY <1>3, FinishKeeps
<1>4. CASE Flush
  BY <1>4, FlushKeeps
<1>5. CASE (\E on \in BOOLEAN : SetDeferSync(on)) \/ Close \/ OpenWAL
  BY <1>5, HandleKeeps
<1>6. CASE Crash
  BY <1>6, CrashKeeps
<1>7. CASE StartReplay
  BY <1>7, StartKeeps
<1>8. CASE ReadRecord
  <2>1. TypeOK' /\ ReplayOK'
    BY <1>8, ReadKeeps
  <2>2. UNCHANGED <<file, lengths, synced, acked, promised, writer, handle, faults>>
    BY <1>8 DEF ReadRecord
  <2> QED
    BY <2>1, <2>2 DEF WalOK, FileOK, Records, PromiseOK, WriterOK, EndsBy, Size
<1>9. CASE UNCHANGED vars
  <2>1. UNCHANGED <<file, lengths, synced, acked, promised, writer, reader, faults, deferSync, open, reopens>>
    BY <1>9 DEF vars, handle
  <2>2. FileOK' /\ ReplayOK'
    BY <2>1, PromisesGrow
  <2> QED
    BY <2>1, <2>2 DEF WalOK, TypeOK, PromiseOK, WriterOK, EndsBy, Size
<1> QED
  BY <1>1, <1>2, <1>3, <1>4, <1>5, <1>6, <1>7, <1>8, <1>9 DEF Next

LEMMA WalHolds == Spec => []WalOK
<1>1. Init => WalOK
  BY WalInit
<1>2. WalOK /\ [Next]_vars => WalOK'
  BY WalNext
<1> QED
  BY <1>1, <1>2, PTL DEF Spec

-----------------------------------------------------------------------------
(* The theorems.                                                            *)

(***************************************************************************)
(* Whatever is appended, fails, is synced or lost in a crash, the file is made *)
(* of the parts of calls of Append, what is synced is part of it, and only a   *)
(* call that returned is promised.                                          *)
(***************************************************************************)
THEOREM WalTypeCorrect == Spec => []TypeOK
<1>1. WalOK => TypeOK
  BY DEF WalOK
<1> QED
  BY <1>1, WalHolds, PTL

(***************************************************************************)
(* Replay, which takes no lock, delivers whole records only, in the order they *)
(* were written and without a gap, whatever broke off and whatever is appended *)
(* while it reads.                                                          *)
(***************************************************************************)
THEOREM ReplayIsWhole == Spec => []OnlyWholeRecords
<1>1. ASSUME WalOK PROVE OnlyWholeRecords
  <2>1. TypeOK /\ FileOK /\ ReplayOK /\ Len(file) \in Nat /\ DOMAIN file = 1 .. Len(file)
    <3>1. TypeOK /\ FileOK /\ ReplayOK
      BY <1>1 DEF WalOK
    <3> QED
      BY <3>1, FileType
  <2> DEFINE at == reader.at
  <2>2. at \in 1 .. Len(file) + 1 /\ at - 1 <= Len(file) /\ at \in Int
    BY <2>1 DEF ReplayOK
  <2>3. \A n \in Range(reader.got) :
          \E j \in 1 .. Len(file) : j <= at - 1 /\ file[j].n = n /\ file[j].part = Size(n)
    <3> TAKE n \in Range(reader.got)
    <3>1. PICK j \in 1 .. at - 1 : file[j].n = n /\ file[j].part = Size(n)
      BY <2>1 DEF ReplayOK, EndsBy, IsPart
    <3>2. j \in 1 .. Len(file) /\ j <= at - 1
      BY <2>1, <2>2
    <3> QED
      BY <3>1, <3>2
  <2>4. Range(reader.got) \subseteq Whole(file)
    BY <2>1, <2>3 DEF Whole
  <2>5. ASSUME NEW n \in Whole(file), NEW m \in Range(reader.got), n < m
        PROVE  n \in Range(reader.got)
    <3>1. PICK i \in 1 .. Len(file) : file[i].n = n
      BY <2>1 DEF Whole
    <3>2. PICK j \in 1 .. Len(file) : j <= at - 1 /\ file[j].n = m
      BY <2>3
    <3>3. n \in Nat /\ m \in Nat
      BY <2>1, <3>1, <3>2, FileFacts
    <3>4. ~(j <= i)
      <4>1. j <= i => file[j].n <= file[i].n
        BY <2>1, LaterPart
      <4> QED
        BY <2>5, <3>1, <3>2, <3>3, <4>1
    <3>5. i \in 1 .. at - 1
      BY <2>1, <2>2, <3>2, <3>4
    <3> QED
      BY <2>1, <3>1, <3>5 DEF ReplayOK
  <2> QED
    BY <2>1, <2>4, <2>5 DEF OnlyWholeRecords, ReplayOK
<1> QED
  BY <1>1, WalHolds, PTL

(***************************************************************************)
(* What Append or Flush synced comes back: a Replay that has returned left out *)
(* no such record, unless an older one broke off before it; and it returned an *)
(* error only when something was written behind a record that broke off.     *)
(***************************************************************************)
THEOREM SyncedComesBack == Spec => []SyncedRecordsReplayed
<1>1. ASSUME WalOK PROVE SyncedRecordsReplayed
  <2>1. TypeOK /\ FileOK /\ ReplayOK /\ Len(file) \in Nat /\ DOMAIN file = 1 .. Len(file)
    <3>1. TypeOK /\ FileOK /\ ReplayOK
      BY <1>1 DEF WalOK
    <3> QED
      BY <3>1, FileType
  <2>2. ASSUME reader.pc \in {"done", "failed"}, NEW n \in Reachable(reader.owed), n \notin Range(reader.got)
        PROVE  FALSE
    <3>1. n \in reader.owed /\ \A m \in Broken : n < m
      BY DEF Reachable
    <3>2. PICK m \in Broken : m < n
      BY <2>1, <2>2, <3>1 DEF ReplayOK
    <3>3. m \in Nat /\ n \in Nat
      <4>1. m \in Nat
        BY <2>1, FileFacts DEF Broken
      <4>2. n \in 1 .. MaxAppends
        BY <2>1, <3>1, ReaderTyped DEF ReaderType
      <4> QED
        BY <4>1, <4>2, BoundsAssumption
    <3> QED
      BY <3>1, <3>2, <3>3
  <2>3. ASSUME reader.pc = "failed"
        PROVE  \E m \in Broken : \E i \in DOMAIN file : file[i].n > m
    <3>1. PICK m \in Broken : \E i \in DOMAIN file : m < file[i].n
      BY <2>1, <2>3 DEF ReplayOK
    <3>2. m \in Nat /\ \A i \in DOMAIN file : file[i].n \in Nat
      BY <2>1, FileFacts DEF Broken
    <3> QED
      BY <3>1, <3>2
  <2> QED
    BY <2>2, <2>3 DEF SyncedRecordsReplayed
<1> QED
  BY <1>1, WalHolds, PTL
=============================================================================
