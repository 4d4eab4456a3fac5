----------------------------- MODULE Slipstream -----------------------------
(***************************************************************************)
(* pkg/store/slipstream.go: the log kept in a key-value database.  Append is  *)
(* one transaction that reads the last sequence number, puts the record under *)
(* the next one and puts that number back; Replay reads the records in the    *)
(* order of their keys.  Both hold the mutex throughout.                      *)
(*                                                                          *)
(* The database is another repository: a transaction is committed whole or    *)
(* not at all, and what is committed is there after a crash.                 *)
(***************************************************************************)
EXTENDS Naturals, Sequences, SequencesExt, FiniteSets

CONSTANTS
  Base,          \* the digits a key is written in (10)
  Width,         \* the digits a key is padded to (20)
  MaxTx,         \* bound: transactions begun
  MaxDbFaults,   \* bound: errors of the database, and crashes
  MaxDbReopens   \* bound: times the database is closed

\* What a digit stands for with i digits behind it.
Place[i \in 0 .. Width] == IF i = 0 THEN 1 ELSE Base * Place[i - 1]

ASSUME DbAssumption ==
  /\ Base \in Nat \ {0, 1} /\ Width \in Nat
  /\ MaxTx \in Nat /\ MaxDbFaults \in Nat /\ MaxDbReopens \in Nat
  /\ MaxTx < Place[Width]

VARIABLES
  pairs,      \* the database: committed values by key
  tx,         \* the transaction Append is in: where it is, and what it has put
  begun,      \* the n-th transaction is the record n
  dbAcked,    \* history: the records whose Append returned no error
  dbOpen,
  replayed,   \* what the last Replay handed over, and whether it got to the end
  dbFaults,
  dbReopens

dbVars == <<pairs, tx, begun, dbAcked, dbOpen, replayed, dbFaults, dbReopens>>

\* Faulty: %d.
Unpadded(n) ==
  LET digits == [i \in 1 .. Width |-> (n \div Place[Width - i]) % Base]
      start  == CHOOSE i \in 1 .. Width : digits[i] # 0 /\ \A j \in 1 .. i - 1 : digits[j] = 0
  IN  SubSeq(digits, start, Width)

\* %020d: the digits, padded with zeros.
RecordKey(n) == [i \in 1 .. Width |-> (n \div Place[Width - i]) % Base]

\* _ sorts behind the digits.
SeqKey == <<Base>>

Keys == DOMAIN pairs \ {SeqKey}

KeyLess(k, l) ==
  \E i \in DOMAIN l : /\ \A j \in 1 .. i - 1 : j \in DOMAIN k /\ k[j] = l[j]
                      /\ i \in DOMAIN k => k[i] < l[i]

KeysBefore(k) == {l \in Keys : KeyLess(l, k)}

\* What a Replay finds, in order.
DbEntries == [i \in 1 .. Cardinality(Keys) |->
                pairs[CHOOSE k \in Keys : Cardinality(KeysBefore(k)) = i - 1]]

NoTx == [at |-> "idle", seq |-> 0, puts |-> << >>]

DbTypeOK ==
  /\ \A k \in DOMAIN pairs : pairs[k] \in 0 .. MaxTx
  /\ tx.at \in {"idle", "begun", "record", "seq", "committed"} /\ tx.seq \in 0 .. MaxTx
  /\ begun \in 0 .. MaxTx /\ dbAcked \subseteq 1 .. begun /\ dbOpen \in BOOLEAN
  /\ replayed.got \in Seq(1 .. MaxTx) /\ replayed.done \in BOOLEAN
  /\ dbFaults \in 0 .. MaxDbFaults /\ dbReopens \in 0 .. MaxDbReopens

DbInit ==
  /\ pairs = << >> /\ tx = NoTx /\ begun = 0 /\ dbAcked = {} /\ dbOpen = TRUE
  /\ replayed = [got |-> << >>, done |-> FALSE] /\ dbFaults = 0 /\ dbReopens = 0

DbFault == dbFaults < MaxDbFaults /\ dbFaults' = dbFaults + 1

-----------------------------------------------------------------------------
\* Faulty: the next number is taken for the last.
CountedTwice == IF SeqKey \in DOMAIN pairs THEN pairs[SeqKey] + 1 ELSE 0

LastSeq == IF SeqKey \in DOMAIN pairs THEN pairs[SeqKey] ELSE 0

BeginTx ==
  /\ dbOpen /\ tx.at = "idle" /\ begun < MaxTx
  /\ begun' = begun + 1
  /\ \/ tx' = [at |-> "begun", seq |-> LastSeq + 1, puts |-> << >>] /\ UNCHANGED dbFaults
     \/ DbFault /\ UNCHANGED tx
  /\ UNCHANGED <<pairs, dbAcked, dbOpen, replayed, dbReopens>>

\* The database after these puts.
With(puts, db) == [k \in DOMAIN puts \cup DOMAIN db |-> IF k \in DOMAIN puts THEN puts[k] ELSE db[k]]

\* Faulty: what was put so far is kept.
KeepPuts == tx' = NoTx /\ pairs' = With(tx.puts, pairs)

Rollback == tx' = NoTx /\ UNCHANGED pairs

Put(from, to, key, value) ==
  /\ tx.at = from
  /\ \/ /\ tx' = [tx EXCEPT !.at = to, !.puts = With([k \in {key} |-> value], @)]
        /\ UNCHANGED <<pairs, dbFaults>>
     \/ Rollback /\ DbFault
  /\ UNCHANGED <<begun, dbAcked, dbOpen, replayed, dbReopens>>

PutRecord == Put("begun", "record", RecordKey(tx.seq), begun)

PutSeq == Put("record", "seq", SeqKey, tx.seq)

\* A commit that reports an error may have been made all the same.
Commit ==
  /\ tx.at = "seq"
  /\ \/ /\ pairs' = With(tx.puts, pairs)
        /\ \/ tx' = [tx EXCEPT !.at = "committed"] /\ UNCHANGED dbFaults
           \/ tx' = NoTx /\ DbFault
     \/ Rollback /\ DbFault
  /\ UNCHANGED <<begun, dbAcked, dbOpen, replayed, dbReopens>>

AppendReturns ==
  /\ tx.at = "committed"
  /\ tx' = NoTx /\ dbAcked' = dbAcked \cup {begun}
  /\ UNCHANGED <<pairs, begun, dbOpen, replayed, dbFaults, dbReopens>>

\* A Get that fails ends the replay.
ReplayDb ==
  /\ dbOpen /\ tx.at = "idle"
  /\ \/ replayed' = [got |-> DbEntries, done |-> TRUE] /\ UNCHANGED dbFaults
     \/ /\ \E n \in 0 .. Len(DbEntries) - 1 :
             replayed' = [got |-> SubSeq(DbEntries, 1, n), done |-> FALSE]
        /\ DbFault
  /\ UNCHANGED <<pairs, tx, begun, dbAcked, dbOpen, dbReopens>>

CloseDb ==
  /\ dbOpen /\ tx.at = "idle" /\ dbReopens < MaxDbReopens
  /\ dbOpen' = FALSE /\ dbReopens' = dbReopens + 1
  /\ UNCHANGED <<pairs, tx, begun, dbAcked, replayed, dbFaults>>

\* OpenSlipstreamLog; when Recover fails, nothing is open.
OpenDb ==
  /\ ~dbOpen
  /\ \/ dbOpen' = TRUE /\ UNCHANGED dbFaults
     \/ DbFault /\ UNCHANGED dbOpen
  /\ UNCHANGED <<pairs, tx, begun, dbAcked, replayed, dbReopens>>

DbCrash ==
  /\ DbFault
  /\ tx' = NoTx /\ dbOpen' = FALSE /\ replayed' = [got |-> << >>, done |-> FALSE]
  /\ UNCHANGED <<pairs, begun, dbAcked, dbReopens>>

DbNext == BeginTx \/ PutRecord \/ PutSeq \/ Commit \/ AppendReturns
            \/ ReplayDb \/ CloseDb \/ OpenDb \/ DbCrash

DbSpec == DbInit /\ [][DbNext]_dbVars

-----------------------------------------------------------------------------
(***************************************************************************)
(* After transactions that fail at any of their steps, and after crashes and   *)
(* restarts, the records are stored under 1, 2, 3 and so on up to the number  *)
(* under the sequence key: none was overwritten and none is missing.          *)
(***************************************************************************)
NumbersMatchRecords == Keys = {RecordKey(n) : n \in 1 .. LastSeq}

(***************************************************************************)
(* A Replay hands the records over in the order of their calls, and if it      *)
(* succeeds the database has since then only gained records behind them.      *)
(***************************************************************************)
ReplayedInOrder ==
  /\ \A i, j \in DOMAIN replayed.got : i < j => replayed.got[i] < replayed.got[j]
  /\ replayed.done => IsPrefix(replayed.got, DbEntries)
=============================================================================
