-------------------------------- MODULE WAL --------------------------------
(***************************************************************************)
(* pkg/store/wal.go: the append-only file behind the engine's log.           *)
(*                                                                          *)
(* Append writes a header and a payload in two calls, then syncs; a write may *)
(* fail part way and the machine may crash at any point.  Replay opens the    *)
(* file on its own, takes no lock, and reads on until it runs out of bytes or *)
(* meets bytes that are no record.                                          *)
(*                                                                          *)
(* The file is a sequence of parts.  Parts 1 to 4 of a record are its header: *)
(* the magic in two halves (the second with version and type), the payload    *)
(* length and the checksum of the payload.  The payload follows.            *)
(***************************************************************************)
EXTENDS Ascending, Sequences, SequencesExt

CONSTANTS
  PayloadLengths,   \* how many parts a payload may have
  MaxAppends,       \* bound: calls of Append
  MaxFaults,        \* bound: failed writes and crashes
  MaxReopens        \* bound: changes of the handle (SetDeferSync, Close, OpenWAL)

ASSUME BoundsAssumption ==
  /\ PayloadLengths \subseteq Nat \ {0}
  /\ MaxAppends \in Nat /\ MaxFaults \in Nat /\ MaxReopens \in Nat

VARIABLES
  file,        \* the parts on disk or on their way there
  lengths,     \* the payload length of the n-th call of Append
  synced,      \* how much of the file a crash leaves alone
  acked,       \* history: the calls of Append that returned no error
  promised,    \* history: those that were synced before Append or Flush returned
  writer,      \* where a running Append is: idle, header or payload written
  deferSync,
  open,
  reader,      \* the running or last Replay
  faults,
  reopens

handle == <<deferSync, open, reopens>>
vars   == <<file, lengths, synced, acked, promised, writer, handle, reader, faults>>

HeaderSize == 4
Size(n)    == HeaderSize + lengths[n]

Part  == [n : 1 .. MaxAppends, part : Nat \ {0}]
Parts(n, from, to) == [i \in 1 .. to + 1 - from |-> [n |-> n, part |-> from + i - 1]]

\* The records of which every part is in f: parts are written in order.
Whole(f) == {f[i].n : i \in {j \in DOMAIN f : f[j].part = Size(f[j].n)}}

TypeOK ==
  /\ file \in Seq(Part) /\ lengths \in Seq(PayloadLengths) /\ synced \in 0 .. Len(file)
  /\ acked \subseteq DOMAIN lengths /\ promised \subseteq acked
  /\ writer \in {"idle", "header", "payload"} /\ deferSync \in BOOLEAN /\ open \in BOOLEAN
  /\ reader \in [pc : {"idle", "reading", "done", "failed"}, at : Nat \ {0},
                 got : Seq(1 .. MaxAppends), owed : SUBSET (1 .. MaxAppends)]
  /\ faults \in 0 .. MaxFaults /\ reopens \in 0 .. MaxReopens

NoReader == [pc |-> "idle", at |-> 1, got |-> << >>, owed |-> {}]

Init ==
  /\ file = << >> /\ lengths = << >> /\ synced = 0 /\ acked = {} /\ promised = {} /\ writer = "idle"
  /\ deferSync = FALSE /\ open = TRUE /\ reader = NoReader /\ faults = 0 /\ reopens = 0

-----------------------------------------------------------------------------
(* Append, under the mutex.                                                 *)

Fault == faults < MaxFaults /\ faults' = faults + 1

\* A write that fails leaves some of what it had to write.
Left(size) == 0 .. size - 1

WriteHeader(ln) ==
  /\ open /\ writer = "idle" /\ Len(lengths) < MaxAppends
  /\ lengths' = Append(lengths, ln)
  /\ LET n == Len(lengths')
     IN  \/ /\ file' = file \o Parts(n, 1, HeaderSize)
            /\ writer' = "header" /\ UNCHANGED faults
         \/ \E k \in Left(HeaderSize) :
              file' = file \o Parts(n, 1, k) /\ UNCHANGED writer /\ Fault
  /\ UNCHANGED <<synced, acked, promised, handle, reader>>

WritePayload ==
  /\ writer = "header"
  /\ LET n == Len(lengths)
     IN  \/ /\ file' = file \o Parts(n, HeaderSize + 1, Size(n))
            /\ writer' = "payload" /\ UNCHANGED faults
         \/ /\ \E k \in Left(lengths[n]) : file' = file \o Parts(n, HeaderSize + 1, HeaderSize + k)
            /\ writer' = "idle" /\ Fault
  /\ UNCHANGED <<lengths, synced, acked, promised, handle, reader>>

\* Faulty: Append returns without a sync.
Unsynced == synced

SyncedTo == IF deferSync THEN synced ELSE Len(file)

\* Append returns; when Sync fails, with an error.
FinishAppend ==
  /\ writer = "payload"
  /\ writer' = "idle"
  /\ \/ /\ acked' = acked \cup {Len(lengths)}
        /\ promised' = IF deferSync THEN promised ELSE promised \cup {Len(lengths)}
        /\ synced' = SyncedTo
        /\ UNCHANGED faults
     \/ ~deferSync /\ Fault /\ UNCHANGED <<synced, acked, promised>>
  /\ UNCHANGED <<file, lengths, handle, reader>>

Flush ==
  /\ open /\ writer = "idle"
  /\ synced' = Len(file) /\ promised' = promised \cup (acked \cap Whole(file))
  /\ UNCHANGED <<file, lengths, acked, writer, handle, reader, faults>>

Reopen == writer = "idle" /\ reopens < MaxReopens /\ reopens' = reopens + 1

SetDeferSync(on) ==
  /\ Reopen /\ deferSync' = on
  /\ UNCHANGED <<file, lengths, synced, acked, promised, writer, open, reader, faults>>

Close ==
  /\ Reopen /\ open /\ open' = FALSE
  /\ UNCHANGED <<file, lengths, synced, acked, promised, writer, deferSync, reader, faults>>

\* Faulty: O_TRUNC.
Truncated == << >>

\* O_APPEND: whatever the file holds stays, a record that broke off included.
FileOnOpen == file

OpenWAL ==
  /\ ~open /\ open' = TRUE /\ deferSync' = FALSE
  /\ file' = FileOnOpen
  /\ UNCHANGED <<lengths, synced, acked, promised, writer, reopens, reader, faults>>

\* Synced parts stay, and as many of the others as had reached the disk.
Crash ==
  /\ Fault
  /\ \E size \in synced .. Len(file) : file' = SubSeq(file, 1, size)
  /\ writer' = "idle" /\ open' = FALSE /\ deferSync' = FALSE /\ reader' = NoReader
  /\ UNCHANGED <<lengths, synced, acked, promised, reopens>>

-----------------------------------------------------------------------------
(* Replay, with no lock.                                                    *)

StartReplay ==
  /\ reader.pc # "reading"
  /\ reader' = [NoReader EXCEPT !.pc = "reading", !.owed = promised]
  /\ UNCHANGED <<file, lengths, synced, acked, promised, writer, handle, faults>>

\* Faulty: no checksum.
ChecksumIgnored(sum, payload) == TRUE

ChecksumOK(sum, payload) ==
  sum.part = HeaderSize /\ payload = Parts(sum.n, HeaderSize + 1, Size(sum.n))

\* Faulty: a short last record is taken for the end.
RunsOutEarly(left, size) == left <= size

RunsOut(left, size) == left < size

\* Faulty: wait for the rest to be written.
WaitsForMore(how) == UNCHANGED reader

Ends(how) == reader' = [reader EXCEPT !.pc = how]

(***************************************************************************)
(* One turn of the loop.  A length that is not one, because the record broke  *)
(* off before it, sends the reader past the end or to a payload whose          *)
(* checksum fails.                                                          *)
(***************************************************************************)
ReadRecord ==
  /\ reader.pc = "reading"
  /\ LET left == Len(file) + 1 - reader.at
         h(i) == file[reader.at + i - 1]
         ln   == lengths[h(3).n]
         size == HeaderSize + ln
         payload == SubSeq(file, reader.at + HeaderSize, reader.at + size - 1)
     IN  \/ RunsOut(left, HeaderSize) /\ Ends("done")
         \/ /\ ~RunsOut(left, HeaderSize)
            /\ \/ ~(h(1).part = 1 /\ h(2).part = 2) /\ Ends("failed")
               \/ /\ h(1).part = 1 /\ h(2).part = 2
                  /\ \/ h(3).part # 3 /\ \E how \in {"done", "failed"} : Ends(how)
                     \/ h(3).part = 3 /\ RunsOut(left, size) /\ Ends("done")
                     \/ /\ h(3).part = 3 /\ ~RunsOut(left, size)
                        /\ ~ChecksumOK(h(4), payload) /\ Ends("failed")
                     \/ /\ h(3).part = 3 /\ ~RunsOut(left, size) /\ ChecksumOK(h(4), payload)
                        /\ reader' = [reader EXCEPT !.at = @ + size, !.got = Append(@, h(1).n)]
  /\ UNCHANGED <<file, lengths, synced, acked, promised, writer, handle, faults>>

-----------------------------------------------------------------------------
Next ==
  \/ \E ln \in PayloadLengths : WriteHeader(ln)
  \/ WritePayload \/ FinishAppend \/ Flush
  \/ \E on \in BOOLEAN : SetDeferSync(on)
  \/ Close \/ OpenWAL \/ Crash
  \/ StartReplay \/ ReadRecord

\* A running Append and a running Replay go on.
Spec == Init /\ [][Next]_vars /\ WF_vars(WritePayload \/ FinishAppend) /\ WF_vars(ReadRecord)

-----------------------------------------------------------------------------
(* Properties.                                                              *)

\* The records of which only a part is in the file.
Broken == {file[i].n : i \in DOMAIN file} \ Whole(file)

\* What of these records has none before it that broke off.
Reachable(ns) == LET broken == Broken IN {n \in ns : \A m \in broken : n < m}

\* The log this file is: it ends at the first record that broke off.
WalEntries  == InOrder(Reachable(Whole(file)))
WalPromised == Reachable(promised)

(***************************************************************************)
(* Whatever writes broke off and whatever is appended while it reads, Replay   *)
(* delivers whole records only, in the order they were written, leaving none   *)
(* out before the last it delivers.                                         *)
(***************************************************************************)
OnlyWholeRecords ==
  /\ \A i, j \in DOMAIN reader.got : i < j => reader.got[i] < reader.got[j]
  /\ Range(reader.got) \subseteq Whole(file)
  /\ \A n \in Whole(file), m \in Range(reader.got) : n < m => n \in Range(reader.got)

(***************************************************************************)
(* A Replay that has returned, even with an error, has delivered every record  *)
(* that was synced when it began and had none before it that broke off; with   *)
(* nothing written behind such a record it returns no error.                  *)
(***************************************************************************)
SyncedRecordsReplayed ==
  /\ reader.pc \in {"done", "failed"} => Reachable(reader.owed) \subseteq Range(reader.got)
  /\ reader.pc = "failed" => \E m \in Broken : \E i \in DOMAIN file : file[i].n > m

\* Every Replay returns, also while records are being appended.
ReplayReturns == reader.pc = "reading" ~> reader.pc # "reading"

(***************************************************************************)
(* README: a process restart loses nothing.  Here: what a Replay leaves out    *)
(* though Append returned for it after a sync.                              *)
(***************************************************************************)
RestartLosesNothing ==
  reader.pc \in {"done", "failed"} => reader.owed \subseteq Range(reader.got)
=============================================================================
