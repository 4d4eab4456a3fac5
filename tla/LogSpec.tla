------------------------------ MODULE LogSpec ------------------------------
(***************************************************************************)
(* What a Log of pkg/store promises its caller: a sequence of records that    *)
(* grows at the end, of which a crash takes only what was not promised yet.   *)
(***************************************************************************)
EXTENDS Naturals, Sequences, Functions

CONSTANT Entry

VARIABLES
  entries,   \* what a replay returns
  promised   \* the entries a crash may not take: Append or Flush returned after them

promise == <<entries, promised>>

PromiseInit == entries = << >> /\ promised = {}

Write(e) == entries' = Append(entries, e) /\ UNCHANGED promised

Promise == /\ promised \subseteq promised' /\ promised' \subseteq Range(entries)
           /\ UNCHANGED entries

Lose(n) == /\ entries' = SubSeq(entries, 1, n)
           /\ promised \subseteq Range(entries')
           /\ UNCHANGED promised

PromiseNext == \/ Promise
               \/ \E e \in Entry : Write(e)
               \/ \E n \in 0 .. Len(entries) : Lose(n)

PromiseSpec == PromiseInit /\ [][PromiseNext]_promise
=============================================================================
