----------------------------- MODULE Compaction -----------------------------
(***************************************************************************)
(* pkg/engine/compact.go and canonical.go on top of the engine: CompactToWAL   *)
(* empties its target and writes what memory holds, one record per step.  The  *)
(* target is a file of its own, which the application may restart from, or     *)
(* the engine's log itself.  An error or a crash leaves what was written.      *)
(***************************************************************************)
EXTENDS Engine, Codec

CONSTANT MaxCompactions   \* bound: calls of CompactToWAL

ASSUME CompactionAssumption == MaxCompactions \in Nat

VARIABLES
  target,       \* the file: the records written so far
  unwritten,    \* the records still to write
  compacting,   \* none, writing, or how the last call ended: complete, broken
  inPlace,      \* whether the target is the log
  fresh,        \* history: nothing has been called since a restart from the target
  before,       \* history: memory when the last call began
  compactions

compaction == <<target, unwritten, compacting, inPlace, before, compactions>>
allVars    == <<vars, compaction, fresh>>

-----------------------------------------------------------------------------
(* The canonical order.                                                     *)

SourceLess(s, t) == (s.rule /\ ~t.rule) \/ (s.rule = t.rule /\ s.name < t.name)

ByAtomThen(b, c) ==
  \/ AtomLess(b.atom, c.atom)
  \/ b.atom = c.atom /\ b.pol = "-" /\ c.pol = "+"
  \/ b.atom = c.atom /\ b.pol = c.pol /\ SourceLess(b.src, c.src)

CanonicalBeliefs == SetSorted(beliefs, ByAtomThen)

\* Faulty: resolutions are left out, the beliefs having been rebuilt by them.
NoResolutions == << >>

CanonicalResolutions == SetSorted(resolutions, LAMBDA r, s : AtomLess(r.atom, s.atom))

RuleLess(r, s) ==
  \/ r.name < s.name
  \/ /\ r.name = s.name
     /\ \/ \E k \in DOMAIN r.if \cap DOMAIN s.if :
             AtomLess(r.if[k], s.if[k]) /\ \A j \in 1 .. k - 1 : r.if[j] = s.if[j]
        \/ IsStrictPrefix(r.if, s.if)
        \/ r.if = s.if /\ AtomLess(r.then, s.then)

\* Faulty: one rule per name.
OneRulePerName == SetSorted(Range(rules), RuleLess)

\* Faulty: the newest rule first.
NewestFirst == Reverse(rules)

RulesSnapshot == Sorted(rules, RuleLess)

Records(type, seq) == [i \in DOMAIN seq |-> [type |-> type, data |-> seq[i]]]

Canonical == Records("fact", CanonicalBeliefs) \o Records("resolution", CanonicalResolutions)
               \o Records("rule", RulesSnapshot)

-----------------------------------------------------------------------------
CompactionInit ==
  /\ Init
  /\ target = << >> /\ unwritten = << >> /\ compacting = "none" /\ inPlace = FALSE
  /\ fresh = FALSE /\ compactions = 0
  /\ before = [beliefs |-> {}, derivations |-> {}, settled |-> FALSE]

\* CreateWAL: O_TRUNC.
StartCompaction(onLog) ==
  /\ pc = "idle" /\ compacting # "writing" /\ compactions < MaxCompactions
  /\ compactions' = compactions + 1
  /\ compacting' = "writing" /\ inPlace' = onLog
  /\ target' = << >> /\ unwritten' = Canonical
  /\ log' = IF onLog THEN << >> ELSE log
  /\ lapses' = IF onLog THEN lapses \cup {"log"} ELSE lapses
  /\ before' = [beliefs |-> beliefs, derivations |-> derivations, settled |-> Settled]
  /\ fresh' = FALSE
  /\ UNCHANGED <<memory, pc, frame, faults>>

WriteRecord ==
  /\ compacting = "writing" /\ unwritten # << >>
  /\ target' = Append(target, Head(unwritten)) /\ unwritten' = Tail(unwritten)
  /\ log' = IF inPlace THEN target' ELSE log
  /\ UNCHANGED <<memory, pc, frame, lapses, faults, compacting, inPlace, fresh, before, compactions>>

CompactionFails ==
  /\ compacting = "writing" /\ unwritten # << >>
  /\ faults < MaxFaults /\ faults' = faults + 1
  /\ compacting' = "broken" /\ unwritten' = << >>
  /\ UNCHANGED <<memory, log, pc, frame, lapses, target, inPlace, fresh, before, compactions>>

\* A log that was written anew holds what memory holds.
CompactionDone ==
  /\ compacting = "writing" /\ unwritten = << >>
  /\ compacting' = "complete"
  /\ lapses' = IF inPlace THEN lapses \ {"log"} ELSE lapses
  /\ UNCHANGED <<memory, log, pc, frame, faults, target, unwritten, inPlace, fresh, before, compactions>>

\* The application starts again with the compacted file for its log.
Adopt ==
  /\ pc = "idle" /\ compacting = "complete" /\ ~inPlace
  /\ log' = target
  /\ ClearStores /\ semantic' = {}
  /\ pc' = "replay" /\ next' = 1
  /\ remaining' = 0 /\ edges' = {} /\ todo' = {} /\ added' = FALSE
  /\ lapses' = {"replay", "resolution"}
  /\ compacting' = "none" /\ fresh' = TRUE
  /\ UNCHANGED <<faults, target, unwritten, inPlace, before, compactions>>

Dies ==
  /\ Restart
  /\ compacting' = IF compacting = "writing" THEN "broken" ELSE compacting
  /\ unwritten' = << >>
  /\ UNCHANGED <<target, inPlace, fresh, before, compactions>>

\* What the engine does meanwhile: nothing while CompactToWAL runs.
EngineStep ==
  /\ compacting # "writing"
  /\ Call \/ BulkEnd \/ ApplyRules \/ Replay
  /\ fresh' = (fresh /\ log' = log /\ faults' = faults)
  /\ UNCHANGED compaction

CompactionNext ==
  \/ \E onLog \in BOOLEAN : StartCompaction(onLog)
  \/ WriteRecord \/ CompactionFails \/ CompactionDone \/ Adopt \/ Dies \/ EngineStep

CompactionSpec == CompactionInit /\ [][CompactionNext]_allVars

-----------------------------------------------------------------------------
Recovered(rs, bs) ==
  /\ \A r \in rs : DecodeRule(EncodeRule(r)) = {s \in {r} : Decodable(s)}
  /\ \A b \in bs : DecodeBelief(EncodeBelief(b)) = {b}

CodecsRecover == Recovered(CodecRules, CodecBeliefs)

BaseOf(facts) == {b \in facts : ~b.src.rule}

SameRules(r, s) == Sorted(r, RuleLess) = Sorted(s, RuleLess)

(***************************************************************************)
(* Whatever was compacted, where to and how often, and whatever has crashed    *)
(* since, memory and log agree on facts, on resolutions and, but for their     *)
(* order, on rules; compacting onto the log makes good a write that failed     *)
(* before.  Not while it runs, and not if it broke off.                      *)
(***************************************************************************)
LogStillMatches ==
  lapses \cap {"log", "replay"} = {} =>
    /\ Asserted = BaseOf(Data("fact"))
    /\ resolutions = LogResolutions
    /\ SameRules(rules, LogRules)

(***************************************************************************)
(* A restart from the compacted file comes back to the beliefs and the proofs  *)
(* of before, although it reads derived facts as facts and the rules in        *)
(* another order: when the rules had nothing left to derive, before and now,   *)
(* and no caller's source passes for the engine's own.                       *)
(***************************************************************************)
CompactedStateReturns ==
  PlainSources /\ fresh /\ before.settled /\ Settled =>
    beliefs = before.beliefs /\ derivations = before.derivations

(***************************************************************************)
(* Compacting what a compacted file gives writes the same file.              *)
(***************************************************************************)
CompactingTwiceIsOnce ==
  PlainSources /\ fresh /\ before.settled /\ Settled => Canonical = target

(***************************************************************************)
(* What was encoded decodes to itself, whatever fields are empty, except that  *)
(* the rules Engine takes for unreadable do not decode; of the records a      *)
(* compaction writes, each rule is the one a restart will read.              *)
(***************************************************************************)
CodecsInvert ==
  /\ CodecsRecover
  /\ unwritten # << >> /\ Head(unwritten).type = "rule" => Recovered({Head(unwritten).data}, {})
=============================================================================
