------------------------------ MODULE Readers ------------------------------
(***************************************************************************)
(* Engine with its writing calls taken apart into the steps their locks make, *)
(* and a goroutine that asks Evaluate and ExplainGraph meanwhile.            *)
(*                                                                          *)
(* A store changes under its own lock, one store after the other, so a reader *)
(* meets a belief whose graph edge is still missing, or a store that is being *)
(* rebuilt.  doing names the step the writing call has come to; shown holds   *)
(* what Engine's variables were when its last step was complete.            *)
(*                                                                          *)
(* A line of a bulk load makes the two steps of Ingest and is left to Engine.  *)
(*                                                                          *)
(* One goroutine writes: the engine has no lock of its own over a call.  A    *)
(* reader loads the pointer to a store and then takes its lock; a store that  *)
(* recompute replaces in between is never written again, so what the reader   *)
(* finds in it is what was there when it was replaced.                      *)
(***************************************************************************)
EXTENDS Engine, SequencesExt

CONSTANTS
  Asked,    \* the atoms Evaluate is asked for
  Roots,    \* the atoms ExplainGraph is asked for
  Depths    \* the depths it is called with

ASSUME ReaderAssumption == Asked \cup Roots \subseteq Atom /\ Depths \subseteq Nat

VARIABLES
  doing,    \* how far the writing call is within a step of Engine
  shown,    \* history: Engine's variables when its last step was complete
  reader,   \* the reading call, or what it returned
  during    \* history: what the reading call overlaps

unseen    == <<rules, audit, log, pc, frame, lapses, faults>>
stepsVars == <<vars, doing, shown, reader, during>>

Ready  == [at |-> "ready"]
NoCall == [call |-> "none"]

Complete == [beliefs |-> beliefs, resolutions |-> resolutions, graph |-> graph,
             semantic |-> semantic, derivations |-> derivations, rules |-> rules,
             audit |-> audit, log |-> log, pc |-> pc, remaining |-> remaining,
             edges |-> edges, next |-> next, todo |-> todo, added |-> added,
             lapses |-> lapses, faults |-> faults]

StepEnds  == doing' = Ready /\ shown' = Complete'
StepGoesOn(how) == doing' = how /\ shown' = shown

-----------------------------------------------------------------------------
(* The writing goroutine.                                                   *)

\* Faulty: the graph gets the atom before the store has the belief.
GraphFirst(b, part) ==
  \/ /\ part = 1
     /\ graph' = graph \cup Projected({b}, resolutions)
     /\ semantic' = semantic \cup Projected({b}, resolutions)
     /\ beliefs' = beliefs
  \/ /\ part = 2
     /\ beliefs' = beliefs \cup {b}
     /\ UNCHANGED <<graph, semantic>>

\* ingestNoLog: the belief under the store's lock, then the atom under the graph's.
IngestPart(b, part) ==
  \/ /\ part = 1
     /\ beliefs' = beliefs \cup {b}
     /\ UNCHANGED <<graph, semantic>>
  \/ /\ part = 2
     /\ graph' = graph \cup Projected({b}, resolutions)
     /\ semantic' = semantic \cup Projected({b}, resolutions)
     /\ beliefs' = beliefs

StartIngest(b) ==
  /\ doing = Ready /\ CanCall
  /\ IngestPart(b, 1)
  /\ StepGoesOn([at |-> "ingest", what |-> b])
  /\ UNCHANGED <<resolutions, derivations, unseen>>

EndIngest ==
  /\ doing.at = "ingest"
  /\ IngestPart(doing.what, 2)
  /\ \/ /\ Logged("fact", doing.what)
        /\ audit' = Append(audit, doing.what)
        /\ StartApplyRules(IngestBudget)
        /\ UNCHANGED <<lapses, faults>>
     \/ /\ AppendFails("fact", doing.what)
        /\ lapses' = lapses \cup {"log", "rules"}
        /\ UNCHANGED <<audit, pc, frame>>
  /\ UNCHANGED <<resolutions, derivations, rules>>
  /\ StepEnds

DerivedNow(d) == DerivedBelief(d.then, rules[next])

\* Faulty: the fact is believed before its proof is on record.
FactFirst(d, part) ==
  \/ /\ part = 1
     /\ IF ValidAtom(d.then) THEN IngestPart(DerivedNow(d), 1)
                             ELSE UNCHANGED <<beliefs, graph, semantic>>
     /\ UNCHANGED derivations
  \/ /\ part = 2
     /\ AddDerivation(d.then, rules[next], d)
     /\ UNCHANGED <<beliefs, graph, semantic>>

\* ApplyRules: the proof under derivMu, then the belief under the store's lock.
DerivePart(d, part) ==
  \/ /\ part = 1
     /\ AddDerivation(d.then, rules[next], d)
     /\ UNCHANGED <<beliefs, graph, semantic>>
  \/ /\ part = 2
     /\ IF ValidAtom(d.then) THEN IngestPart(DerivedNow(d), 1)
                             ELSE UNCHANGED <<beliefs, graph, semantic>>
     /\ UNCHANGED derivations

StartDerive(d) ==
  /\ doing = Ready /\ pc = "derive" /\ IsFirst(d, todo)
  /\ DerivePart(d, 1)
  /\ StepGoesOn([at |-> "derive", what |-> d, before |-> Cardinality(beliefs)])
  /\ UNCHANGED <<resolutions, unseen>>

BelieveDerived ==
  /\ doing.at = "derive"
  /\ DerivePart(doing.what, 2)
  /\ StepGoesOn([doing EXCEPT !.at = "project"])
  /\ UNCHANGED <<resolutions, unseen>>

EndDerive ==
  /\ doing.at = "project"
  /\ IF ValidAtom(doing.what.then) THEN IngestPart(DerivedNow(doing.what), 2)
                                   ELSE UNCHANGED <<beliefs, graph, semantic>>
  /\ IF Cardinality(beliefs) = doing.before
       THEN /\ todo' = todo \ {doing.what}
            /\ UNCHANGED <<pc, remaining, edges, next, added, lapses>>
     ELSE IF remaining = 1
       THEN Return /\ lapses' = lapses \cup {"budget"}
       ELSE /\ remaining' = remaining - 1 /\ added' = TRUE /\ todo' = todo \ {doing.what}
            /\ UNCHANGED <<pc, edges, next, lapses>>
  /\ UNCHANGED <<resolutions, derivations, rules, audit, log, faults>>
  /\ StepEnds

StartResolve(r) ==
  /\ doing = Ready /\ CanCall
  /\ resolutions' = SetResolution(resolutions, r)
  /\ StepGoesOn([at |-> "resolve", what |-> r])
  /\ UNCHANGED <<beliefs, graph, semantic, derivations, unseen>>

\* What recompute collects before it replaces the first store.
Collected == [at |-> "replace", store |-> 1, base |-> Base(beliefs), res |-> resolutions]

LogResolution ==
  /\ doing.at = "resolve"
  /\ Logged("resolution", doing.what)
  /\ lapses' = lapses \ {"resolution"}
  /\ StepGoesOn(Collected)
  /\ UNCHANGED <<memory, pc, frame, faults>>

ResolutionUnlogged ==
  /\ doing.at = "resolve"
  /\ AppendFails("resolution", doing.what)
  /\ lapses' = lapses \cup {"log", "resolution"}
  /\ UNCHANGED <<memory, pc, frame>>
  /\ StepEnds

-----------------------------------------------------------------------------
(* recompute: the stores are replaced one by one, then filled again.        *)

ReplaceStore ==
  /\ doing.at = "replace"
  /\ \/ /\ doing.store = 1 /\ beliefs' = {} /\ resolutions' = {}
        /\ UNCHANGED <<graph, semantic, derivations>>
     \/ /\ doing.store = 2 /\ graph' = {} /\ semantic' = {}
        /\ UNCHANGED <<beliefs, resolutions, derivations>>
     \/ /\ doing.store = 3 /\ derivations' = {}
        /\ UNCHANGED <<beliefs, resolutions, graph, semantic>>
  /\ StepGoesOn(IF doing.store = 3
                  THEN [at |-> "refill", base |-> doing.base, res |-> doing.res]
                  ELSE [doing EXCEPT !.store = @ + 1])
  /\ UNCHANGED unseen

\* Faulty: the base facts come back before the resolutions.
BaseFirst == doing.base = {} /\ doing.res # {}

ResolutionsFirst == doing.res # {}

Earliest(x, xs) == x \in xs /\ \A y \in xs : ~AtomLess(y.atom, x.atom)

SetAgain ==
  /\ doing.at = "refill" /\ ResolutionsFirst
  /\ \E r \in doing.res :
       /\ Earliest(r, doing.res)
       /\ resolutions' = SetResolution(resolutions, r)
       /\ StepGoesOn([doing EXCEPT !.res = @ \ {r}])
  /\ UNCHANGED <<beliefs, graph, semantic, derivations, unseen>>

AddAgain ==
  /\ doing.at = "refill" /\ ~ResolutionsFirst
  /\ \E b \in doing.base :
       /\ Earliest(b, doing.base)
       /\ IngestPart(b, 1)
       /\ StepGoesOn([at |-> "refillGraph", what |-> b,
                      base |-> doing.base \ {b}, res |-> doing.res])
  /\ UNCHANGED <<resolutions, derivations, unseen>>

ProjectAgain ==
  /\ doing.at = "refillGraph"
  /\ IngestPart(doing.what, 2)
  /\ StepGoesOn([at |-> "refill", base |-> doing.base, res |-> doing.res])
  /\ UNCHANGED <<resolutions, derivations, unseen>>

EndRecompute ==
  /\ doing.at = "refill" /\ doing.res = {} /\ doing.base = {}
  /\ StartApplyRules(IngestBudget)
  /\ UNCHANGED <<memory, log, lapses, faults>>
  /\ StepEnds

-----------------------------------------------------------------------------
(* ReplayFromLog.                                                           *)

StartReset ==
  /\ doing = Ready /\ pc = "idle"
  /\ beliefs' = {} /\ resolutions' = {}
  /\ StepGoesOn([at |-> "reset", store |-> 2])
  /\ UNCHANGED <<graph, semantic, derivations, unseen>>

ResetGraph ==
  /\ doing.at = "reset" /\ doing.store = 2
  /\ graph' = {}
  /\ StepGoesOn([doing EXCEPT !.store = 3])
  /\ UNCHANGED <<beliefs, resolutions, semantic, derivations, unseen>>

EndReset ==
  /\ doing.at = "reset" /\ doing.store = 3
  /\ StartReplay
  /\ UNCHANGED <<semantic, faults>>
  /\ StepEnds

StartRecord ==
  /\ doing = Ready /\ pc = "replay" /\ next \in DOMAIN log /\ log[next].type = "fact"
  /\ IngestPart(log[next].data, 1)
  /\ StepGoesOn([at |-> "record", what |-> log[next].data])
  /\ UNCHANGED <<resolutions, derivations, unseen>>

EndRecord ==
  /\ doing.at = "record"
  /\ IngestPart(doing.what, 2)
  /\ next' = next + 1
  /\ UNCHANGED <<resolutions, derivations, rules, audit, log, pc, remaining, edges, todo,
                 added, lapses, faults>>
  /\ StepEnds

StartReplayDone ==
  /\ doing = Ready /\ pc = "replay" /\ next \notin DOMAIN log
  /\ lapses' = {}
  /\ StepGoesOn(Collected)
  /\ UNCHANGED <<memory, log, pc, frame, faults>>

-----------------------------------------------------------------------------
\* The steps of Engine that change at most one thing a reader can see.
WholeStep ==
  /\ doing = Ready
  /\ \/ \E r \in InputRules : AddRule(r) \/ AddRuleUnlogged(r)
     \/ StartRound \/ EvaluateNextRule \/ RuleDone \/ RoundDone
     \/ pc = "replay" /\ next \in DOMAIN log /\ log[next].type # "fact" /\ ReplayRecord
     \/ ReplayFails
  /\ StepEnds

Writes ==
  \/ \E b \in InputBeliefs : StartIngest(b)
  \/ EndIngest
  \/ \E d \in todo : StartDerive(d)
  \/ BelieveDerived \/ EndDerive
  \/ \E r \in InputResolutions : StartResolve(r)
  \/ LogResolution \/ ResolutionUnlogged
  \/ ReplaceStore \/ SetAgain \/ AddAgain \/ ProjectAgain \/ EndRecompute
  \/ StartReset \/ ResetGraph \/ EndReset \/ StartRecord \/ EndRecord \/ StartReplayDone
  \/ WholeStep

-----------------------------------------------------------------------------
(* The reading goroutine: Evaluate.                                         *)

Nothing == [rebuilt |-> FALSE]
Rebuilt == [rebuilt |-> TRUE]

Reading == reader.call \notin {"none", "answered"}

Rebuilding == doing.at \in {"replace", "refill", "refillGraph", "reset"} \/ pc = "replay"

StartRead(call, overlap) ==
  /\ ~Reading
  /\ reader' = call
  /\ during' = IF Rebuilding THEN Rebuilt ELSE overlap

Answer(truth, kind) ==
  /\ reader' = [call |-> "answered", truth |-> truth, kind |-> kind]
  /\ during' = Nothing

\* Faulty: only a positive resolution is asked for.
ResolvedTrue(a) == {r \in resolutions : r.atom = a /\ r.pol = "+"}

ResolutionOf(a) == {r \in resolutions : r.atom = a}

\* The resolution, under the lock of the store.
AskResolution ==
  /\ reader.call = "evaluate"
  /\ IF ResolutionOf(reader.atom) = {}
       THEN reader' = [reader EXCEPT !.call = "snapshot"] /\ during' = during
       ELSE \E r \in ResolutionOf(reader.atom) :
              Answer(IF r.pol = "+" THEN "true" ELSE "false", "resolution")

Polarities(a) == {b.pol : b \in {c \in beliefs : c.atom = a}}

\* Its beliefs, under the same lock taken again.
AskSnapshot ==
  /\ reader.call = "snapshot"
  /\ \/ Polarities(reader.atom) = {"+", "-"} /\ Answer("both", "contradiction")
     \/ /\ Polarities(reader.atom) = {"+"}
        /\ reader' = [reader EXCEPT !.call = "proofs"] /\ during' = during
     \/ Polarities(reader.atom) = {"-"} /\ Answer("false", "belief")
     \/ Polarities(reader.atom) = {} /\ Answer("unknown", "none")

ProofsOf(a) == {p \in derivations : p.atom = a}

\* Its proofs, under derivMu.
AskProofs ==
  /\ reader.call = "proofs"
  /\ Answer("true", IF ProofsOf(reader.atom) = {} THEN "belief" ELSE "derived")

-----------------------------------------------------------------------------
(* ExplainGraph.  pending holds the visits still to make, the next one first:  *)
(* visiting an atom puts its premises in front, as the recursion of visit     *)
(* does.  A visit that would return at once is dropped, which no other call   *)
(* can tell, and the edges of an atom's proofs are added together.  The kind  *)
(* of a node is what Evaluate answers and is left out.                       *)

Visit(a, depth) == [atom |-> a, depth |-> depth]

\* The premises one by one, then the shorter list: rules may share a name.
ListBefore(p, q) ==
  \/ \E k \in DOMAIN p \cap DOMAIN q : /\ AtomLess(p[k], q[k])
                                      /\ \A j \in 1 .. k - 1 : p[j] = q[j]
  \/ Len(p) < Len(q) /\ \A k \in DOMAIN p : p[k] = q[k]

ProofBefore(p, q) == p.rule < q.rule \/ (p.rule = q.rule /\ ListBefore(p.prem, q.prem))

\* derivationsFor, one premise after the other.
Premises(a) == LET proofs == SetSorted(ProofsOf(a), ProofBefore)
               IN  FlattenSeq([i \in DOMAIN proofs |-> proofs[i].prem])

PremiseEdges(a) == UNION {{<<a, x, p.rule>> : x \in Range(p.prem)} : p \in ProofsOf(a)}

\* Faulty: an atom is visited once, however little depth was left then.
SeenAtAll(v, seen) == \E s \in seen : s.atom = v.atom

\* Visited already with as much depth left to go.
Seen(v, seen) == \E s \in seen : s.atom = v.atom /\ s.depth >= v.depth

VisitNext ==
  /\ reader.call = "explain" /\ reader.pending # << >>
  /\ LET v     == Head(reader.pending)
         seen  == reader.seen \cup {v}
         found == IF v.depth = 0 THEN << >> ELSE Premises(v.atom)
         later == [i \in DOMAIN found |-> Visit(found[i], v.depth - 1)] \o Tail(reader.pending)
     IN  reader' = [reader EXCEPT
           !.seen = seen,
           !.edges = IF v.depth = 0 THEN @ ELSE @ \cup PremiseEdges(v.atom),
           !.pending = Filtered(later, LAMBDA w : ~Seen(w, seen))]
  /\ during' = during

\* The graph it returns: the atoms visited, and the edges that led to them.
Explained ==
  /\ reader.call = "explain" /\ reader.pending = << >>
  /\ reader' = NoCall /\ during' = Nothing

-----------------------------------------------------------------------------
(* What a call overlaps.                                                    *)

\* The atoms the proofs lead to from this one in so many steps, or fewer.
Reached(a, depth) ==
  LET reach[d \in 0 .. depth] ==
        IF d = 0 THEN {a}
        ELSE reach[d - 1] \cup UNION {Range(p.prem) : p \in {q \in derivations :
                                                              q.atom \in reach[d - 1]}}
  IN  reach[depth]

\* What ExplainGraph returns when nothing changes while it runs.
Explanation(a, depth) ==
  [nodes |-> Reached(a, depth),
   edges |-> IF depth = 0 THEN {}
             ELSE UNION {PremiseEdges(x) : x \in Reached(a, depth - 1)}]

StartEvaluate(a) ==
  StartRead([call |-> "evaluate", atom |-> a], [rebuilt |-> FALSE, truths |-> {Truth(a)}])

StartExplain(a, depth) ==
  StartRead([call |-> "explain", atom |-> a, depth |-> depth,
             pending |-> <<Visit(a, depth)>>, seen |-> {}, edges |-> {}],
            [rebuilt |-> FALSE, least |-> Explanation(a, depth)])

Reads ==
  /\ \/ AskResolution \/ AskSnapshot \/ AskProofs \/ VisitNext \/ Explained
     \/ \E a \in Asked : StartEvaluate(a)
     \/ \E a \in Roots, depth \in Depths : StartExplain(a, depth)
  /\ UNCHANGED <<vars, doing, shown>>

\* What a step of the writer adds to what the running read overlaps.
Overlaps ==
  \/ ~Reading /\ during' = during
  \/ Reading /\ (during.rebuilt \/ Rebuilding') /\ during' = Rebuilt
  \/ /\ Reading /\ ~during.rebuilt /\ ~Rebuilding'
     /\ IF reader.call = "explain" THEN during' = during
        ELSE \E a \in {reader.atom} : during' = [during EXCEPT !.truths = @ \cup {Truth(a)'}]

StepsInit ==
  /\ Init
  /\ doing = Ready /\ shown = Complete
  /\ reader = NoCall /\ during = Nothing

StepsNext == (Writes /\ Overlaps /\ reader' = reader) \/ Reads

StepsSpec == StepsInit /\ [][StepsNext]_stepsVars

-----------------------------------------------------------------------------
(* Properties.                                                              *)

AnswersNow  == Reading /\ reader'.call = "answered"
ExplainsNow == reader.call = "explain" /\ reader' = NoCall
Undisturbed == ~during.rebuilt /\ UpToDate

(***************************************************************************)
(* Evaluate asks for the resolution and the beliefs under two locks, yet what *)
(* it answers was the truth at some moment of the call, whatever is ingested, *)
(* derived or resolved meanwhile.  Not so while stores are rebuilt, nor when a *)
(* resolution whose log write failed is followed by another call.           *)
(***************************************************************************)
AnswersWereTrue ==
  [][AnswersNow /\ Undisturbed => reader'.truth \in during.truths]_stepsVars

(***************************************************************************)
(* An atom is answered true on the word of a caller only when a caller        *)
(* asserted it: the proofs of a derived atom are there before its belief is,  *)
(* and Evaluate asks for them after it.                                     *)
(***************************************************************************)
AnswersCiteProofs ==
  [][AnswersNow /\ Undisturbed /\ PlainSources /\ reader'.truth = "true"
        /\ (\A b \in Asserted : b.atom = reader.atom => b.pol = "-")
       => reader'.kind \in {"derived", "resolution"}]_stepsVars

(***************************************************************************)
(* ExplainGraph reads the proofs of one atom after the other.  What it returns *)
(* holds at least what was on record when it was called and at most what is   *)
(* on record when it returns, though atoms are visited again when they are    *)
(* met with more depth left, and proofs may run in circles.                 *)
(***************************************************************************)
ExplanationsBracketed ==
  [][ExplainsNow /\ ~during.rebuilt =>
       LET most  == Explanation(reader.atom, reader.depth)
           nodes == {s.atom : s \in reader.seen}
       IN  /\ during.least.nodes \subseteq nodes /\ nodes \subseteq most.nodes
           /\ during.least.edges \subseteq reader.edges /\ reader.edges \subseteq most.edges
    ]_stepsVars

(***************************************************************************)
(* Between the locks of a call too, an edge of the graph is a fact the store   *)
(* believes: who finds it in EdgesFrom and asks Evaluate is not told that it   *)
(* is unknown.  Only a rebuild empties the store before the graph.           *)
(***************************************************************************)
GraphNeverAhead == ~Rebuilding => \A a \in graph : Believed(a, "+")

WholeCalls == INSTANCE Engine WITH
  beliefs <- shown.beliefs, resolutions <- shown.resolutions, graph <- shown.graph,
  semantic <- shown.semantic, derivations <- shown.derivations, rules <- shown.rules,
  audit <- shown.audit, log <- shown.log, pc <- shown.pc, remaining <- shown.remaining,
  edges <- shown.edges, next <- shown.next, todo <- shown.todo, added <- shown.added,
  lapses <- shown.lapses, faults <- shown.faults

(***************************************************************************)
(* Taken apart, the calls do what Engine has them do in one step: recompute    *)
(* in particular, which sets every resolution before it ingests a base fact,  *)
(* so that none enters the graph it does not belong to.                     *)
(* A step that shows nothing new needs none of Engine; saying so spares TLC    *)
(* the search for one.                                                      *)
(***************************************************************************)
StepsMakeCalls == WholeCalls!Init /\ [][shown' # shown => WholeCalls!Next]_shown
=============================================================================
