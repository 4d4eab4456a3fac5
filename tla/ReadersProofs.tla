--------------------------- MODULE ReadersProofs ---------------------------
(***************************************************************************)
(* Readers: taken apart into the steps their locks make, the writing calls    *)
(* are still Engine's; and what Evaluate and ExplainGraph answer and what the *)
(* graph shows while another goroutine is in the middle of a call.          *)
(***************************************************************************)
EXTENDS Readers, EngineProofs

-----------------------------------------------------------------------------
(* The operators of Engine mean the same on the shown variables.            *)

LEMMA SameCardinality == \A S : WholeCalls!Cardinality(S) = Cardinality(S)
BY DEF Cardinality, WholeCalls!Cardinality

LEMMA SameStores ==
  /\ \A bs, res : WholeCalls!Projected(bs, res) = Projected(bs, res)
  /\ \A res, r : WholeCalls!SetResolution(res, r) = SetResolution(res, r)
  /\ \A bs : WholeCalls!Base(bs) = Base(bs)
  /\ \A r : WholeCalls!Decodable(r) <=> Decodable(r)
BY DEF Projected, WholeCalls!Projected, ResolvedFalse, WholeCalls!ResolvedFalse,
       SetResolution, WholeCalls!SetResolution, Base, WholeCalls!Base,
       Decodable, WholeCalls!Decodable, Empty, WholeCalls!Empty

LEMMA SameDerivations ==
  \A r, E : WholeCalls!Derivations(r, E) = Derivations(r, E)
<1>1. \A r : WholeCalls!VarsOf(r) = VarsOf(r)
  BY DEF VarsOf, WholeCalls!VarsOf, IsVar, WholeCalls!IsVar
<1>2. \A r : WholeCalls!PremiseVars(r) = PremiseVars(r)
  BY <1>1 DEF PremiseVars, WholeCalls!PremiseVars
<1>3. \A E : WholeCalls!NamesIn(E) = NamesIn(E)
  BY DEF NamesIn, WholeCalls!NamesIn
<1>4. \A p, binds : WholeCalls!Apply(p, binds) = Apply(p, binds)
  BY DEF Apply, WholeCalls!Apply, Ground, WholeCalls!Ground, IsVar, WholeCalls!IsVar
<1>5. \A r, E : WholeCalls!Matches(r, E) = Matches(r, E)
  BY <1>1, <1>2, <1>3, <1>4 DEF Matches, WholeCalls!Matches
<1> QED
  BY <1>4, <1>5 DEF Derivations, WholeCalls!Derivations, Derivation, WholeCalls!Derivation

LEMMA SameOrder ==
  /\ \A p, q : WholeCalls!PremisesLess(p, q) <=> PremisesLess(p, q)
  /\ \A d, ds : WholeCalls!IsFirst(d, ds) <=> IsFirst(d, ds)
<1>1. \A a, b : WholeCalls!AtomLess(a, b) <=> AtomLess(a, b)
  BY DEF AtomLess, WholeCalls!AtomLess
<1>2. \A p, q : WholeCalls!PremisesLess(p, q) <=> PremisesLess(p, q)
  BY <1>1 DEF PremisesLess, WholeCalls!PremisesLess
<1>3. \A d, e : WholeCalls!DerivationLess(d, e) <=> DerivationLess(d, e)
  BY <1>1, <1>2 DEF DerivationLess, WholeCalls!DerivationLess
<1> QED
  BY <1>2, <1>3 DEF IsFirst, WholeCalls!IsFirst

LEMMA SameEvaluation ==
  \A r, E, max : WholeCalls!EvaluateRule(r, E, max) = EvaluateRule(r, E, max)
BY SameDerivations, SameOrder, SameCardinality DEF EvaluateRule, WholeCalls!EvaluateRule

LEMMA SameDerived ==
  /\ \A a, r : WholeCalls!DerivedBelief(a, r) = DerivedBelief(a, r)
  /\ \A a : WholeCalls!ValidAtom(a) <=> ValidAtom(a)
BY DEF DerivedBelief, WholeCalls!DerivedBelief, ValidAtom, WholeCalls!ValidAtom,
       Empty, WholeCalls!Empty

-----------------------------------------------------------------------------
(***************************************************************************)
(* Where the variables have come to within a call: what they are in terms of  *)
(* shown, for each step a call is taken apart into.  Stage holds in every     *)
(* state; from it the last step of a call is the step Engine makes.          *)
(***************************************************************************)
SameFrame ==
  /\ shown.rules = rules /\ shown.audit = audit /\ shown.remaining = remaining
  /\ shown.edges = edges /\ shown.next = next /\ shown.todo = todo
  /\ shown.added = added /\ shown.faults = faults /\ shown.pc = pc

SameLog == shown.log = log /\ shown.lapses = lapses

SameProjection == shown.graph = graph /\ shown.semantic = semantic

AtRest ==
  /\ SameFrame /\ SameLog /\ SameProjection /\ shown.beliefs = beliefs
  /\ shown.resolutions = resolutions /\ shown.derivations = derivations

AtIngest ==
  /\ SameFrame /\ SameLog /\ SameProjection
  /\ shown.resolutions = resolutions /\ shown.derivations = derivations
  /\ doing.what \in InputBeliefs /\ CanCall
  /\ beliefs = shown.beliefs \cup {doing.what}

ProofOf(d) == [atom |-> d.then, rule |-> rules[next].name, prem |-> d.prem]

AtDerive ==
  /\ SameFrame /\ SameLog /\ SameProjection /\ shown.resolutions = resolutions
  /\ doing = [at |-> doing.at, what |-> doing.what, before |-> Cardinality(shown.beliefs)]
  /\ pc = "derive" /\ IsFirst(doing.what, todo)
  /\ derivations = shown.derivations \cup {ProofOf(doing.what)}

AtResolve ==
  /\ SameFrame /\ SameLog /\ SameProjection
  /\ shown.beliefs = beliefs /\ shown.derivations = derivations
  /\ doing.what \in InputResolutions /\ CanCall
  /\ resolutions = SetResolution(shown.resolutions, doing.what)

\* The resolutions and the beliefs recompute puts back.
Wanted     == IF doing.at = "replace" THEN doing.res ELSE resolutions \cup doing.res
WantedBase == IF doing.at = "replace" THEN doing.base ELSE beliefs \cup doing.base

\* The call recompute is the end of.
AfterResolve(r) ==
  /\ pc = "idle" /\ Len(shown.log) < MaxLog
  /\ log = Append(shown.log, [type |-> "resolution", data |-> r])
  /\ lapses = shown.lapses \ {"resolution"}
  /\ Wanted = SetResolution(shown.resolutions, r)

AfterReplay ==
  /\ pc = "replay" /\ next \notin DOMAIN log
  /\ log = shown.log /\ lapses = {}
  /\ Wanted = shown.resolutions

AtRecompute ==
  /\ SameFrame
  /\ AfterReplay \/ \E r \in InputResolutions : AfterResolve(r)
  /\ WantedBase = Base(shown.beliefs)
  /\ \A r, s \in Wanted : r.atom = s.atom => r = s

Replacing ==
  /\ doing = [at |-> "replace", store |-> doing.store, base |-> doing.base, res |-> doing.res]
  /\ doing.store \in {1, 2, 3}
  /\ doing.store > 1 => beliefs = {} /\ resolutions = {}
  /\ doing.store > 2 => graph = {} /\ semantic = {}

Refilling ==
  /\ doing = [at |-> "refill", base |-> doing.base, res |-> doing.res]
  /\ derivations = {} /\ graph = Projected(beliefs, resolutions) /\ semantic = graph
  /\ doing.res # {} => beliefs = {}

RefillingGraph ==
  /\ derivations = {} /\ doing.res = {} /\ doing.what \in beliefs
  /\ graph \cup Projected({doing.what}, resolutions) = Projected(beliefs, resolutions)
  /\ semantic = graph

AtReset ==
  /\ SameFrame /\ SameLog /\ shown.semantic = semantic /\ shown.derivations = derivations
  /\ doing = [at |-> "reset", store |-> doing.store]
  /\ pc = "idle" /\ beliefs = {} /\ resolutions = {}
  /\ \/ doing.store = 2 /\ shown.graph = graph
     \/ doing.store = 3 /\ graph = {}

AtRecord ==
  /\ SameFrame /\ SameLog /\ SameProjection
  /\ shown.resolutions = resolutions /\ shown.derivations = derivations
  /\ pc = "replay" /\ next \in DOMAIN log
  /\ log[next].type = "fact" /\ log[next].data = doing.what
  /\ beliefs = shown.beliefs \cup {doing.what}

Stage ==
  \/ doing = Ready /\ AtRest
  \/ doing.at = "ingest" /\ AtIngest
  \/ doing.at = "derive" /\ AtDerive /\ beliefs = shown.beliefs
  \/ doing.at = "project" /\ AtDerive
     /\ beliefs = shown.beliefs \cup (IF ValidAtom(doing.what.then) THEN {DerivedNow(doing.what)}
                                                                   ELSE {})
  \/ doing.at = "resolve" /\ AtResolve
  \/ doing.at = "replace" /\ AtRecompute /\ Replacing
  \/ doing.at = "refill" /\ AtRecompute /\ Refilling
  \/ doing.at = "refillGraph" /\ AtRecompute /\ RefillingGraph
  \/ doing.at = "reset" /\ AtReset
  \/ doing.at = "record" /\ AtRecord

\* What was shown last is finite and resolves no atom twice.
ShownOK ==
  /\ IsFiniteSet(shown.beliefs)
  /\ \A r, s \in shown.resolutions : r.atom = s.atom => r = s

StepsOK == Stage /\ ShownOK

LEMMA StepEndsRest == StepEnds => doing' = Ready /\ AtRest'
BY DEF StepEnds, Complete, AtRest, SameFrame, SameLog, SameProjection

LEMMA IngestParts ==
  ASSUME NEW b
  PROVE  /\ IngestPart(b, 1) => beliefs' = beliefs \cup {b} /\ UNCHANGED <<graph, semantic>>
         /\ IngestPart(b, 2) => /\ beliefs' = beliefs
                               /\ graph' = graph \cup Projected({b}, resolutions)
                               /\ semantic' = semantic \cup Projected({b}, resolutions)
BY DEF IngestPart

-----------------------------------------------------------------------------
(* The step a call ends with is the one Engine makes.                       *)

Whole == WholeCalls!Next

LEMMA IngestWhole ==
  ASSUME StepsOK, EndIngest
  PROVE  Whole /\ ShownOK'
<1>1. AtIngest
  BY DEF StepsOK, Stage, EndIngest, Ready
<1>2. AtRest'
  BY StepEndsRest DEF EndIngest
<1> DEFINE b == doing.what
<1>3. b \in InputBeliefs
  BY <1>1 DEF AtIngest
<1>4. WholeCalls!IngestNoLog(b) /\ WholeCalls!CanCall
  <2>1. /\ beliefs' = beliefs /\ graph' = graph \cup Projected({b}, resolutions)
        /\ semantic' = semantic \cup Projected({b}, resolutions)
    BY IngestParts DEF EndIngest
  <2>2. WholeCalls!IngestNoLog(b)
    BY <1>1, <1>2, <2>1, SameStores DEF AtIngest, AtRest, SameProjection, WholeCalls!IngestNoLog
  <2>3. WholeCalls!CanCall
    BY <1>1 DEF AtIngest, SameFrame, SameLog, CanCall, WholeCalls!CanCall
  <2> QED
    BY <2>2, <2>3
<1>5. WholeCalls!Ingest(b) \/ WholeCalls!IngestUnlogged(b)
  <2>1. CASE /\ Logged("fact", b)
             /\ audit' = Append(audit, b)
             /\ StartApplyRules(IngestBudget)
             /\ UNCHANGED <<lapses, faults>>
    BY <1>1, <1>2, <1>4, <2>1 DEF AtIngest, AtRest, EndIngest, SameFrame, SameLog, SameProjection,
       WholeCalls!Ingest, Logged, WholeCalls!Logged, StartApplyRules, WholeCalls!StartApplyRules
  <2>2. CASE /\ AppendFails("fact", b)
             /\ lapses' = lapses \cup {"log", "rules"}
             /\ UNCHANGED <<audit, pc, frame>>
    BY <1>1, <1>2, <1>4, <2>2 DEF AtIngest, AtRest, EndIngest, SameFrame, SameLog, SameProjection,
       WholeCalls!IngestUnlogged, Logged, WholeCalls!Logged, AppendFails, WholeCalls!AppendFails,
       frame, WholeCalls!frame
  <2> QED
    BY <2>1, <2>2 DEF EndIngest
<1>6. ShownOK'
  BY <1>1, <1>2, FS_AddElement DEF StepsOK, ShownOK, AtIngest, AtRest, EndIngest, IngestPart
<1> QED
  BY <1>3, <1>5, <1>6 DEF Whole, WholeCalls!Next, WholeCalls!Call

LEMMA DeriveWhole ==
  ASSUME StepsOK, EndDerive
  PROVE  Whole /\ ShownOK'
<1> DEFINE d == doing.what
           r == rules[next]
<1>1. /\ AtDerive
      /\ beliefs = shown.beliefs \cup (IF ValidAtom(d.then) THEN {DerivedNow(d)} ELSE {})
  BY DEF StepsOK, Stage, EndDerive, Ready
<1>2. AtRest'
  BY StepEndsRest DEF EndDerive
<1>3. d \in shown.todo
  BY <1>1 DEF AtDerive, IsFirst, SameFrame
<1>4. IsFiniteSet(shown.beliefs) /\ IsFiniteSet(beliefs) /\ beliefs' = beliefs
  <2>1. IsFiniteSet(shown.beliefs)
    BY DEF StepsOK, ShownOK
  <2>2. beliefs = shown.beliefs \/ beliefs = shown.beliefs \cup {DerivedNow(d)}
    BY <1>1
  <2>3. IsFiniteSet(beliefs)
    BY <2>1, <2>2, FS_AddElement
  <2>4. beliefs' = beliefs
    BY IngestParts DEF EndDerive
  <2> QED
    BY <2>1, <2>3, <2>4
<1>5. /\ shown'.beliefs = beliefs
      /\ doing.before = Cardinality(shown.beliefs)
      /\ UNCHANGED <<derivations, resolutions, rules, audit, log, faults>>
  BY <1>1, <1>2, <1>4 DEF AtDerive, AtRest, EndDerive
<1>6. WholeCalls!CountGrows <=> Cardinality(beliefs) # doing.before
  <2>1. Cardinality(shown.beliefs) \in Nat /\ Cardinality(beliefs) \in Nat
    BY <1>4, FS_CardinalityType
  <2>2. Cardinality(beliefs) >= Cardinality(shown.beliefs)
    BY <1>1, <1>4, FS_Subset
  <2> QED
    BY <1>5, <2>1, <2>2, SameCardinality DEF WholeCalls!CountGrows
<1>7. IF WholeCalls!ValidAtom(d.then)
        THEN WholeCalls!IngestNoLog(WholeCalls!DerivedBelief(d.then, shown.rules[shown.next]))
        ELSE UNCHANGED <<shown.beliefs, shown.graph, shown.semantic>>
  <2>1. shown.rules[shown.next] = r /\ SameProjection /\ shown.resolutions = resolutions
    BY <1>1 DEF AtDerive, SameFrame
  <2>2. CASE ValidAtom(d.then)
    <3>1. /\ graph' = graph \cup Projected({DerivedNow(d)}, resolutions)
          /\ semantic' = semantic \cup Projected({DerivedNow(d)}, resolutions)
      BY <2>2, IngestParts DEF EndDerive
    <3>2. WholeCalls!IngestNoLog(DerivedNow(d))
      BY <1>1, <1>2, <1>5, <2>1, <2>2, <3>1, SameStores
         DEF AtRest, SameProjection, WholeCalls!IngestNoLog
    <3> QED
      BY <2>1, <2>2, <3>2, SameDerived DEF DerivedNow
  <2>3. CASE ~ValidAtom(d.then)
    <3>1. UNCHANGED <<beliefs, graph, semantic>>
      BY <2>3 DEF EndDerive
    <3> QED
      BY <1>1, <1>2, <2>1, <2>3, <3>1, SameDerived DEF AtRest, SameProjection
  <2> QED
    BY <2>2, <2>3
<1>8. \/ /\ WholeCalls!CountGrows /\ shown.remaining = 1
         /\ WholeCalls!Return
         /\ shown'.lapses = shown.lapses \cup {"budget"}
      \/ /\ WholeCalls!CountGrows /\ shown.remaining # 1
         /\ shown'.remaining = shown.remaining - 1 /\ shown'.added = TRUE
         /\ shown'.todo = shown.todo \ {d}
         /\ UNCHANGED <<shown.pc, shown.edges, shown.next, shown.lapses>>
      \/ /\ ~WholeCalls!CountGrows
         /\ shown'.todo = shown.todo \ {d}
         /\ UNCHANGED <<shown.pc, shown.remaining, shown.edges, shown.next, shown.added, shown.lapses>>
  <2>0. SameFrame /\ SameLog /\ SameFrame' /\ SameLog'
    BY <1>1, <1>2 DEF AtDerive, AtRest
  <2>1. CASE Cardinality(beliefs) = doing.before
    <3>1. todo' = todo \ {d} /\ UNCHANGED <<pc, remaining, edges, next, added, lapses>>
      BY <2>1 DEF EndDerive
    <3> QED
      BY <1>6, <2>0, <2>1, <3>1 DEF SameFrame, SameLog
  <2>2. CASE Cardinality(beliefs) # doing.before /\ remaining = 1
    <3>1. Return /\ lapses' = lapses \cup {"budget"}
      BY <2>2 DEF EndDerive
    <3> QED
      BY <1>6, <2>0, <2>2, <3>1
         DEF SameFrame, SameLog, Return, WholeCalls!Return, ClearFrame, WholeCalls!ClearFrame
  <2>3. CASE Cardinality(beliefs) # doing.before /\ remaining # 1
    <3>1. /\ remaining' = remaining - 1 /\ added' = TRUE /\ todo' = todo \ {d}
          /\ UNCHANGED <<pc, edges, next, lapses>>
      BY <2>3 DEF EndDerive
    <3> QED
      BY <1>6, <2>0, <2>3, <3>1 DEF SameFrame, SameLog
  <2> QED
    BY <2>1, <2>2, <2>3
<1>9. WholeCalls!AddDerivation(d.then, shown.rules[shown.next], d)
  BY <1>1, <1>2, <1>5 DEF AtDerive, AtRest, SameFrame, ProofOf, WholeCalls!AddDerivation
<1>10. shown.pc = "derive" /\ WholeCalls!IsFirst(d, shown.todo)
  BY <1>1, SameOrder DEF AtDerive, SameFrame
<1>11. UNCHANGED <<shown.resolutions, shown.rules, shown.audit, shown.log, shown.faults>>
  BY <1>1, <1>2, <1>5 DEF AtDerive, AtRest, SameFrame, SameLog
<1>12. WholeCalls!Derive(d)
  BY <1>7, <1>8, <1>9, <1>10, <1>11 DEF WholeCalls!Derive
<1>13. ShownOK'
  BY <1>1, <1>2, <1>4, <1>5 DEF StepsOK, ShownOK, AtDerive, AtRest
<1> QED
  BY <1>3, <1>12, <1>13 DEF Whole, WholeCalls!Next, WholeCalls!ApplyRules

LEMMA OneResolutionSet ==
  ASSUME NEW res, NEW r, \A p, q \in res : p.atom = q.atom => p = q
  PROVE  \A p, q \in SetResolution(res, r) : p.atom = q.atom => p = q
BY DEF SetResolution

LEMMA ResolveWhole ==
  ASSUME StepsOK, ResolutionUnlogged
  PROVE  Whole /\ ShownOK'
<1> DEFINE r == doing.what
<1>1. AtResolve
  BY DEF StepsOK, Stage, ResolutionUnlogged, Ready
<1>2. AtRest'
  BY StepEndsRest DEF ResolutionUnlogged
<1>3. r \in InputResolutions /\ WholeCalls!CanCall
  BY <1>1 DEF AtResolve, SameFrame, SameLog, CanCall, WholeCalls!CanCall
<1>4. WholeCalls!ResolveUnlogged(r)
  BY <1>1, <1>2, <1>3, SameStores
     DEF AtResolve, AtRest, SameFrame, SameLog, SameProjection, ResolutionUnlogged, AppendFails,
         Logged, memory, frame, WholeCalls!ResolveUnlogged, WholeCalls!AppendFails,
         WholeCalls!Logged, WholeCalls!frame
<1>5. ShownOK'
  BY <1>1, <1>2, OneResolutionSet
     DEF StepsOK, ShownOK, AtResolve, AtRest, ResolutionUnlogged, memory
<1> QED
  BY <1>3, <1>4, <1>5 DEF Whole, WholeCalls!Next, WholeCalls!Call

LEMMA RecomputeWhole ==
  ASSUME StepsOK, EndRecompute
  PROVE  Whole /\ ShownOK'
<1>1. AtRecompute /\ Refilling
  BY DEF StepsOK, Stage, EndRecompute, Ready
<1>2. AtRest'
  BY StepEndsRest DEF EndRecompute
<1>3. /\ beliefs = Base(shown.beliefs) /\ Wanted = resolutions
      /\ \A p, q \in resolutions : p.atom = q.atom => p = q
  BY <1>1 DEF AtRecompute, Wanted, WantedBase, EndRecompute
<1>4. StartApplyRules(IngestBudget) /\ UNCHANGED <<memory, log, lapses, faults>>
  BY DEF EndRecompute
<1>5. /\ shown'.beliefs = Base(shown.beliefs) /\ shown'.resolutions = resolutions
      /\ shown'.graph = Projected(Base(shown.beliefs), resolutions)
      /\ shown'.semantic = shown'.graph
      /\ shown'.derivations = {}
  BY <1>1, <1>2, <1>3, <1>4 DEF AtRest, SameProjection, Refilling, memory
<1>6. WholeCalls!Recompute(shown.beliefs, resolutions)
  BY <1>2, <1>4, <1>5, SameStores
     DEF AtRest, SameFrame, StartApplyRules, WholeCalls!Recompute, WholeCalls!StartApplyRules
<1>7. ASSUME NEW r \in InputResolutions, AfterResolve(r) PROVE Whole
  <2>1. WholeCalls!Recompute(shown.beliefs, WholeCalls!SetResolution(shown.resolutions, r))
    BY <1>3, <1>6, <1>7, SameStores DEF AfterResolve
  <2>2. /\ WholeCalls!CanCall
        /\ WholeCalls!Logged("resolution", r)
        /\ shown'.lapses = shown.lapses \ {"resolution"}
        /\ UNCHANGED <<shown.rules, shown.audit, shown.faults>>
    BY <1>1, <1>2, <1>4, <1>7
       DEF AtRecompute, AfterResolve, AtRest, SameFrame, SameLog, memory,
           WholeCalls!CanCall, WholeCalls!Logged
  <2> QED
    BY <2>1, <2>2 DEF Whole, WholeCalls!Next, WholeCalls!Call, WholeCalls!Resolve
<1>8. ASSUME AfterReplay PROVE Whole
  <2>1. WholeCalls!Recompute(shown.beliefs, shown.resolutions)
    BY <1>3, <1>6, <1>8 DEF AfterReplay
  <2>2. /\ shown.pc = "replay" /\ shown.next \notin DOMAIN shown.log
        /\ shown'.lapses = {}
        /\ UNCHANGED <<shown.rules, shown.audit, shown.log, shown.faults>>
    BY <1>1, <1>2, <1>4, <1>8
       DEF AtRecompute, AfterReplay, AtRest, SameFrame, SameLog, memory
  <2> QED
    BY <2>1, <2>2 DEF Whole, WholeCalls!Next, WholeCalls!Replay, WholeCalls!ReplayDone
<1>9. Whole
  BY <1>1, <1>7, <1>8 DEF AtRecompute
<1>10. ShownOK'
  <2>1. Base(shown.beliefs) \subseteq shown.beliefs
    BY DEF Base
  <2>2. IsFiniteSet(Base(shown.beliefs))
    BY <2>1, FS_Subset DEF StepsOK, ShownOK
  <2> QED
    BY <1>3, <1>5, <2>2 DEF ShownOK
<1> QED
  BY <1>9, <1>10

LEMMA ResetWhole ==
  ASSUME StepsOK, EndReset
  PROVE  Whole /\ ShownOK'
<1>1. AtReset
  BY DEF StepsOK, Stage, EndReset, Ready
<1>2. AtRest'
  BY StepEndsRest DEF EndReset
<1>3. StartReplay /\ UNCHANGED <<semantic, faults>>
  BY DEF EndReset
<1>4. WholeCalls!StartReplay
  BY <1>1, <1>2, <1>3
     DEF AtReset, AtRest, SameFrame, SameLog, SameProjection, StartReplay, ClearStores,
         WholeCalls!StartReplay, WholeCalls!ClearStores
<1>5. shown.pc = "idle" /\ UNCHANGED <<shown.semantic, shown.faults>>
  BY <1>1, <1>2, <1>3 DEF AtReset, AtRest, SameFrame, SameProjection
<1>6. ShownOK'
  BY <1>2, <1>3, FS_EmptySet DEF AtRest, StartReplay, ClearStores, ShownOK
<1> QED
  BY <1>4, <1>5, <1>6 DEF Whole, WholeCalls!Next, WholeCalls!Call, WholeCalls!ReplayFromLog

LEMMA RecordWhole ==
  ASSUME StepsOK, EndRecord
  PROVE  Whole /\ ShownOK'
<1> DEFINE b == doing.what
<1>1. AtRecord
  BY DEF StepsOK, Stage, EndRecord, Ready
<1>2. AtRest'
  BY StepEndsRest DEF EndRecord
<1>3. /\ beliefs' = beliefs /\ graph' = graph \cup Projected({b}, resolutions)
      /\ semantic' = semantic \cup Projected({b}, resolutions)
      /\ next' = next + 1
      /\ UNCHANGED <<resolutions, derivations, rules, audit, log, pc, remaining, edges, todo,
                     added, lapses, faults>>
  BY IngestParts DEF EndRecord
<1>4. WholeCalls!IngestNoLog(b)
  BY <1>1, <1>2, <1>3, SameStores DEF AtRecord, AtRest, SameProjection, WholeCalls!IngestNoLog
<1>5. /\ shown.pc = "replay" /\ shown.next \in DOMAIN shown.log
      /\ shown.log[shown.next].type = "fact" /\ shown.log[shown.next].data = b
      /\ shown'.next = shown.next + 1
      /\ UNCHANGED <<shown.resolutions, shown.rules, shown.derivations, shown.audit, shown.log,
                     shown.pc, shown.remaining, shown.edges, shown.todo, shown.added,
                     shown.lapses, shown.faults>>
  BY <1>1, <1>2, <1>3 DEF AtRecord, AtRest, SameFrame, SameLog
<1>6. WholeCalls!ReplayRecord
  BY <1>4, <1>5 DEF WholeCalls!ReplayRecord
<1>7. ShownOK'
  BY <1>1, <1>2, <1>3, FS_AddElement DEF StepsOK, ShownOK, AtRecord, AtRest
<1> QED
  BY <1>6, <1>7 DEF Whole, WholeCalls!Next, WholeCalls!Replay

(***************************************************************************)
(* The steps no reader can meet in two halves are Engine's as they are.       *)
(***************************************************************************)
LEMMA WholeWhole ==
  ASSUME StepsOK, WholeStep
  PROVE  Whole /\ ShownOK'
<1>1. AtRest /\ AtRest'
  BY StepEndsRest DEF StepsOK, Stage, WholeStep, Ready
<1> USE DEF AtRest, SameFrame, SameLog, SameProjection
<1>2. ASSUME NEW r \in InputRules, AddRule(r) PROVE Whole
  <2>1. WholeCalls!AddRule(r)
    BY <1>1, <1>2 DEF AddRule, WholeCalls!AddRule, CanCall, WholeCalls!CanCall, Logged,
       WholeCalls!Logged, StartApplyRules, WholeCalls!StartApplyRules
  <2> QED
    BY <2>1 DEF Whole, WholeCalls!Next, WholeCalls!Call
<1>3. ASSUME NEW r \in InputRules, AddRuleUnlogged(r) PROVE Whole
  <2>1. WholeCalls!AddRuleUnlogged(r)
    BY <1>1, <1>3 DEF AddRuleUnlogged, WholeCalls!AddRuleUnlogged, CanCall, WholeCalls!CanCall,
       Logged, WholeCalls!Logged, AppendFails, WholeCalls!AppendFails, frame, WholeCalls!frame
  <2> QED
    BY <2>1 DEF Whole, WholeCalls!Next, WholeCalls!Call
<1>4. ASSUME StartRound PROVE Whole
  <2>1. WholeCalls!StartRound
    BY <1>1, <1>4 DEF StartRound, WholeCalls!StartRound, memory, WholeCalls!memory
  <2> QED
    BY <2>1 DEF Whole, WholeCalls!Next, WholeCalls!ApplyRules
<1>5. ASSUME EvaluateNextRule PROVE Whole
  <2>1. WholeCalls!EvaluateNextRule
    BY <1>1, <1>5, SameEvaluation, SameDerivations
       DEF EvaluateNextRule, WholeCalls!EvaluateNextRule, memory, WholeCalls!memory
  <2> QED
    BY <2>1 DEF Whole, WholeCalls!Next, WholeCalls!ApplyRules
<1>6. ASSUME RuleDone PROVE Whole
  <2>1. WholeCalls!RuleDone
    BY <1>1, <1>6 DEF RuleDone, WholeCalls!RuleDone, memory, WholeCalls!memory
  <2> QED
    BY <2>1 DEF Whole, WholeCalls!Next, WholeCalls!ApplyRules
<1>7. ASSUME RoundDone PROVE Whole
  <2>1. WholeCalls!RoundDone
    <3>1. CASE RoundAgain
      BY <1>1, <1>7, <3>1 DEF RoundDone, WholeCalls!RoundDone, RoundAgain, WholeCalls!RoundAgain,
         memory, WholeCalls!memory, frame, WholeCalls!frame
    <3>2. CASE ~RoundAgain
      <4>1. Return /\ pc = "rule" /\ next \notin DOMAIN rules /\ UNCHANGED <<memory, log, lapses, faults>>
        BY <1>7, <3>2, Zenon DEF RoundDone
      <4>2. WholeCalls!Return /\ ~WholeCalls!RoundAgain
        BY <1>1, <3>2, <4>1 DEF Return, ClearFrame, WholeCalls!Return, WholeCalls!ClearFrame,
           RoundAgain, WholeCalls!RoundAgain
      <4>3. /\ shown.pc = "rule" /\ shown.next \notin DOMAIN shown.rules
            /\ UNCHANGED <<WholeCalls!memory, shown.log, shown.lapses, shown.faults>>
        BY <1>1, <4>1 DEF memory, WholeCalls!memory
      <4> QED
        BY <4>2, <4>3, Zenon DEF WholeCalls!RoundDone
    <3> QED
      BY <3>1, <3>2
  <2> QED
    BY <2>1 DEF Whole, WholeCalls!Next, WholeCalls!ApplyRules
<1>8. ASSUME log[next].type # "fact", ReplayRecord PROVE Whole
  <2>1. WholeCalls!ReplayRecord
    BY <1>1, <1>8, SameStores DEF ReplayRecord, WholeCalls!ReplayRecord
  <2> QED
    BY <2>1 DEF Whole, WholeCalls!Next, WholeCalls!Replay
<1>9. ASSUME ReplayFails PROVE Whole
  <2>1. WholeCalls!ReplayFails
    BY <1>1, <1>9, SameStores DEF ReplayFails, WholeCalls!ReplayFails, Return, WholeCalls!Return,
       ClearFrame, WholeCalls!ClearFrame, memory, WholeCalls!memory
  <2> QED
    BY <2>1 DEF Whole, WholeCalls!Next, WholeCalls!Replay
<1>10. Whole
  BY <1>2, <1>3, <1>4, <1>5, <1>6, <1>7, <1>8, <1>9 DEF WholeStep
<1>11. /\ beliefs' = beliefs
       /\ resolutions' = resolutions \/ \E r : resolutions' = SetResolution(resolutions, r)
  <2>1. ASSUME NEW r \in InputRules, AddRule(r) \/ AddRuleUnlogged(r)
        PROVE  UNCHANGED <<beliefs, resolutions>>
    BY <2>1 DEF AddRule, AddRuleUnlogged
  <2>2. ASSUME StartRound \/ EvaluateNextRule \/ RuleDone \/ RoundDone \/ ReplayFails
        PROVE  UNCHANGED <<beliefs, resolutions>>
    BY <2>2 DEF StartRound, EvaluateNextRule, RuleDone, RoundDone, ReplayFails, memory
  <2>3. ASSUME log[next].type # "fact", ReplayRecord
        PROVE  /\ beliefs' = beliefs
               /\ resolutions' = resolutions \/ \E r : resolutions' = SetResolution(resolutions, r)
    BY <2>3 DEF ReplayRecord
  <2> QED
    BY <2>1, <2>2, <2>3 DEF WholeStep
<1>12. ShownOK'
  BY <1>1, <1>11, OneResolutionSet DEF StepsOK, ShownOK
<1> QED
  BY <1>10, <1>12

-----------------------------------------------------------------------------
(* The steps in between leave what is shown alone.                          *)

Within == shown' = shown /\ Stage'

\* A call begins where the last one ended.
LEMMA StartWithin ==
  ASSUME StepsOK
  PROVE  /\ \A b \in InputBeliefs : StartIngest(b) => Within
         /\ \A d \in todo : StartDerive(d) => Within
         /\ \A r \in InputResolutions : StartResolve(r) => Within
         /\ StartReset => Within
         /\ StartRecord => Within
         /\ StartReplayDone => Within
<1>0. doing = Ready => AtRest
  BY DEF StepsOK, Stage, Ready
<1>1. ASSUME NEW b \in InputBeliefs, StartIngest(b) PROVE Within
  <2>1. AtRest /\ doing' = [at |-> "ingest", what |-> b] /\ shown' = shown
    BY <1>0, <1>1 DEF StartIngest, StepGoesOn
  <2>2. /\ beliefs' = beliefs \cup {b} /\ CanCall
        /\ UNCHANGED <<resolutions, graph, semantic, derivations, unseen>>
    BY <1>1, IngestParts DEF StartIngest
  <2>3. AtIngest'
    BY <2>1, <2>2 DEF AtRest, AtIngest, SameFrame, SameLog, SameProjection, unseen, frame, CanCall
  <2> QED
    BY <2>1, <2>3 DEF Within, Stage
<1>2. ASSUME NEW d \in todo, StartDerive(d) PROVE Within
  <2>1. /\ AtRest /\ shown' = shown
        /\ doing' = [at |-> "derive", what |-> d, before |-> Cardinality(beliefs)]
    BY <1>0, <1>2 DEF StartDerive, StepGoesOn
  <2>2. /\ derivations' = derivations \cup {ProofOf(d)} /\ pc = "derive" /\ IsFirst(d, todo)
        /\ UNCHANGED <<resolutions, beliefs, graph, semantic, unseen>>
    BY <1>2 DEF StartDerive, DerivePart, AddDerivation, ProofOf
  <2>3. AtDerive' /\ beliefs' = shown'.beliefs
    BY <2>1, <2>2 DEF AtRest, AtDerive, SameFrame, SameLog, SameProjection, unseen, frame, ProofOf
  <2> QED
    BY <2>1, <2>3 DEF Within, Stage
<1>3. ASSUME NEW r \in InputResolutions, StartResolve(r) PROVE Within
  <2>1. AtRest /\ doing' = [at |-> "resolve", what |-> r] /\ shown' = shown
    BY <1>0, <1>3 DEF StartResolve, StepGoesOn
  <2>2. AtResolve'
    BY <1>3, <2>1 DEF StartResolve, AtRest, AtResolve, SameFrame, SameLog, SameProjection, unseen,
       frame, CanCall
  <2> QED
    BY <2>1, <2>2 DEF Within, Stage
<1>4. ASSUME StartReset PROVE Within
  <2>1. AtRest /\ doing' = [at |-> "reset", store |-> 2] /\ shown' = shown
    BY <1>0, <1>4 DEF StartReset, StepGoesOn
  <2>2. AtReset'
    BY <1>4, <2>1 DEF StartReset, AtRest, AtReset, SameFrame, SameLog, SameProjection, unseen, frame
  <2> QED
    BY <2>1, <2>2 DEF Within, Stage
<1>5. ASSUME StartRecord PROVE Within
  <2>1. AtRest /\ doing' = [at |-> "record", what |-> log[next].data] /\ shown' = shown
    BY <1>0, <1>5 DEF StartRecord, StepGoesOn
  <2>2. /\ beliefs' = beliefs \cup {log[next].data} /\ pc = "replay" /\ next \in DOMAIN log
        /\ log[next].type = "fact"
        /\ UNCHANGED <<resolutions, graph, semantic, derivations, unseen>>
    BY <1>5, IngestParts DEF StartRecord
  <2>3. AtRecord'
    BY <2>1, <2>2 DEF AtRest, AtRecord, SameFrame, SameLog, SameProjection, unseen, frame
  <2> QED
    BY <2>1, <2>3 DEF Within, Stage
<1>6. ASSUME StartReplayDone PROVE Within
  <2>1. AtRest /\ doing' = Collected /\ shown' = shown
    BY <1>0, <1>6 DEF StartReplayDone, StepGoesOn
  <2>2. /\ pc = "replay" /\ next \notin DOMAIN log /\ lapses' = {}
        /\ UNCHANGED <<memory, log, pc, frame, faults>>
    BY <1>6 DEF StartReplayDone
  <2>3. AfterReplay' /\ WantedBase' = Base(shown'.beliefs) /\ Wanted' = shown'.resolutions
    BY <2>1, <2>2 DEF AtRest, SameFrame, SameLog, AfterReplay, Wanted, WantedBase, Collected, memory, frame
  <2>4. AtRecompute' /\ Replacing'
    BY <2>1, <2>2, <2>3 DEF AtRest, SameFrame, AtRecompute, Replacing, Collected, memory, frame,
       StepsOK, ShownOK
  <2> QED
    BY <2>1, <2>4 DEF Within, Stage, Collected
<1> QED
  BY <1>1, <1>2, <1>3, <1>4, <1>5, <1>6

LEMMA DeriveWithin == StepsOK /\ BelieveDerived => Within
<1> SUFFICES ASSUME StepsOK, BelieveDerived PROVE Within
  OBVIOUS
<1>1. AtDerive /\ beliefs = shown.beliefs /\ doing.at = "derive"
  BY DEF StepsOK, Stage, BelieveDerived, Ready
<1>2. /\ doing' = [doing EXCEPT !.at = "project"] /\ shown' = shown
      /\ UNCHANGED <<resolutions, derivations, unseen>>
  BY DEF BelieveDerived, StepGoesOn, DerivePart
<1>3. doing' = [at |-> "project", what |-> doing.what, before |-> Cardinality(shown.beliefs)]
  BY <1>1, <1>2 DEF AtDerive
<1>4. /\ UNCHANGED <<graph, semantic>>
      /\ beliefs' = shown.beliefs \cup (IF ValidAtom(doing.what.then) THEN {DerivedNow(doing.what)}
                                                                     ELSE {})
  <2>1. CASE ValidAtom(doing.what.then)
    <3>1. IngestPart(DerivedNow(doing.what), 1)
      BY <2>1 DEF BelieveDerived, DerivePart
    <3> QED
      BY <1>1, <2>1, <3>1, IngestParts
  <2>2. CASE ~ValidAtom(doing.what.then)
    BY <1>1, <2>2 DEF BelieveDerived, DerivePart
  <2> QED
    BY <2>1, <2>2
<1>5. AtDerive'
  BY <1>1, <1>2, <1>3, <1>4 DEF AtDerive, SameFrame, SameLog, SameProjection, unseen, frame, ProofOf
<1>6. DerivedNow(doing.what)' = DerivedNow(doing.what)
  BY <1>2, <1>3 DEF DerivedNow, unseen, frame
<1>7. beliefs' = shown'.beliefs \cup (IF ValidAtom(doing'.what.then) THEN {DerivedNow(doing.what)'}
                                                                    ELSE {})
  BY <1>2, <1>3, <1>4, <1>6
<1> QED
  BY <1>2, <1>3, <1>5, <1>7 DEF Within, Stage

LEMMA ResolveWithin == StepsOK /\ LogResolution => Within
<1> SUFFICES ASSUME StepsOK, LogResolution PROVE Within
  OBVIOUS
<1>1. AtResolve
  BY DEF StepsOK, Stage, LogResolution, Ready
<1>0. PICK r \in InputResolutions : r = doing.what
  BY <1>1 DEF AtResolve
<1>2. doing' = Collected /\ shown' = shown
  BY DEF LogResolution, StepGoesOn
<1>3. /\ log' = Append(log, [type |-> "resolution", data |-> r])
      /\ lapses' = lapses \ {"resolution"}
      /\ UNCHANGED <<memory, pc, frame, faults>>
  BY <1>0 DEF LogResolution, Logged
<1>4. /\ Wanted' = SetResolution(shown.resolutions, r)
      /\ WantedBase' = Base(shown.beliefs)
  BY <1>0, <1>1, <1>2, <1>3 DEF AtResolve, Wanted, WantedBase, Collected
<1>5. AfterResolve(r)'
  BY <1>1, <1>2, <1>3, <1>4 DEF AtResolve, AfterResolve, SameFrame, SameLog, CanCall
<1>6. \A p, q \in Wanted' : p.atom = q.atom => p = q
  BY <1>4, OneResolutionSet DEF StepsOK, ShownOK
<1>7. SameFrame'
  BY <1>1, <1>2, <1>3 DEF AtResolve, SameFrame, memory, frame
<1>8. AtRecompute' /\ Replacing'
  BY <1>1, <1>2, <1>4, <1>5, <1>6, <1>7 DEF AtResolve, AtRecompute, Replacing, Collected
<1> QED
  BY <1>2, <1>8 DEF Within, Stage, Collected

LEMMA RecomputeGoesOn ==
  ASSUME AtRecompute, shown' = shown, UNCHANGED unseen, Wanted' = Wanted, WantedBase' = WantedBase
  PROVE  AtRecompute'
<1>1. SameFrame'
  BY DEF AtRecompute, SameFrame, unseen, frame
<1>2. AfterReplay => AfterReplay'
  BY DEF AfterReplay, unseen, frame
<1>3. \A r : AfterResolve(r) => AfterResolve(r)'
  BY DEF AfterResolve, unseen
<1> QED
  BY <1>1, <1>2, <1>3 DEF AtRecompute

LEMMA ProjectedGrows ==
  /\ \A bs, b, res : Projected(bs \cup {b}, res) = Projected(bs, res) \cup Projected({b}, res)
  /\ \A res : Projected({}, res) = {}
BY DEF Projected

LEMMA ReplaceWithin == StepsOK /\ ReplaceStore => Within
<1> SUFFICES ASSUME StepsOK, ReplaceStore PROVE Within
  OBVIOUS
<1>1. AtRecompute /\ Replacing /\ doing.at = "replace"
  BY DEF StepsOK, Stage, ReplaceStore, Ready
<1>2. shown' = shown /\ UNCHANGED unseen
  BY DEF ReplaceStore, StepGoesOn
<1>3. CASE doing.store # 3
  <2>1. doing' = [doing EXCEPT !.store = @ + 1]
    BY <1>3 DEF ReplaceStore, StepGoesOn
  <2>2. doing' = [at |-> "replace", store |-> doing.store + 1, base |-> doing.base, res |-> doing.res]
    BY <1>1, <2>1 DEF Replacing
  <2>3. Wanted' = Wanted /\ WantedBase' = WantedBase
    BY <1>1, <2>2 DEF Wanted, WantedBase
  <2>4. Replacing'
    BY <1>1, <1>3, <2>2 DEF Replacing, ReplaceStore
  <2> QED
    BY <1>1, <1>2, <2>2, <2>3, <2>4, RecomputeGoesOn DEF Within, Stage
<1>4. CASE doing.store = 3
  <2>1. doing' = [at |-> "refill", base |-> doing.base, res |-> doing.res]
    BY <1>4 DEF ReplaceStore, StepGoesOn
  <2>2. /\ beliefs' = {} /\ resolutions' = {} /\ graph' = {} /\ semantic' = {}
        /\ derivations' = {}
    BY <1>1, <1>4 DEF ReplaceStore, Replacing
  <2>3. Wanted' = Wanted /\ WantedBase' = WantedBase
    BY <1>1, <2>1, <2>2 DEF Wanted, WantedBase
  <2>4. Refilling'
    BY <2>1, <2>2, ProjectedGrows DEF Refilling
  <2> QED
    BY <1>1, <1>2, <2>1, <2>3, <2>4, RecomputeGoesOn DEF Within, Stage
<1> QED
  BY <1>3, <1>4

LEMMA SetAgainWithin == StepsOK /\ SetAgain => Within
<1> SUFFICES ASSUME StepsOK, SetAgain PROVE Within
  OBVIOUS
<1>1. AtRecompute /\ Refilling /\ doing.at = "refill"
  BY DEF StepsOK, Stage, SetAgain, Ready
<1>2. PICK r \in doing.res : /\ resolutions' = SetResolution(resolutions, r)
                             /\ StepGoesOn([doing EXCEPT !.res = @ \ {r}])
  BY DEF SetAgain
<1>3. shown' = shown /\ UNCHANGED <<beliefs, graph, semantic, derivations, unseen>>
  BY <1>2 DEF SetAgain, StepGoesOn
<1>4. doing' = [at |-> "refill", base |-> doing.base, res |-> doing.res \ {r}]
  BY <1>1, <1>2 DEF StepGoesOn, Refilling
<1>5. resolutions' = resolutions \cup {r}
  <2>1. \A p \in resolutions : p.atom = r.atom => p = r
    BY <1>1 DEF AtRecompute, Wanted
  <2> QED
    BY <1>2, <2>1 DEF SetResolution
<1>6. Wanted' = Wanted /\ WantedBase' = WantedBase
  BY <1>1, <1>2, <1>3, <1>4, <1>5 DEF Wanted, WantedBase
<1>7. Refilling'
  BY <1>1, <1>2, <1>3, <1>4, ProjectedGrows DEF Refilling
<1> QED
  BY <1>1, <1>3, <1>4, <1>6, <1>7, RecomputeGoesOn DEF Within, Stage

LEMMA AddAgainWithin == StepsOK /\ AddAgain => Within
<1> SUFFICES ASSUME StepsOK, AddAgain PROVE Within
  OBVIOUS
<1>1. AtRecompute /\ Refilling /\ doing.at = "refill"
  BY DEF StepsOK, Stage, AddAgain, Ready
<1>2. PICK b \in doing.base : /\ IngestPart(b, 1)
                              /\ StepGoesOn([at |-> "refillGraph", what |-> b,
                                             base |-> doing.base \ {b}, res |-> doing.res])
  BY DEF AddAgain
<1>3. shown' = shown /\ UNCHANGED <<resolutions, derivations, unseen>> /\ doing.res = {}
  BY <1>2 DEF AddAgain, StepGoesOn, ResolutionsFirst
<1>4. doing' = [at |-> "refillGraph", what |-> b, base |-> doing.base \ {b}, res |-> doing.res]
  BY <1>2 DEF StepGoesOn
<1>5. beliefs' = beliefs \cup {b} /\ UNCHANGED <<graph, semantic>>
  BY <1>2, IngestParts
<1>6. Wanted' = Wanted /\ WantedBase' = WantedBase
  BY <1>1, <1>2, <1>3, <1>4, <1>5 DEF Wanted, WantedBase
<1>7. RefillingGraph'
  <2>1. graph = Projected(beliefs, resolutions) /\ derivations = {} /\ semantic = graph
    BY <1>1 DEF Refilling
  <2>2. Projected(beliefs \cup {b}, resolutions)
          = Projected(beliefs, resolutions) \cup Projected({b}, resolutions)
    BY DEF Projected
  <2> QED
    BY <1>3, <1>4, <1>5, <2>1, <2>2 DEF RefillingGraph
<1> QED
  BY <1>1, <1>3, <1>4, <1>6, <1>7, RecomputeGoesOn DEF Within, Stage

LEMMA ProjectAgainWithin == StepsOK /\ ProjectAgain => Within
<1> SUFFICES ASSUME StepsOK, ProjectAgain PROVE Within
  OBVIOUS
<1>1. AtRecompute /\ RefillingGraph /\ doing.at = "refillGraph"
  BY DEF StepsOK, Stage, ProjectAgain, Ready
<1>2. /\ doing' = [at |-> "refill", base |-> doing.base, res |-> doing.res] /\ shown' = shown
      /\ UNCHANGED <<resolutions, derivations, unseen>>
  BY DEF ProjectAgain, StepGoesOn
<1>3. /\ beliefs' = beliefs /\ graph' = graph \cup Projected({doing.what}, resolutions)
      /\ semantic' = semantic \cup Projected({doing.what}, resolutions)
  BY IngestParts DEF ProjectAgain
<1>4. Wanted' = Wanted /\ WantedBase' = WantedBase
  BY <1>1, <1>2, <1>3 DEF Wanted, WantedBase
<1>5. Refilling'
  BY <1>1, <1>2, <1>3 DEF Refilling, RefillingGraph
<1> QED
  BY <1>1, <1>2, <1>4, <1>5, RecomputeGoesOn DEF Within, Stage

LEMMA ResetWithin == StepsOK /\ ResetGraph => Within
<1> SUFFICES ASSUME StepsOK, ResetGraph PROVE Within
  OBVIOUS
<1>1. AtReset
  BY DEF StepsOK, Stage, ResetGraph, Ready
<1>2. /\ graph' = {} /\ shown' = shown /\ doing' = [doing EXCEPT !.store = 3]
      /\ UNCHANGED <<beliefs, resolutions, semantic, derivations, unseen>>
  BY DEF ResetGraph, StepGoesOn
<1>3. doing' = [at |-> "reset", store |-> 3]
  BY <1>1, <1>2 DEF AtReset
<1>4. AtReset'
  BY <1>1, <1>2, <1>3 DEF AtReset, SameFrame, SameLog, unseen, frame
<1> QED
  BY <1>2, <1>3, <1>4 DEF Within, Stage

-----------------------------------------------------------------------------
LEMMA WritesWhole ==
  ASSUME StepsOK, Writes
  PROVE  StepsOK' /\ (Whole \/ shown' = shown)
<1>1. CASE Within
  BY <1>1 DEF Within, StepsOK, ShownOK
<1>2. ASSUME Whole /\ ShownOK', StepEnds PROVE StepsOK' /\ Whole
  BY <1>2, StepEndsRest DEF StepsOK, Stage
<1>3. CASE EndIngest
  BY <1>2, <1>3, IngestWhole DEF EndIngest
<1>4. CASE EndDerive
  BY <1>2, <1>4, DeriveWhole DEF EndDerive
<1>5. CASE ResolutionUnlogged
  BY <1>2, <1>5, ResolveWhole DEF ResolutionUnlogged
<1>6. CASE EndRecompute
  BY <1>2, <1>6, RecomputeWhole DEF EndRecompute
<1>7. CASE EndReset
  BY <1>2, <1>7, ResetWhole DEF EndReset
<1>8. CASE EndRecord
  BY <1>2, <1>8, RecordWhole DEF EndRecord
<1>9. CASE WholeStep
  BY <1>2, <1>9, WholeWhole DEF WholeStep
<1> QED
  BY <1>1, <1>3, <1>4, <1>5, <1>6, <1>7, <1>8, <1>9, StartWithin, DeriveWithin, ResolveWithin,
     ReplaceWithin, SetAgainWithin, AddAgainWithin, ProjectAgainWithin, ResetWithin DEF Writes

LEMMA StepsStep == StepsOK /\ [StepsNext]_stepsVars => StepsOK' /\ (Whole \/ shown' = shown)
<1> SUFFICES ASSUME StepsOK, [StepsNext]_stepsVars PROVE StepsOK' /\ (Whole \/ shown' = shown)
  OBVIOUS
<1>1. CASE Writes
  BY <1>1, WritesWhole
<1>2. CASE UNCHANGED <<vars, doing, shown>>
  BY <1>2 DEF vars, memory, frame, StepsOK, ShownOK, Stage, AtRest, AtIngest, AtDerive, AtResolve,
     AtRecompute, Replacing, Refilling, RefillingGraph, AtReset, AtRecord, SameFrame, SameLog,
     SameProjection, CanCall, ProofOf, DerivedNow, Wanted, WantedBase, AfterReplay, AfterResolve
<1> QED
  BY <1>1, <1>2 DEF StepsNext, Reads, stepsVars

LEMMA StepsStart == StepsInit => StepsOK /\ WholeCalls!Init
<1> SUFFICES ASSUME StepsInit PROVE StepsOK /\ WholeCalls!Init
  OBVIOUS
<1>1. AtRest /\ Init /\ doing = Ready
  BY DEF StepsInit, Complete, AtRest, SameFrame, SameLog, SameProjection
<1>2. StepsOK
  BY <1>1, FS_EmptySet DEF StepsOK, Stage, ShownOK, AtRest, Init
<1>3. WholeCalls!Init
  BY <1>1 DEF AtRest, SameFrame, SameLog, SameProjection, Init, WholeCalls!Init
<1> QED
  BY <1>2, <1>3

(***************************************************************************)
(* Whatever the interleaving with a reader, the calls in their steps do what  *)
(* Engine has them do at once: the safety of Engine is that of the code that   *)
(* takes its locks one by one, at the moments a call or a step of it is done.  *)
(***************************************************************************)
THEOREM StepsImplementCalls == StepsSpec => StepsMakeCalls
<1>1. StepsSpec => []StepsOK
  BY StepsStart, StepsStep, PTL DEF StepsSpec
<1>2. StepsOK /\ [StepsNext]_stepsVars => [shown' # shown => WholeCalls!Next]_shown
  BY StepsStep DEF Whole
<1>3. StepsSpec => [][shown' # shown => WholeCalls!Next]_shown
  BY <1>1, <1>2, PTL DEF StepsSpec
<1>4. StepsSpec => WholeCalls!Init
  BY StepsStart DEF StepsSpec
<1> QED
  BY <1>3, <1>4 DEF StepsMakeCalls

-----------------------------------------------------------------------------
(* What the log and the resolutions hold, between the locks of a call too.    *)

HeldOK ==
  /\ log \in Seq(Record)
  /\ resolutions \subseteq InputResolutions
  /\ doing.at \in {"replace", "refill", "refillGraph"} => doing.res \subseteq InputResolutions

LEMMA LoggedRecord ==
  ASSUME log \in Seq(Record), NEW type, NEW data, [type |-> type, data |-> data] \in Record
  PROVE  /\ Logged(type, data) => log' \in Seq(Record)
         /\ AppendFails(type, data) => log' \in Seq(Record)
BY DEF Logged, AppendFails

LEMMA SetWithin ==
  ASSUME NEW S, NEW res \in SUBSET S, NEW r \in S
  PROVE  SetResolution(res, r) \subseteq S
BY DEF SetResolution

LEMMA HeldStart == StepsInit => HeldOK
BY DEF StepsInit, Init, HeldOK, Ready

LEMMA HeldStep == StepsOK /\ HeldOK /\ [StepsNext]_stepsVars => HeldOK'
<1> SUFFICES ASSUME StepsOK, HeldOK, [StepsNext]_stepsVars PROVE HeldOK'
  OBVIOUS
<1>0. /\ log \in Seq(Record) /\ resolutions \subseteq InputResolutions
      /\ doing.at \in {"replace", "refill", "refillGraph"} => doing.res \subseteq InputResolutions
  BY DEF HeldOK
<1>1. ASSUME log' \in Seq(Record), resolutions' \subseteq InputResolutions,
             doing'.at \notin {"replace", "refill", "refillGraph"}
      PROVE  HeldOK'
  BY <1>1 DEF HeldOK
<1>2. ASSUME UNCHANGED log, resolutions' \subseteq InputResolutions,
             doing' = Ready \/ doing'.res \subseteq InputResolutions
      PROVE  HeldOK'
  BY <1>0, <1>2 DEF HeldOK, Ready
<1>3. ASSUME NEW b \in InputBeliefs, StartIngest(b) PROVE HeldOK'
  BY <1>0, <1>1, <1>3 DEF StartIngest, StepGoesOn, unseen
<1>4. CASE EndIngest
  <2>1. doing.what \in InputBeliefs
    BY <1>4 DEF StepsOK, Stage, AtIngest, EndIngest, Ready
  <2>2. log' \in Seq(Record)
    BY <1>0, <1>4, <2>1, LoggedRecord DEF EndIngest, Record
  <2> QED
    BY <1>0, <1>1, <1>4, <2>2 DEF EndIngest, StepEnds, Ready
<1>5. ASSUME NEW d \in todo, StartDerive(d) PROVE HeldOK'
  BY <1>0, <1>1, <1>5 DEF StartDerive, StepGoesOn, unseen
<1>6. CASE BelieveDerived
  <2>1. doing'.at = "project"
    <3>1. AtDerive
      BY <1>6 DEF StepsOK, Stage, BelieveDerived, Ready
    <3> QED
      BY <1>6, <3>1 DEF AtDerive, BelieveDerived, StepGoesOn
  <2> QED
    BY <1>0, <1>1, <1>6, <2>1 DEF BelieveDerived, unseen
<1>7. CASE EndDerive
  BY <1>0, <1>2, <1>7 DEF EndDerive, StepEnds
<1>8. ASSUME NEW r \in InputResolutions, StartResolve(r) PROVE HeldOK'
  BY <1>0, <1>1, <1>8, SetWithin DEF StartResolve, StepGoesOn, unseen
<1>9. CASE LogResolution \/ ResolutionUnlogged
  <2>1. doing.what \in InputResolutions
    BY <1>9 DEF StepsOK, Stage, AtResolve, LogResolution, ResolutionUnlogged, Ready
  <2>2. log' \in Seq(Record)
    BY <1>0, <1>9, <2>1, LoggedRecord DEF LogResolution, ResolutionUnlogged, Record
  <2>3. resolutions' = resolutions
    BY <1>9 DEF LogResolution, ResolutionUnlogged, memory
  <2>4. doing' = Ready \/ doing'.res = resolutions
    BY <1>9 DEF LogResolution, ResolutionUnlogged, StepEnds, StepGoesOn, Collected
  <2> QED
    BY <1>0, <2>2, <2>3, <2>4 DEF HeldOK, Ready
<1>10. CASE ReplaceStore
  <2>1. doing = [at |-> "replace", store |-> doing.store, base |-> doing.base, res |-> doing.res]
    BY <1>10 DEF StepsOK, Stage, Replacing, ReplaceStore, Ready
  <2>2. doing'.res = doing.res
    BY <1>10, <2>1 DEF ReplaceStore, StepGoesOn
  <2>3. resolutions' = {} \/ resolutions' = resolutions
    BY <1>10 DEF ReplaceStore
  <2> QED
    BY <1>0, <1>2, <1>10, <2>2, <2>3 DEF ReplaceStore, unseen
<1>11. CASE SetAgain
  <2>1. doing = [at |-> "refill", base |-> doing.base, res |-> doing.res]
    BY <1>11 DEF StepsOK, Stage, Refilling, SetAgain, Ready
  <2>2. PICK r \in doing.res : /\ resolutions' = SetResolution(resolutions, r)
                               /\ StepGoesOn([doing EXCEPT !.res = @ \ {r}])
    BY <1>11 DEF SetAgain
  <2>3. doing'.res = doing.res \ {r}
    BY <2>1, <2>2 DEF StepGoesOn
  <2>4. resolutions' \subseteq InputResolutions
    BY <1>0, <1>11, <2>2, SetWithin DEF SetAgain
  <2> QED
    BY <1>0, <1>2, <1>11, <2>3, <2>4 DEF SetAgain, unseen
<1>12. CASE AddAgain
  BY <1>0, <1>2, <1>12 DEF AddAgain, StepGoesOn, unseen
<1>13. CASE ProjectAgain
  BY <1>0, <1>2, <1>13 DEF ProjectAgain, StepGoesOn, unseen
<1>14. CASE EndRecompute
  BY <1>0, <1>2, <1>14 DEF EndRecompute, StepEnds, memory
<1>15. CASE StartReset
  BY <1>0, <1>1, <1>15 DEF StartReset, StepGoesOn, unseen
<1>16. CASE ResetGraph
  <2>1. doing'.at = "reset"
    BY <1>16 DEF StepsOK, Stage, AtReset, ResetGraph, StepGoesOn, Ready
  <2> QED
    BY <1>0, <1>1, <1>16, <2>1 DEF ResetGraph, unseen
<1>17. CASE EndReset
  BY <1>0, <1>2, <1>17 DEF EndReset, StepEnds, StartReplay, ClearStores
<1>18. CASE StartRecord
  BY <1>0, <1>1, <1>18 DEF StartRecord, StepGoesOn, unseen
<1>19. CASE EndRecord
  BY <1>0, <1>2, <1>19 DEF EndRecord, StepEnds
<1>20. CASE StartReplayDone
  <2>1. doing'.res = resolutions
    BY <1>20 DEF StartReplayDone, StepGoesOn, Collected
  <2> QED
    BY <1>0, <1>2, <1>20, <2>1 DEF StartReplayDone, memory
<1>21. CASE WholeStep
  <2>0. doing' = Ready
    BY <1>21 DEF WholeStep, StepEnds
  <2>1. ASSUME NEW r \in InputRules, AddRule(r) \/ AddRuleUnlogged(r) PROVE HeldOK'
    <3>1. log' \in Seq(Record)
      BY <1>0, <2>1, LoggedRecord DEF AddRule, AddRuleUnlogged, Record
    <3> QED
      BY <1>0, <1>1, <2>0, <2>1, <3>1 DEF AddRule, AddRuleUnlogged, Ready
  <2>2. CASE StartRound \/ EvaluateNextRule \/ RuleDone \/ RoundDone \/ ReplayFails
    BY <1>0, <1>2, <2>0, <2>2
       DEF StartRound, EvaluateNextRule, RuleDone, RoundDone, ReplayFails, memory
  <2>3. CASE ReplayRecord
    <3>1. log[next] \in Record
      BY <1>0, <2>3 DEF ReplayRecord
    <3>2. log[next].type = "resolution" => log[next].data \in InputResolutions
      BY <3>1 DEF Record
    <3>3. resolutions' = resolutions
          \/ /\ log[next].type = "resolution"
             /\ resolutions' = SetResolution(resolutions, log[next].data)
      BY <2>3 DEF ReplayRecord
    <3>4. resolutions' \subseteq InputResolutions
      BY <1>0, <3>2, <3>3, SetWithin
    <3> QED
      BY <1>2, <2>0, <2>3, <3>4 DEF ReplayRecord
  <2> QED
    BY <1>21, <2>1, <2>2, <2>3 DEF WholeStep
<1>22. CASE UNCHANGED <<vars, doing, shown>>
  BY <1>22 DEF HeldOK, vars, memory
<1>23. CASE Writes
  BY <1>3, <1>4, <1>5, <1>6, <1>7, <1>8, <1>9, <1>10, <1>11, <1>12, <1>13, <1>14, <1>15, <1>16,
     <1>17, <1>18, <1>19, <1>20, <1>21, <1>23 DEF Writes
<1> QED
  BY <1>22, <1>23 DEF StepsNext, Reads, stepsVars

LEMMA HeldAlways == StepsSpec => [](StepsOK /\ HeldOK)
<1>1. StepsInit => StepsOK /\ HeldOK
  BY StepsStart, HeldStart
<1>2. (StepsOK /\ HeldOK) /\ [StepsNext]_stepsVars => (StepsOK /\ HeldOK)'
  BY StepsStep, HeldStep
<1> QED
  BY <1>1, <1>2, PTL DEF StepsSpec

-----------------------------------------------------------------------------
(* The store of beliefs gets a fact before the graph gets its edge, in every  *)
(* step; while recompute and a replay empty the stores one by one it is not    *)
(* so, and right after it is.                                               *)

NeverAhead == doing.at \notin {"replace", "reset"} => \A a \in graph : Believed(a, "+")

LEMMA EdgesOfBeliefs ==
  ASSUME NeverAhead, doing.at \notin {"replace", "reset"}, beliefs \subseteq beliefs',
         \A a \in graph' \ graph : Believed(a, "+")'
  PROVE  NeverAhead'
BY DEF NeverAhead, Believed

LEMMA PartBelieved ==
  ASSUME NEW b \in beliefs, IngestPart(b, 2)
  PROVE  beliefs' = beliefs /\ \A a \in graph' \ graph : Believed(a, "+")'
BY IngestParts DEF Projected, Believed

LEMMA NeverAheadStep == StepsOK /\ NeverAhead /\ [StepsNext]_stepsVars => NeverAhead'
<1> SUFFICES ASSUME StepsOK, NeverAhead, [StepsNext]_stepsVars PROVE NeverAhead'
  OBVIOUS
<1>1. ASSUME doing.at \notin {"replace", "reset"}, UNCHANGED graph, beliefs \subseteq beliefs'
      PROVE  NeverAhead'
  BY <1>1, EdgesOfBeliefs
<1>2. ASSUME NEW b, IngestPart(b, 1), doing.at \notin {"replace", "reset"} PROVE NeverAhead'
  BY <1>1, <1>2, IngestParts
<1>3. ASSUME NEW b \in beliefs, IngestPart(b, 2), doing.at \notin {"replace", "reset"}
      PROVE  NeverAhead'
  BY <1>3, EdgesOfBeliefs, PartBelieved
<1>4. ASSUME graph' = {} PROVE NeverAhead'
  BY <1>4 DEF NeverAhead
<1>5. ASSUME doing'.at \in {"replace", "reset"} PROVE NeverAhead'
  BY <1>5 DEF NeverAhead
<1>6. ASSUME NEW b \in InputBeliefs, StartIngest(b) PROVE NeverAhead'
  BY <1>2, <1>6 DEF StartIngest, Ready
<1>7. CASE EndIngest
  <2>1. doing.what \in beliefs
    BY <1>7 DEF StepsOK, Stage, AtIngest, EndIngest, Ready
  <2> QED
    BY <1>3, <1>7, <2>1 DEF EndIngest
<1>8. ASSUME NEW d \in todo, StartDerive(d) PROVE NeverAhead'
  BY <1>1, <1>8 DEF StartDerive, DerivePart, Ready
<1>9. CASE BelieveDerived
  BY <1>1, <1>2, <1>9 DEF BelieveDerived, DerivePart
<1>10. CASE EndDerive
  <2>1. ValidAtom(doing.what.then) => DerivedNow(doing.what) \in beliefs
    BY <1>10 DEF StepsOK, Stage, EndDerive, Ready
  <2> QED
    BY <1>1, <1>3, <1>10, <2>1 DEF EndDerive
<1>11. ASSUME NEW r \in InputResolutions, StartResolve(r) PROVE NeverAhead'
  BY <1>1, <1>11 DEF StartResolve, Ready
<1>12. CASE LogResolution \/ StartReplayDone
  BY <1>5, <1>12 DEF LogResolution, StartReplayDone, StepGoesOn, Collected
<1>13. CASE ResolutionUnlogged
  BY <1>1, <1>13 DEF ResolutionUnlogged, memory
<1>14. CASE ReplaceStore
  <2>1. Replacing
    BY <1>14 DEF StepsOK, Stage, ReplaceStore, Ready
  <2>2. CASE doing.store = 3
    BY <1>4, <1>14, <2>1, <2>2 DEF Replacing, ReplaceStore
  <2>3. CASE doing.store # 3
    BY <1>5, <1>14, <2>1, <2>3 DEF Replacing, ReplaceStore, StepGoesOn
  <2> QED
    BY <2>2, <2>3
<1>15. CASE SetAgain
  BY <1>1, <1>15 DEF SetAgain
<1>16. CASE AddAgain
  BY <1>2, <1>16 DEF AddAgain
<1>17. CASE ProjectAgain
  <2>1. doing.what \in beliefs
    BY <1>17 DEF StepsOK, Stage, RefillingGraph, ProjectAgain, Ready
  <2> QED
    BY <1>3, <1>17, <2>1 DEF ProjectAgain
<1>18. CASE EndRecompute
  BY <1>1, <1>18 DEF EndRecompute, memory
<1>19. CASE StartReset
  BY <1>5, <1>19 DEF StartReset, StepGoesOn
<1>20. CASE ResetGraph \/ EndReset
  BY <1>4, <1>20 DEF ResetGraph, EndReset, StartReplay, ClearStores
<1>21. CASE StartRecord
  BY <1>2, <1>21 DEF StartRecord, Ready
<1>22. CASE EndRecord
  <2>1. doing.what \in beliefs
    BY <1>22 DEF StepsOK, Stage, AtRecord, EndRecord, Ready
  <2> QED
    BY <1>3, <1>22, <2>1 DEF EndRecord
<1>23. CASE WholeStep
  <2>1. doing.at \notin {"replace", "reset"}
    BY <1>23 DEF WholeStep, Ready
  <2>2. ASSUME NEW r \in InputRules, AddRule(r) \/ AddRuleUnlogged(r) PROVE NeverAhead'
    BY <1>1, <2>1, <2>2 DEF AddRule, AddRuleUnlogged
  <2>3. CASE StartRound \/ EvaluateNextRule \/ RuleDone \/ RoundDone \/ ReplayFails
    BY <1>1, <2>1, <2>3 DEF StartRound, EvaluateNextRule, RuleDone, RoundDone, ReplayFails, memory
  <2>4. CASE log[next].type # "fact" /\ ReplayRecord
    BY <1>1, <2>1, <2>4 DEF ReplayRecord
  <2> QED
    BY <1>23, <2>2, <2>3, <2>4 DEF WholeStep
<1>24. CASE UNCHANGED <<vars, doing, shown>>
  BY <1>24 DEF NeverAhead, Believed, vars, memory
<1>25. CASE Writes
  BY <1>6, <1>7, <1>8, <1>9, <1>10, <1>11, <1>12, <1>13, <1>14, <1>15, <1>16, <1>17, <1>18, <1>19,
     <1>20, <1>21, <1>22, <1>23, <1>25 DEF Writes
<1> QED
  BY <1>24, <1>25 DEF StepsNext, Reads, stepsVars

(***************************************************************************)
(* An edge a goroutine finds in the graph is a fact the store believes, at     *)
(* every moment of every call that does not rebuild the stores: AddBelief      *)
(* comes before AddEdge in ingestNoLog, on every way there.                 *)
(***************************************************************************)
THEOREM EdgesAreBelieved == StepsSpec => []GraphNeverAhead
<1>1. StepsInit => NeverAhead
  BY DEF StepsInit, Init, NeverAhead
<1>2. StepsSpec => []NeverAhead
  BY <1>1, HeldAlways, NeverAheadStep, PTL DEF StepsSpec
<1>3. NeverAhead => GraphNeverAhead
  BY DEF NeverAhead, GraphNeverAhead, Rebuilding
<1> QED
  BY <1>2, <1>3, PTL

-----------------------------------------------------------------------------
(* A proof is on record before the belief it is of.                         *)

DerivedProved ==
  PlainSources => \A b \in beliefs \ Asserted : \E p \in derivations : p.atom = b.atom

LEMMA ProofsKept ==
  ASSUME DerivedProved, derivations \subseteq derivations',
         PlainSources => \A b \in beliefs' \ beliefs :
                           b.src.rule => \E p \in derivations' : p.atom = b.atom
  PROVE  DerivedProved'
BY DEF DerivedProved, Asserted, PlainSources

LEMMA CallerAdds ==
  ASSUME DerivedProved, NEW b, PlainSources => ~b.src.rule,
         beliefs' \subseteq beliefs \cup {b}, derivations' = derivations
  PROVE  DerivedProved'
BY DEF DerivedProved, Asserted, PlainSources

LEMMA DerivedProvedStep ==
  StepsOK /\ HeldOK /\ DerivedProved /\ [StepsNext]_stepsVars => DerivedProved'
<1> SUFFICES ASSUME StepsOK, HeldOK, DerivedProved, [StepsNext]_stepsVars PROVE DerivedProved'
  OBVIOUS
<1>1. ASSUME derivations' = derivations, beliefs' \subseteq beliefs PROVE DerivedProved'
  BY <1>1 DEF DerivedProved, Asserted
<1>2. ASSUME beliefs' = {} PROVE DerivedProved'
  BY <1>2 DEF DerivedProved
<1>3. ASSUME NEW b \in InputBeliefs, derivations' = derivations, IngestPart(b, 1)
      PROVE  DerivedProved'
  BY <1>3, IngestParts, CallerAdds DEF PlainSources
<1>4. ASSUME NEW b, derivations' = derivations, IngestPart(b, 2) PROVE DerivedProved'
  BY <1>1, <1>4, IngestParts
<1>5. ASSUME NEW b \in InputBeliefs, StartIngest(b) PROVE DerivedProved'
  BY <1>3, <1>5 DEF StartIngest
<1>6. CASE EndIngest
  BY <1>4, <1>6 DEF EndIngest
<1>7. ASSUME NEW d \in todo, StartDerive(d) PROVE DerivedProved'
  BY <1>7, ProofsKept DEF StartDerive, DerivePart, AddDerivation
<1>8. CASE BelieveDerived
  <2>1. ProofOf(doing.what) \in derivations
    BY <1>8 DEF StepsOK, Stage, AtDerive, BelieveDerived, Ready
  <2>2. ProofOf(doing.what).atom = DerivedNow(doing.what).atom
    BY DEF ProofOf, DerivedNow, DerivedBelief
  <2>3. derivations' = derivations /\ beliefs' \subseteq beliefs \cup {DerivedNow(doing.what)}
    <3>1. \/ IngestPart(DerivedNow(doing.what), 1)
          \/ UNCHANGED <<beliefs, graph, semantic>>
      BY <1>8 DEF BelieveDerived, DerivePart
    <3>2. beliefs' \subseteq beliefs \cup {DerivedNow(doing.what)}
      BY <3>1, IngestParts
    <3> QED
      BY <1>8, <3>2 DEF BelieveDerived, DerivePart
  <2> QED
    BY <2>1, <2>2, <2>3, ProofsKept
<1>9. CASE EndDerive
  BY <1>1, <1>4, <1>9 DEF EndDerive
<1>10. ASSUME NEW r \in InputResolutions, StartResolve(r) PROVE DerivedProved'
  BY <1>1, <1>10 DEF StartResolve
<1>11. CASE LogResolution \/ ResolutionUnlogged \/ EndRecompute \/ StartReplayDone
  BY <1>1, <1>11 DEF LogResolution, ResolutionUnlogged, EndRecompute, StartReplayDone, memory
<1>12. CASE ReplaceStore
  <2>1. doing.store > 1 => beliefs = {}
    BY <1>12 DEF StepsOK, Stage, Replacing, ReplaceStore, Ready
  <2> QED
    BY <1>2, <1>12, <2>1 DEF ReplaceStore
<1>13. CASE SetAgain
  BY <1>1, <1>13 DEF SetAgain
<1>14. CASE AddAgain
  <2>1. PICK b \in doing.base : IngestPart(b, 1)
    BY <1>14 DEF AddAgain
  <2>2. ~b.src.rule
    BY <1>14 DEF StepsOK, Stage, AtRecompute, WantedBase, Base, AddAgain, Ready
  <2>3. derivations' = derivations /\ beliefs' = beliefs \cup {b}
    BY <1>14, <2>1, IngestParts DEF AddAgain
  <2> QED
    BY <2>2, <2>3, CallerAdds
<1>15. CASE ProjectAgain
  BY <1>4, <1>15 DEF ProjectAgain
<1>16. CASE StartReset
  BY <1>2, <1>16 DEF StartReset
<1>17. CASE ResetGraph
  BY <1>1, <1>17 DEF ResetGraph
<1>18. CASE EndReset
  BY <1>2, <1>18 DEF EndReset, StartReplay, ClearStores
<1>19. CASE StartRecord
  <2>1. log[next] \in Record /\ log[next].type = "fact"
    BY <1>19 DEF HeldOK, StartRecord
  <2>2. log[next].data \in InputBeliefs
    BY <2>1 DEF Record
  <2> QED
    BY <1>3, <1>19, <2>2 DEF StartRecord
<1>20. CASE EndRecord
  BY <1>4, <1>20 DEF EndRecord
<1>21. CASE WholeStep
  <2>1. ASSUME NEW r \in InputRules, AddRule(r) \/ AddRuleUnlogged(r) PROVE DerivedProved'
    BY <1>1, <2>1 DEF AddRule, AddRuleUnlogged
  <2>2. CASE StartRound \/ EvaluateNextRule \/ RuleDone \/ RoundDone \/ ReplayFails
    BY <1>1, <2>2 DEF StartRound, EvaluateNextRule, RuleDone, RoundDone, ReplayFails, memory
  <2>3. CASE log[next].type # "fact" /\ ReplayRecord
    BY <1>1, <2>3 DEF ReplayRecord
  <2> QED
    BY <1>21, <2>1, <2>2, <2>3 DEF WholeStep
<1>22. CASE UNCHANGED <<vars, doing, shown>>
  BY <1>1, <1>22 DEF vars, memory
<1>23. CASE Writes
  BY <1>5, <1>6, <1>7, <1>8, <1>9, <1>10, <1>11, <1>12, <1>13, <1>14, <1>15, <1>16, <1>17, <1>18,
     <1>19, <1>20, <1>21, <1>23 DEF Writes
<1> QED
  BY <1>22, <1>23 DEF StepsNext, Reads, stepsVars

-----------------------------------------------------------------------------
(* Evaluate, between its locks.                                             *)

Quiet == ~Rebuilding /\ ~Rebuilding'

\* What a step of the writer may do to a reader that no rebuild disturbs.
QuietStep ==
  /\ beliefs \subseteq beliefs' /\ derivations \subseteq derivations'
  /\ UpToDate' => UpToDate /\ doing.at # "resolve"
  /\ \/ resolutions' = resolutions
     \/ doing'.at = "resolve" /\ beliefs' = beliefs

LEMMA QuietWrites == StepsOK /\ Writes /\ Quiet => QuietStep
<1> SUFFICES ASSUME StepsOK, Writes, Quiet PROVE QuietStep
  OBVIOUS
<1>0. /\ doing.at \notin {"replace", "refill", "refillGraph", "reset"} /\ pc # "replay"
      /\ doing'.at \notin {"replace", "refill", "refillGraph", "reset"} /\ pc' # "replay"
  BY DEF Quiet, Rebuilding
<1>1. ASSUME beliefs \subseteq beliefs', derivations \subseteq derivations',
             resolutions' = resolutions, lapses \subseteq lapses', doing.at # "resolve"
      PROVE  QuietStep
  BY <1>1 DEF QuietStep, UpToDate
<1>2. ASSUME NEW b \in InputBeliefs, StartIngest(b) PROVE QuietStep
  BY <1>1, <1>2, IngestParts DEF StartIngest, unseen, Ready
<1>3. CASE EndIngest
  BY <1>1, <1>3, IngestParts DEF EndIngest
<1>4. ASSUME NEW d \in todo, StartDerive(d) PROVE QuietStep
  BY <1>1, <1>4 DEF StartDerive, DerivePart, AddDerivation, unseen, Ready
<1>5. CASE BelieveDerived
  <2>1. derivations' = derivations /\ resolutions' = resolutions /\ lapses' = lapses
    BY <1>5 DEF BelieveDerived, DerivePart, unseen
  <2>2. beliefs \subseteq beliefs' /\ doing.at # "resolve"
    BY <1>5, IngestParts DEF BelieveDerived, DerivePart
  <2> QED
    BY <1>1, <2>1, <2>2
<1>6. CASE EndDerive
  BY <1>1, <1>6, IngestParts DEF EndDerive
<1>7. ASSUME NEW r \in InputResolutions, StartResolve(r) PROVE QuietStep
  BY <1>7 DEF QuietStep, StartResolve, StepGoesOn, UpToDate, unseen, Ready
<1>8. CASE ResolutionUnlogged
  BY <1>8 DEF QuietStep, ResolutionUnlogged, UpToDate, memory
<1>9. ~(LogResolution \/ StartReplayDone \/ StartReset)
  BY <1>0 DEF LogResolution, StartReplayDone, StartReset, StepGoesOn, Collected
<1>10. ~(ReplaceStore \/ SetAgain \/ AddAgain \/ ProjectAgain \/ EndRecompute \/ ResetGraph
           \/ EndReset \/ StartRecord)
  BY <1>0 DEF ReplaceStore, SetAgain, AddAgain, ProjectAgain, EndRecompute, ResetGraph, EndReset,
     StartRecord
<1>11. ~EndRecord
  BY <1>0 DEF StepsOK, Stage, AtRecord, EndRecord, Ready
<1>12. CASE WholeStep
  <2>1. doing.at # "resolve"
    BY <1>12 DEF WholeStep, Ready
  <2>2. ASSUME NEW r \in InputRules, AddRule(r) \/ AddRuleUnlogged(r) PROVE QuietStep
    BY <1>1, <2>1, <2>2 DEF AddRule, AddRuleUnlogged
  <2>3. CASE StartRound
    BY <2>1, <2>3 DEF QuietStep, StartRound, UpToDate, memory
  <2>4. CASE EvaluateNextRule \/ RuleDone \/ RoundDone
    BY <1>1, <2>1, <2>4 DEF EvaluateNextRule, RuleDone, RoundDone, memory
  <2>5. ~(ReplayRecord \/ ReplayFails)
    BY <1>0 DEF ReplayRecord, ReplayFails
  <2> QED
    BY <1>12, <2>2, <2>3, <2>4, <2>5 DEF WholeStep
<1> QED
  BY <1>2, <1>3, <1>4, <1>5, <1>6, <1>7, <1>8, <1>9, <1>10, <1>11, <1>12 DEF Writes

LEMMA ResolvedOnce ==
  ASSUME StepsOK, ~Rebuilding
  PROVE  \A p, q \in resolutions : p.atom = q.atom => p = q
<1>1. \/ shown.resolutions = resolutions
      \/ resolutions = SetResolution(shown.resolutions, doing.what)
  BY DEF StepsOK, Stage, Rebuilding, AtRest, AtIngest, AtDerive, AtResolve, AtRecord
<1> QED
  BY <1>1, OneResolutionSet DEF StepsOK, ShownOK

\* What these polarities amount to.
SaidBy(pols, truth) ==
  \/ pols = {} /\ truth = "unknown"
  \/ pols = {"+"} /\ truth = "true"
  \/ pols = {"-"} /\ truth = "false"
  \/ pols = {"+", "-"} /\ truth = "both"

LEMMA TruthSaid ==
  ASSUME NEW a, NEW t, SaidBy(Evidence(a), t)
  PROVE  Truth(a) = t
<1>1. {"+", "-"} # {"+"} /\ {"+", "-"} # {"-"} /\ {"+"} # {"-"}
  OBVIOUS
<1> QED
  BY <1>1 DEF SaidBy, Truth

Evaluating == reader.call \in {"evaluate", "snapshot", "proofs"} /\ ~during.rebuilt

(***************************************************************************)
(* What Evaluate has found about an atom so far.  Until a resolution enters    *)
(* under it, the atom it found unresolved is still so and its beliefs are the  *)
(* truth.  One that enters has the graph rebuilt or is not logged; until then  *)
(* no belief is added, so what they say was the truth when it entered.      *)
(***************************************************************************)
Found(a) ==
  /\ ~Rebuilding
  /\ UpToDate => Truth(a) \in during.truths
  /\ reader.call = "snapshot" /\ UpToDate
       => /\ ResolutionOf(a) = {} \/ doing.at = "resolve"
          /\ \A t : SaidBy(Polarities(a), t) => t \in during.truths
  /\ reader.call = "proofs"
       => /\ UpToDate => "true" \in during.truths
          /\ Believed(a, "+")

ReaderOK ==
  /\ "call" \in DOMAIN reader
  /\ Evaluating => \E a : /\ reader = [call |-> reader.call, atom |-> a]
                          /\ during = [rebuilt |-> during.rebuilt, truths |-> during.truths]
                          /\ Found(a)

LEMMA SaidUnresolved ==
  ASSUME NEW a, ResolutionOf(a) = {}, NEW t, SaidBy(Polarities(a), t)
  PROVE  Truth(a) = t
<1>1. Evidence(a) = Polarities(a)
  BY DEF ResolutionOf, Evidence, Polarities
<1> QED
  BY <1>1, TruthSaid

LEMMA WriterFound ==
  ASSUME StepsOK, Writes, NEW a, Found(a), ~Rebuilding', reader' = reader,
         during.truths \subseteq during'.truths, Truth(a)' \in during'.truths
  PROVE  Found(a)'
<1>1. QuietStep
  BY QuietWrites DEF Quiet, Found
<1>2. beliefs \subseteq beliefs' /\ (UpToDate' => UpToDate /\ doing.at # "resolve")
  BY <1>1 DEF QuietStep
<1>3. ASSUME reader.call = "snapshot", UpToDate'
      PROVE  /\ ResolutionOf(a)' = {} \/ doing'.at = "resolve"
             /\ \A t : SaidBy(Polarities(a)', t) => t \in during'.truths
  <2>1. /\ ResolutionOf(a) = {}
        /\ \A t : SaidBy(Polarities(a), t) => t \in during.truths
    BY <1>2, <1>3 DEF Found
  <2>2. CASE resolutions' = resolutions
    <3>1. ResolutionOf(a)' = {}
      BY <2>1, <2>2 DEF ResolutionOf
    <3>2. \A t : SaidBy(Polarities(a)', t) => Truth(a)' = t
      <4>1. Evidence(a)' = Polarities(a)'
        BY <3>1 DEF ResolutionOf, Evidence, Polarities
      <4>2. {"+", "-"} # {"+"} /\ {"+", "-"} # {"-"} /\ {"+"} # {"-"}
        OBVIOUS
      <4> QED
        BY <4>1, <4>2 DEF SaidBy, Truth
    <3> QED
      BY <3>1, <3>2
  <2>3. CASE doing'.at = "resolve" /\ beliefs' = beliefs
    <3>1. Polarities(a)' = Polarities(a)
      BY <2>3 DEF Polarities
    <3> QED
      BY <2>1, <2>3, <3>1
  <2> QED
    BY <1>1, <2>2, <2>3 DEF QuietStep
<1>4. ASSUME reader.call = "proofs"
      PROVE  (UpToDate' => "true" \in during'.truths) /\ Believed(a, "+")'
  BY <1>2, <1>4 DEF Found, Believed
<1> QED
  BY <1>3, <1>4 DEF Found

LEMMA WriterKeepsReader ==
  ASSUME StepsOK, ReaderOK, Writes, Overlaps, reader' = reader
  PROVE  ReaderOK'
<1>1. "call" \in DOMAIN reader'
  BY DEF ReaderOK
<1>2. SUFFICES ASSUME Evaluating'
               PROVE  \E a : /\ reader' = [call |-> reader'.call, atom |-> a]
                             /\ during' = [rebuilt |-> during'.rebuilt, truths |-> during'.truths]
                             /\ Found(a)'
  BY <1>1 DEF ReaderOK
<1>3. /\ Reading /\ ~during.rebuilt /\ ~Rebuilding'
      /\ \E a \in {reader.atom} : during' = [during EXCEPT !.truths = @ \cup {Truth(a)'}]
  BY <1>2 DEF Evaluating, Overlaps, Reading, Rebuilt
<1>4. Evaluating
  BY <1>2, <1>3 DEF Evaluating
<1>5. PICK a : /\ reader = [call |-> reader.call, atom |-> a]
               /\ during = [rebuilt |-> during.rebuilt, truths |-> during.truths]
               /\ Found(a)
  BY <1>4 DEF ReaderOK
<1>6. during' = [rebuilt |-> during.rebuilt, truths |-> during.truths \cup {Truth(a)'}]
  <2>1. PICK c \in {reader.atom} : during' = [during EXCEPT !.truths = @ \cup {Truth(c)'}]
    BY <1>3
  <2>2. c = a
    BY <1>5
  <2>3. Truth(c)' = Truth(a)'
    BY <2>2 DEF Truth, Evidence
  <2>4. during' = [during EXCEPT !.truths = @ \cup {Truth(a)'}]
    BY <2>1, <2>3
  <2>5. \A T : [during EXCEPT !.truths = @ \cup T]
                 = [rebuilt |-> during.rebuilt, truths |-> during.truths \cup T]
    BY <1>5
  <2> QED
    BY <2>4, <2>5
<1>7. Found(a)'
  BY <1>3, <1>5, <1>6, WriterFound
<1> QED
  BY <1>5, <1>6, <1>7

LEMMA ReaderGoesOn ==
  ASSUME ReaderOK, Reads
  PROVE  ReaderOK'
<1>1. UNCHANGED <<beliefs, resolutions, lapses, pc, doing>>
  BY DEF Reads, vars, memory
<1>2. /\ Rebuilding' = Rebuilding /\ UpToDate' = UpToDate
      /\ \A a : /\ Truth(a)' = Truth(a) /\ ResolutionOf(a)' = ResolutionOf(a)
                /\ Polarities(a)' = Polarities(a) /\ Believed(a, "+")' = Believed(a, "+")
  BY <1>1 DEF Rebuilding, UpToDate, Truth, Evidence, ResolutionOf, Polarities, Believed
<1>3. ASSUME NEW truth, NEW kind, Answer(truth, kind) PROVE ReaderOK'
  BY <1>3 DEF Answer, ReaderOK, Evaluating
<1>4. CASE AskResolution
  <2>1. CASE ResolutionOf(reader.atom) # {}
    BY <1>3, <1>4, <2>1 DEF AskResolution
  <2>2. CASE ResolutionOf(reader.atom) = {}
    <3>1. reader' = [reader EXCEPT !.call = "snapshot"] /\ during' = during
      BY <1>4, <2>2 DEF AskResolution
    <3>2. CASE during.rebuilt
      BY <3>1, <3>2 DEF ReaderOK, Evaluating
    <3>3. CASE ~during.rebuilt
      <4>1. PICK a : /\ reader = [call |-> reader.call, atom |-> a]
                     /\ during = [rebuilt |-> during.rebuilt, truths |-> during.truths]
                     /\ Found(a)
        BY <1>4, <3>3 DEF AskResolution, Evaluating, ReaderOK
      <4>2. reader' = [call |-> "snapshot", atom |-> a] /\ ResolutionOf(a) = {}
        BY <2>2, <3>1, <4>1
      <4>3. \A t : SaidBy(Polarities(a), t) => Truth(a) = t
        BY <4>2, SaidUnresolved
      <4>4. Found(a)'
        BY <1>1, <1>2, <3>1, <4>1, <4>2, <4>3 DEF Found
      <4> QED
        BY <3>1, <4>1, <4>2, <4>4 DEF ReaderOK
    <3> QED
      BY <3>2, <3>3
  <2> QED
    BY <2>1, <2>2
<1>5. CASE AskSnapshot
  <2>1. CASE Polarities(reader.atom) # {"+"}
    BY <1>3, <1>5, <2>1 DEF AskSnapshot
  <2>2. CASE Polarities(reader.atom) = {"+"}
    <3>1. CASE reader' = [reader EXCEPT !.call = "proofs"] /\ during' = during
      <4>1. CASE during.rebuilt
        BY <3>1, <4>1 DEF ReaderOK, Evaluating
      <4>2. CASE ~during.rebuilt
        <5>1. PICK a : /\ reader = [call |-> reader.call, atom |-> a]
                       /\ during = [rebuilt |-> during.rebuilt, truths |-> during.truths]
                       /\ Found(a)
          BY <1>5, <4>2 DEF AskSnapshot, Evaluating, ReaderOK
        <5>2. reader' = [call |-> "proofs", atom |-> a] /\ Polarities(a) = {"+"}
          BY <2>2, <3>1, <5>1
        <5>3. Believed(a, "+") /\ SaidBy(Polarities(a), "true")
          BY <5>2 DEF Polarities, Believed, SaidBy
        <5>4. Found(a)'
          BY <1>1, <1>2, <1>5, <3>1, <5>1, <5>2, <5>3 DEF Found, AskSnapshot
        <5> QED
          BY <3>1, <5>1, <5>2, <5>4 DEF ReaderOK
      <4> QED
        BY <4>1, <4>2
    <3>2. CASE \E truth, kind : Answer(truth, kind)
      BY <1>3, <3>2
    <3> QED
      BY <1>5, <3>1, <3>2 DEF AskSnapshot
  <2> QED
    BY <2>1, <2>2
<1>6. CASE AskProofs
  BY <1>3, <1>6 DEF AskProofs
<1>7. CASE VisitNext
  <2>1. reader'.call = reader.call /\ DOMAIN reader' = DOMAIN reader /\ reader.call = "explain"
    BY <1>7 DEF VisitNext, ReaderOK
  <2> QED
    BY <2>1 DEF ReaderOK, Evaluating
<1>8. CASE Explained
  BY <1>8 DEF Explained, NoCall, ReaderOK, Evaluating
<1>9. ASSUME NEW a \in Asked, StartEvaluate(a) PROVE ReaderOK'
  <2>1. reader' = [call |-> "evaluate", atom |-> a]
    BY <1>9 DEF StartEvaluate, StartRead
  <2>2. CASE Rebuilding
    BY <1>9, <2>1, <2>2 DEF StartEvaluate, StartRead, Rebuilt, ReaderOK, Evaluating
  <2>3. CASE ~Rebuilding
    <3>1. during' = [rebuilt |-> FALSE, truths |-> {Truth(a)}]
      BY <1>9, <2>3 DEF StartEvaluate, StartRead
    <3>2. Found(a)'
      BY <1>2, <2>1, <2>3, <3>1 DEF Found
    <3> QED
      BY <2>1, <3>1, <3>2 DEF ReaderOK
  <2> QED
    BY <2>2, <2>3
<1>10. ASSUME NEW a \in Roots, NEW depth \in Depths, StartExplain(a, depth) PROVE ReaderOK'
  BY <1>10 DEF StartExplain, StartRead, ReaderOK, Evaluating
<1> QED
  BY <1>4, <1>5, <1>6, <1>7, <1>8, <1>9, <1>10 DEF Reads

LEMMA ReaderStep == StepsOK /\ ReaderOK /\ [StepsNext]_stepsVars => ReaderOK'
<1> SUFFICES ASSUME StepsOK, ReaderOK, [StepsNext]_stepsVars PROVE ReaderOK'
  OBVIOUS
<1>1. CASE UNCHANGED stepsVars
  BY <1>1, ZenonT(60) DEF ReaderOK, Evaluating, Found, Rebuilding, UpToDate, Truth, Evidence, ResolutionOf,
     Polarities, Believed, stepsVars, vars, memory
<1> QED
  BY <1>1, WriterKeepsReader, ReaderGoesOn DEF StepsNext

AnswersOK == StepsOK /\ HeldOK /\ DerivedProved /\ ReaderOK

LEMMA AnswersAlways == StepsSpec => []AnswersOK
<1>1. StepsInit => AnswersOK
  <2>1. StepsInit => DerivedProved
    BY DEF StepsInit, Init, DerivedProved
  <2>2. StepsInit => ReaderOK
    BY DEF StepsInit, NoCall, ReaderOK, Evaluating
  <2> QED
    BY <2>1, <2>2, StepsStart, HeldStart DEF AnswersOK
<1>2. AnswersOK /\ [StepsNext]_stepsVars => AnswersOK'
  BY StepsStep, HeldStep, DerivedProvedStep, ReaderStep DEF AnswersOK
<1> QED
  BY <1>1, <1>2, PTL DEF StepsSpec

\* Only these steps answer.
LEMMA WhoAnswers ==
  ASSUME ReaderOK, [StepsNext]_stepsVars, AnswersNow
  PROVE  AskResolution \/ AskSnapshot \/ AskProofs
<1>1. reader' # reader /\ Reading
  BY DEF AnswersNow, Reading
<1>2. ~VisitNext
  BY DEF VisitNext, AnswersNow, ReaderOK
<1>3. ~Explained
  BY DEF Explained, NoCall, AnswersNow
<1>4. \A call, overlap : ~StartRead(call, overlap)
  BY <1>1 DEF StartRead
<1> QED
  BY <1>1, <1>2, <1>3, <1>4 DEF StepsNext, Reads, StartEvaluate, StartExplain, stepsVars

\* What is answered, and on whose word.
LEMMA Answered ==
  ASSUME AnswersOK, [StepsNext]_stepsVars, AnswersNow, Undisturbed
  PROVE  /\ reader'.truth \in during.truths
         /\ reader'.truth = "true"
              => \/ reader'.kind = "resolution"
                 \/ /\ Believed(reader.atom, "+")
                    /\ reader'.kind = IF ProofsOf(reader.atom) = {} THEN "belief" ELSE "derived"
<1>1. AskResolution \/ AskSnapshot \/ AskProofs
  BY WhoAnswers DEF AnswersOK
<1>2. PICK a : /\ reader = [call |-> reader.call, atom |-> a] /\ Found(a)
  BY <1>1 DEF AnswersOK, ReaderOK, Evaluating, Undisturbed, AskResolution, AskSnapshot, AskProofs
<1>3. reader.atom = a /\ UpToDate
  BY <1>2 DEF Undisturbed
<1>4. ASSUME NEW truth, NEW kind, Answer(truth, kind)
      PROVE  reader'.truth = truth /\ reader'.kind = kind
  BY <1>4 DEF Answer
<1>5. CASE AskResolution
  <2>1. ~(reader' = [reader EXCEPT !.call = "snapshot"])
    BY <1>2 DEF AnswersNow
  <2>2. PICK r \in ResolutionOf(a) :
          Answer(IF r.pol = "+" THEN "true" ELSE "false", "resolution")
    BY <1>3, <1>5, <2>1 DEF AskResolution
  <2>3. r \in resolutions /\ r.atom = a /\ r.pol \in {"+", "-"}
    BY <2>2, InputAssumption DEF ResolutionOf, AnswersOK, HeldOK, Resolution, Polarity
  <2>4. Evidence(a) = {r.pol}
    <3>1. \A s \in resolutions : s.atom = a => s = r
      BY <1>2, <2>3, ResolvedOnce DEF AnswersOK, Found
    <3> QED
      BY <2>3, <3>1 DEF Evidence
  <2>5. Truth(a) = IF r.pol = "+" THEN "true" ELSE "false"
    BY <2>3, <2>4, TruthSaid DEF SaidBy
  <2> QED
    BY <1>2, <1>3, <1>4, <2>2, <2>5 DEF Found
<1>6. CASE AskSnapshot
  <2>1. ~(reader' = [reader EXCEPT !.call = "proofs"])
    BY <1>2 DEF AnswersNow
  <2>2. \E t \in {"both", "false", "unknown"} :
          SaidBy(Polarities(a), t) /\ \E kind : Answer(t, kind)
    BY <1>3, <1>6, <2>1 DEF AskSnapshot, SaidBy
  <2> QED
    BY <1>2, <1>3, <1>4, <1>6, <2>2 DEF Found, AskSnapshot
<1>7. CASE AskProofs
  BY <1>2, <1>3, <1>4, <1>7 DEF Found, AskProofs
<1> QED
  BY <1>1, <1>5, <1>6, <1>7

(***************************************************************************)
(* Evaluate asks for the resolution and for the beliefs under two locks, and   *)
(* its answer was the truth at some moment of the call, whatever another       *)
(* goroutine ingests, derives or resolves meanwhile: as long as no store is    *)
(* rebuilt under it and no resolution is kept in memory alone.              *)
(***************************************************************************)
THEOREM EvaluateWasTrue == StepsSpec => AnswersWereTrue
<1>1. AnswersOK /\ [StepsNext]_stepsVars
        => [AnswersNow /\ Undisturbed => reader'.truth \in during.truths]_stepsVars
  BY Answered
<1> QED
  BY <1>1, AnswersAlways, PTL DEF StepsSpec, AnswersWereTrue

(***************************************************************************)
(* Evaluate does not pass a derived fact for one a caller asserted: whoever    *)
(* meets the belief finds the proof ApplyRules recorded before it.          *)
(***************************************************************************)
THEOREM DerivedAnswersCiteProofs == StepsSpec => AnswersCiteProofs
<1>1. ASSUME AnswersOK, [StepsNext]_stepsVars, AnswersNow, Undisturbed, PlainSources,
             reader'.truth = "true", \A b \in Asserted : b.atom = reader.atom => b.pol = "-"
      PROVE  reader'.kind \in {"derived", "resolution"}
  <2>1. ASSUME Believed(reader.atom, "+") PROVE ProofsOf(reader.atom) # {}
    <3>1. PICK b \in beliefs : b.atom = reader.atom /\ b.pol = "+"
      BY <2>1 DEF Believed
    <3>2. b \notin Asserted
      BY <1>1, <3>1
    <3> QED
      BY <1>1, <3>1, <3>2 DEF AnswersOK, DerivedProved, ProofsOf
  <2> QED
    BY <1>1, <2>1, Answered
<1>2. AnswersOK /\ [StepsNext]_stepsVars
        => [AnswersNow /\ Undisturbed /\ PlainSources /\ reader'.truth = "true"
              /\ (\A b \in Asserted : b.atom = reader.atom => b.pol = "-")
            => reader'.kind \in {"derived", "resolution"}]_stepsVars
  BY <1>1
<1> QED
  BY <1>2, AnswersAlways, PTL DEF StepsSpec, AnswersCiteProofs

-----------------------------------------------------------------------------
(* What the stores hold, between the locks of a call too.                   *)

AtomsOf(bs) == {b.atom : b \in bs}

EdgesOK ==
  /\ graph \subseteq Atom /\ edges \subseteq Atom /\ AtomsOf(beliefs) \subseteq Atom
  /\ doing.at \in {"replace", "refill", "refillGraph"} => AtomsOf(doing.base) \subseteq Atom

TodoOK ==
  /\ rules \in Seq(InputRules)
  /\ pc = "derive" => next \in DOMAIN rules /\ todo \subseteq Derivations(rules[next], edges)

RecordedOK == derivations \subseteq Proof /\ IsFiniteSet(derivations)

StoresOK == EdgesOK /\ TodoOK /\ RecordedOK

LEMMA StoresStart == StepsInit => StoresOK
BY FS_EmptySet DEF StepsInit, Init, StoresOK, EdgesOK, TodoOK, RecordedOK, AtomsOf, Ready

LEMMA TodoStep ==
  ASSUME StepsOK, HeldOK, StoresOK, Writes
  PROVE  TodoOK'
<1>0. TodoOK /\ rules \in Seq(InputRules)
  BY DEF StoresOK, TodoOK
<1>1. ASSUME UNCHANGED <<rules, pc, frame>> PROVE TodoOK'
  BY <1>0, <1>1 DEF TodoOK, frame
<1>2. ASSUME rules' \in Seq(InputRules), pc' # "derive" PROVE TodoOK'
  BY <1>2 DEF TodoOK
<1>3. CASE \/ \E b \in InputBeliefs : StartIngest(b)
           \/ \E d \in todo : StartDerive(d)
           \/ \E r \in InputResolutions : StartResolve(r)
           \/ BelieveDerived \/ ReplaceStore \/ SetAgain \/ AddAgain \/ ProjectAgain
           \/ StartReset \/ ResetGraph \/ StartRecord
  BY <1>1, <1>3 DEF StartIngest, StartDerive, StartResolve, BelieveDerived, ReplaceStore, SetAgain,
     AddAgain, ProjectAgain, StartReset, ResetGraph, StartRecord, unseen
<1>4. CASE EndIngest
  BY <1>0, <1>1, <1>2, <1>4 DEF EndIngest, StartApplyRules
<1>5. CASE EndDerive
  <2>1. rules' = rules
    BY <1>5 DEF EndDerive
  <2>2. pc' = "idle" \/ (UNCHANGED <<pc, edges, next>> /\ todo' \subseteq todo)
    BY <1>5 DEF EndDerive, Return
  <2> QED
    BY <1>0, <2>1, <2>2 DEF TodoOK
<1>6. CASE LogResolution \/ ResolutionUnlogged \/ StartReplayDone
  BY <1>1, <1>6 DEF LogResolution, ResolutionUnlogged, StartReplayDone, memory
<1>7. CASE EndRecompute \/ EndReset
  <2>1. rules' = rules \/ rules' = << >>
    BY <1>7 DEF EndRecompute, EndReset, StartReplay, ClearStores, memory
  <2>2. pc' # "derive"
    BY <1>7 DEF EndRecompute, EndReset, StartReplay, StartApplyRules
  <2>3. << >> \in Seq(InputRules)
    OBVIOUS
  <2> QED
    BY <1>0, <1>2, <2>1, <2>2, <2>3
<1>8. CASE EndRecord
  <2>1. pc = "replay"
    BY <1>8 DEF StepsOK, Stage, AtRecord, EndRecord, Ready
  <2> QED
    BY <1>0, <1>2, <1>8, <2>1 DEF EndRecord
<1>9. CASE WholeStep
  <2>1. ASSUME NEW r \in InputRules, AddRule(r) \/ AddRuleUnlogged(r) PROVE TodoOK'
    <3>1. rules' \in Seq(InputRules)
      BY <1>0, <2>1 DEF AddRule, AddRuleUnlogged
    <3>2. pc' # "derive"
      BY <2>1 DEF AddRule, AddRuleUnlogged, CanCall, StartApplyRules
    <3> QED
      BY <1>2, <3>1, <3>2
  <2>2. CASE EvaluateNextRule
    <3>1. todo' \subseteq Derivations(rules[next], edges)
      BY <2>2 DEF EvaluateNextRule, EvaluateRule
    <3> QED
      BY <1>0, <2>2, <3>1 DEF EvaluateNextRule, TodoOK, memory
  <2>3. CASE StartRound \/ RuleDone \/ RoundDone \/ ReplayFails
    <3>1. rules' = rules
      BY <2>3 DEF StartRound, RuleDone, RoundDone, ReplayFails, memory
    <3>2. pc' # "derive"
      BY <2>3 DEF StartRound, RuleDone, RoundDone, ReplayFails, Return
    <3> QED
      BY <1>0, <1>2, <3>1, <3>2
  <2>4. CASE ReplayRecord
    <3>1. pc' # "derive"
      BY <2>4 DEF ReplayRecord
    <3>2. log[next] \in Record
      BY <2>4 DEF ReplayRecord, HeldOK
    <3>3. rules' = rules \/ (log[next].type = "rule" /\ rules' = Append(rules, log[next].data))
      BY <2>4 DEF ReplayRecord
    <3>4. log[next].type = "rule" => log[next].data \in InputRules
      BY <3>2 DEF Record
    <3> QED
      BY <1>0, <1>2, <3>1, <3>3, <3>4
  <2> QED
    BY <1>9, <2>1, <2>2, <2>3, <2>4 DEF WholeStep
<1> QED
  BY <1>3, <1>4, <1>5, <1>6, <1>7, <1>8, <1>9 DEF Writes

\* The derivation a step adds.
LEMMA TodoTypes ==
  ASSUME StoresOK, pc = "derive", NEW d \in todo
  PROVE  /\ ProofOf(d) \in Proof
         /\ ValidAtom(d.then) => d.then \in Atom
<1>1. rules[next] \in Rule /\ edges \in SUBSET Atom /\ d \in Derivations(rules[next], edges)
  BY InputAssumption DEF StoresOK, TodoOK, EdgesOK
<1>2. /\ d.then \in [from : Term, pred : Term, to : Term] /\ d.prem \in Seq(Atom)
      /\ ValidAtom(d.then) => d.then \in Atom
  BY <1>1, DerivationType
<1>3. rules[next].name \in Token
  BY <1>1 DEF Rule
<1> QED
  BY <1>2, <1>3 DEF ProofOf, Proof

LEMMA RecordedStep ==
  ASSUME StepsOK, StoresOK, Writes
  PROVE  RecordedOK'
<1>1. ASSUME derivations' = derivations \/ derivations' = {} PROVE RecordedOK'
  BY <1>1, FS_EmptySet DEF StoresOK, RecordedOK
<1>2. ASSUME NEW d \in todo, StartDerive(d) PROVE RecordedOK'
  <2>1. derivations' = derivations \cup {ProofOf(d)}
    BY <1>2 DEF StartDerive, DerivePart, AddDerivation, ProofOf
  <2>2. ProofOf(d) \in Proof
    BY <1>2, TodoTypes DEF StartDerive
  <2> QED
    BY <2>1, <2>2, FS_AddElement DEF StoresOK, RecordedOK
<1>3. CASE \/ \E b \in InputBeliefs : StartIngest(b)
           \/ \E r \in InputResolutions : StartResolve(r)
           \/ SetAgain \/ AddAgain \/ ProjectAgain \/ StartReset \/ ResetGraph \/ StartRecord
  BY <1>1, <1>3 DEF StartIngest, StartResolve, SetAgain, AddAgain, ProjectAgain, StartReset,
     ResetGraph, StartRecord
<1>7. CASE BelieveDerived
  BY <1>1, <1>7 DEF BelieveDerived, DerivePart
<1>8. CASE ReplaceStore
  BY <1>1, <1>8 DEF ReplaceStore
<1>4. CASE EndIngest \/ EndDerive \/ EndRecord \/ EndReset
  BY <1>1, <1>4 DEF EndIngest, EndDerive, EndRecord, EndReset, StartReplay, ClearStores
<1>5. CASE LogResolution \/ ResolutionUnlogged \/ StartReplayDone \/ EndRecompute
  BY <1>1, <1>5 DEF LogResolution, ResolutionUnlogged, StartReplayDone, EndRecompute, memory
<1>6. CASE WholeStep
  <2>1. derivations' = derivations
    BY <1>6 DEF WholeStep, AddRule, AddRuleUnlogged, StartRound, EvaluateNextRule, RuleDone,
       RoundDone, ReplayRecord, ReplayFails, memory
  <2> QED
    BY <1>1, <2>1
<1> QED
  BY <1>2, <1>3, <1>4, <1>5, <1>6, <1>7, <1>8 DEF Writes

LEMMA PartEdges ==
  ASSUME NEW b, b.atom \in Atom, EdgesOK
  PROVE  /\ IngestPart(b, 1) => graph' \subseteq Atom /\ AtomsOf(beliefs') \subseteq Atom
         /\ IngestPart(b, 2) => graph' \subseteq Atom /\ AtomsOf(beliefs') \subseteq Atom
<1>1. Projected({b}, resolutions) \subseteq Atom
  BY DEF Projected
<1>2. AtomsOf(beliefs \cup {b}) \subseteq Atom
  BY DEF EdgesOK, AtomsOf
<1> QED
  BY <1>1, <1>2, IngestParts DEF EdgesOK

LEMMA EdgesStep ==
  ASSUME StepsOK, HeldOK, StoresOK, Writes
  PROVE  EdgesOK'
<1>0. /\ EdgesOK /\ graph \subseteq Atom /\ edges \subseteq Atom /\ AtomsOf(beliefs) \subseteq Atom
      /\ AtomsOf({}) \subseteq Atom
      /\ \A b \in InputBeliefs : b.atom \in Atom
  BY InputAssumption DEF StoresOK, EdgesOK, AtomsOf, Belief
<1>1. ASSUME graph' \subseteq Atom, AtomsOf(beliefs') \subseteq Atom, edges' = edges \/ edges' = {},
             doing'.at \notin {"replace", "refill", "refillGraph"} \/ AtomsOf(doing'.base) \subseteq Atom
      PROVE  EdgesOK'
  BY <1>0, <1>1 DEF EdgesOK, AtomsOf
<1>2. Ready.at \notin {"replace", "refill", "refillGraph"}
  BY DEF Ready
<1>3. ASSUME NEW b \in InputBeliefs, StartIngest(b) PROVE EdgesOK'
  <2>1. IngestPart(b, 1) /\ edges' = edges /\ doing'.at = "ingest"
    BY <1>3 DEF StartIngest, StepGoesOn, unseen, frame
  <2> QED
    BY <1>0, <1>1, <2>1, PartEdges
<1>4. CASE EndIngest
  <2>1. doing.what.atom \in Atom
    BY <1>0, <1>4 DEF StepsOK, Stage, AtIngest, EndIngest, Ready
  <2>2. IngestPart(doing.what, 2) /\ (edges' = edges \/ edges' = {}) /\ doing' = Ready
    BY <1>4 DEF EndIngest, StepEnds, StartApplyRules, frame
  <2> QED
    BY <1>0, <1>1, <1>2, <2>1, <2>2, PartEdges
<1>5. ASSUME NEW d \in todo, StartDerive(d) PROVE EdgesOK'
  <2>1. UNCHANGED <<beliefs, graph, edges>> /\ doing'.at = "derive"
    BY <1>5 DEF StartDerive, DerivePart, StepGoesOn, unseen, frame
  <2> QED
    BY <1>0, <1>1, <2>1
<1>6. CASE BelieveDerived \/ EndDerive
  <2>1. doing.what \in todo /\ pc = "derive"
    BY <1>6 DEF StepsOK, Stage, AtDerive, IsFirst, BelieveDerived, EndDerive, Ready
  <2>2. ValidAtom(doing.what.then) => DerivedNow(doing.what).atom \in Atom
    BY <2>1, TodoTypes DEF DerivedNow, DerivedBelief
  <2>3. graph' \subseteq Atom /\ AtomsOf(beliefs') \subseteq Atom
    <3>1. CASE ValidAtom(doing.what.then)
      <4>1. IngestPart(DerivedNow(doing.what), 1) \/ IngestPart(DerivedNow(doing.what), 2)
        BY <1>6, <3>1 DEF BelieveDerived, DerivePart, EndDerive
      <4> QED
        BY <1>0, <2>2, <3>1, <4>1, PartEdges
    <3>2. CASE ~ValidAtom(doing.what.then)
      BY <1>0, <1>6, <3>2 DEF BelieveDerived, DerivePart, EndDerive
    <3> QED
      BY <3>1, <3>2
  <2>4. edges' = edges \/ edges' = {}
    BY <1>6 DEF BelieveDerived, EndDerive, Return, ClearFrame, unseen, frame
  <2>5. doing'.at \notin {"replace", "refill", "refillGraph"}
    <3>1. CASE BelieveDerived
      BY <3>1 DEF StepsOK, Stage, AtDerive, BelieveDerived, StepGoesOn, Ready
    <3>2. CASE EndDerive
      BY <1>2, <3>2 DEF EndDerive, StepEnds
    <3> QED
      BY <1>6, <3>1, <3>2
  <2> QED
    BY <1>1, <2>3, <2>4, <2>5
<1>7. ASSUME NEW r \in InputResolutions, StartResolve(r) PROVE EdgesOK'
  <2>1. UNCHANGED <<beliefs, graph, edges>> /\ doing'.at = "resolve"
    BY <1>7 DEF StartResolve, StepGoesOn, unseen, frame
  <2> QED
    BY <1>0, <1>1, <2>1
<1>8. CASE LogResolution \/ ResolutionUnlogged \/ StartReplayDone
  <2>1. UNCHANGED <<beliefs, graph, edges>>
    BY <1>8 DEF LogResolution, ResolutionUnlogged, StartReplayDone, memory, frame
  <2>2. doing' = Ready \/ doing'.base = Base(beliefs)
    BY <1>8 DEF LogResolution, ResolutionUnlogged, StartReplayDone, StepEnds, StepGoesOn, Collected
  <2>3. AtomsOf(Base(beliefs)) \subseteq Atom
    BY <1>0 DEF AtomsOf, Base
  <2> QED
    BY <1>0, <1>1, <1>2, <2>1, <2>2, <2>3
<1>9. CASE ReplaceStore
  <2>1. doing = [at |-> "replace", store |-> doing.store, base |-> doing.base, res |-> doing.res]
    BY <1>9 DEF StepsOK, Stage, Replacing, ReplaceStore, Ready
  <2>2. doing'.base = doing.base
    BY <1>9, <2>1 DEF ReplaceStore, StepGoesOn
  <2>3. /\ beliefs' = {} \/ beliefs' = beliefs
        /\ graph' = {} \/ graph' = graph
        /\ edges' = edges
    BY <1>9 DEF ReplaceStore, unseen, frame
  <2>4. AtomsOf(doing.base) \subseteq Atom
    BY <1>0, <1>9 DEF ReplaceStore, EdgesOK
  <2> QED
    BY <1>0, <1>1, <2>2, <2>3, <2>4
<1>10. CASE SetAgain
  <2>1. doing = [at |-> "refill", base |-> doing.base, res |-> doing.res]
    BY <1>10 DEF StepsOK, Stage, Refilling, SetAgain, Ready
  <2>2. doing'.base = doing.base
    BY <1>10, <2>1 DEF SetAgain, StepGoesOn
  <2>3. UNCHANGED <<beliefs, graph, edges>>
    BY <1>10 DEF SetAgain, unseen, frame
  <2>4. AtomsOf(doing.base) \subseteq Atom
    BY <1>0, <1>10 DEF SetAgain, EdgesOK
  <2> QED
    BY <1>0, <1>1, <2>2, <2>3, <2>4
<1>11. CASE AddAgain
  <2>1. PICK b \in doing.base : /\ IngestPart(b, 1)
                                /\ StepGoesOn([at |-> "refillGraph", what |-> b,
                                               base |-> doing.base \ {b}, res |-> doing.res])
    BY <1>11 DEF AddAgain
  <2>2. AtomsOf(doing.base) \subseteq Atom
    BY <1>0, <1>11 DEF AddAgain, EdgesOK
  <2>3. b.atom \in Atom /\ AtomsOf(doing'.base) \subseteq Atom
    BY <2>1, <2>2 DEF AtomsOf, StepGoesOn
  <2>4. edges' = edges
    BY <1>11 DEF AddAgain, unseen, frame
  <2> QED
    BY <1>0, <1>1, <2>1, <2>3, <2>4, PartEdges
<1>12. CASE ProjectAgain
  <2>1. doing.what \in beliefs
    BY <1>12 DEF StepsOK, Stage, RefillingGraph, ProjectAgain, Ready
  <2>2. doing.what.atom \in Atom /\ IngestPart(doing.what, 2) /\ edges' = edges
    BY <1>0, <1>12, <2>1 DEF AtomsOf, ProjectAgain, unseen, frame
  <2>3. AtomsOf(doing'.base) \subseteq Atom
    BY <1>0, <1>12 DEF ProjectAgain, StepGoesOn, EdgesOK
  <2> QED
    BY <1>0, <1>1, <2>2, <2>3, PartEdges
<1>13. CASE EndRecompute
  BY <1>0, <1>1, <1>2, <1>13 DEF EndRecompute, StepEnds, StartApplyRules, memory
<1>14. CASE StartReset
  BY <1>0, <1>1, <1>14 DEF StartReset, StepGoesOn, unseen, frame
<1>15. CASE ResetGraph
  <2>1. doing'.at = "reset"
    BY <1>15 DEF StepsOK, Stage, AtReset, ResetGraph, StepGoesOn, Ready
  <2> QED
    BY <1>0, <1>1, <1>15, <2>1 DEF ResetGraph, unseen, frame
<1>16. CASE EndReset
  BY <1>0, <1>1, <1>2, <1>16 DEF EndReset, StepEnds, StartReplay, ClearStores
<1>17. CASE StartRecord
  <2>1. log[next] \in Record /\ log[next].type = "fact"
    BY <1>17 DEF HeldOK, StartRecord
  <2>2. log[next].data.atom \in Atom
    BY <1>0, <2>1 DEF Record
  <2>3. IngestPart(log[next].data, 1) /\ edges' = edges /\ doing'.at = "record"
    BY <1>17 DEF StartRecord, StepGoesOn, unseen, frame
  <2> QED
    BY <1>0, <1>1, <2>2, <2>3, PartEdges
<1>18. CASE EndRecord
  <2>1. next \in DOMAIN log /\ log[next].type = "fact" /\ log[next].data = doing.what
    BY <1>18 DEF StepsOK, Stage, AtRecord, EndRecord, Ready
  <2>2. doing.what \in InputBeliefs
    BY <2>1 DEF HeldOK, Record
  <2>3. IngestPart(doing.what, 2) /\ edges' = edges /\ doing' = Ready
    BY <1>18 DEF EndRecord, StepEnds
  <2> QED
    BY <1>0, <1>1, <1>2, <2>2, <2>3, PartEdges
<1>19. CASE WholeStep
  <2>0. doing' = Ready
    BY <1>19 DEF WholeStep, StepEnds
  <2>1. CASE StartRound
    BY <1>0, <1>2, <2>0, <2>1 DEF StartRound, EdgesOK, memory
  <2>2. UNCHANGED <<beliefs, graph>>
    BY <1>19 DEF WholeStep, AddRule, AddRuleUnlogged, StartRound, EvaluateNextRule, RuleDone,
       RoundDone, ReplayRecord, ReplayFails, memory
  <2>3. StartRound \/ edges' = edges \/ edges' = {}
    BY <1>19 DEF WholeStep, AddRule, AddRuleUnlogged, EvaluateNextRule, RuleDone,
       RoundDone, ReplayRecord, ReplayFails, StartApplyRules, Return, ClearFrame, frame
  <2> QED
    BY <1>0, <1>1, <1>2, <2>0, <2>1, <2>2, <2>3
<1> QED
  BY <1>3, <1>4, <1>5, <1>6, <1>7, <1>8, <1>9, <1>10, <1>11, <1>12, <1>13, <1>14, <1>15, <1>16,
     <1>17, <1>18, <1>19 DEF Writes

LEMMA StoresStep == StepsOK /\ HeldOK /\ StoresOK /\ [StepsNext]_stepsVars => StoresOK'
<1> SUFFICES ASSUME StepsOK, HeldOK, StoresOK, [StepsNext]_stepsVars PROVE StoresOK'
  OBVIOUS
<1>1. CASE Writes
  BY <1>1, TodoStep, RecordedStep, EdgesStep DEF StoresOK
<1>2. CASE UNCHANGED <<vars, doing, shown>>
  BY <1>2 DEF StoresOK, EdgesOK, TodoOK, RecordedOK, AtomsOf, vars, memory, frame
<1> QED
  BY <1>1, <1>2 DEF StepsNext, Reads, stepsVars

-----------------------------------------------------------------------------
(* The proofs of an atom, in the order derivationsFor finds them.            *)

LEMMA AtomIs ==
  ASSUME NEW a \in Atom
  PROVE  /\ a.from \in Int /\ a.pred \in Int /\ a.to \in Int
         /\ \A b \in Atom : a.from = b.from /\ a.pred = b.pred /\ a.to = b.to => a = b
<1>1. Token \subseteq Int
  BY NamesAssumption
<1>2. a.from \in Token /\ a.pred \in Token /\ a.to \in Token
  BY DEF Atom
<1>3. \A b \in Atom : a.from = b.from /\ a.pred = b.pred /\ a.to = b.to => a = b
  BY DEF Atom
<1> QED
  BY <1>1, <1>2, <1>3

LEMMA AtomBefore ==
  ASSUME NEW a \in Atom, NEW b \in Atom
  PROVE  ~AtomLess(a, a) /\ (a = b \/ AtomLess(a, b) \/ AtomLess(b, a))
<1>1. /\ a.from \in Int /\ a.pred \in Int /\ a.to \in Int
      /\ b.from \in Int /\ b.pred \in Int /\ b.to \in Int
  BY AtomIs
<1>2. a.from = b.from /\ a.pred = b.pred /\ a.to = b.to => a = b
  BY AtomIs
<1> QED
  BY <1>1, <1>2 DEF AtomLess

LEMMA AtomsBefore ==
  ASSUME NEW a \in Atom, NEW b \in Atom, NEW c \in Atom, AtomLess(a, b), AtomLess(b, c)
  PROVE  AtomLess(a, c)
<1>1. /\ a.from \in Int /\ a.pred \in Int /\ a.to \in Int
      /\ b.from \in Int /\ b.pred \in Int /\ b.to \in Int
      /\ c.from \in Int /\ c.pred \in Int /\ c.to \in Int
  BY AtomIs
<1> QED
  BY <1>1 DEF AtomLess

\* Where two lists come apart: at an atom, or where one of them ends.
LEMMA ListsDiffer ==
  ASSUME NEW p \in Seq(Atom), NEW q \in Seq(Atom)
  PROVE  ~ListBefore(p, p) /\ (p = q \/ ListBefore(p, q) \/ ListBefore(q, p))
<1>1. /\ Len(p) \in Nat /\ DOMAIN p = 1 .. Len(p) /\ \A k \in DOMAIN p : p[k] \in Atom
      /\ Len(q) \in Nat /\ DOMAIN q = 1 .. Len(q) /\ \A k \in DOMAIN q : q[k] \in Atom
  OBVIOUS
<1>2. ~ListBefore(p, p)
  BY <1>1, AtomBefore DEF ListBefore
<1> DEFINE apart == {k \in DOMAIN p \cap DOMAIN q : p[k] # q[k]}
<1>3. CASE apart # {}
  <2>1. apart \in SUBSET Nat
    BY <1>1
  <2>2. PICK k \in apart : \A i \in apart : k <= i
    BY <1>3, <2>1, LeastNumber
  <2>3. \A j \in 1 .. k - 1 : p[j] = q[j]
    BY <1>1, <2>2
  <2>4. AtomLess(p[k], q[k]) \/ AtomLess(q[k], p[k])
    BY <1>1, <2>2, AtomBefore
  <2>5. k \in DOMAIN p \cap DOMAIN q /\ k \in DOMAIN q \cap DOMAIN p
    BY <2>2
  <2>6. ListBefore(p, q) \/ ListBefore(q, p)
    BY <2>3, <2>4, <2>5 DEF ListBefore
  <2> QED
    BY <1>2, <2>6
<1>4. CASE apart = {}
  <2>1. \A k \in DOMAIN p \cap DOMAIN q : p[k] = q[k]
    BY <1>4
  <2>2. CASE Len(p) = Len(q)
    <3>1. DOMAIN p = DOMAIN q /\ \A k \in DOMAIN p : p[k] = q[k]
      BY <1>1, <2>1, <2>2
    <3>2. p = q
      BY <3>1
    <3> QED
      BY <1>2, <3>2
  <2>3. CASE Len(p) < Len(q)
    BY <1>1, <1>2, <2>1, <2>3 DEF ListBefore
  <2>4. CASE Len(q) < Len(p)
    BY <1>1, <1>2, <2>1, <2>4 DEF ListBefore
  <2>5. Len(p) = Len(q) \/ Len(p) < Len(q) \/ Len(q) < Len(p)
    <3>1. \A m, n \in Nat : m = n \/ m < n \/ n < m
      OBVIOUS
    <3>2. Len(p) \in Nat /\ Len(q) \in Nat
      BY <1>1
    <3> QED
      BY <3>1, <3>2, Zenon
  <2> QED
    BY <2>2, <2>3, <2>4, <2>5
<1> QED
  BY <1>2, <1>3, <1>4

LEMMA ListsChain ==
  ASSUME NEW p \in Seq(Atom), NEW q \in Seq(Atom), NEW s \in Seq(Atom),
         ListBefore(p, q), ListBefore(q, s)
  PROVE  ListBefore(p, s)
<1>1. /\ Len(p) \in Nat /\ DOMAIN p = 1 .. Len(p) /\ \A k \in DOMAIN p : p[k] \in Atom
      /\ Len(q) \in Nat /\ DOMAIN q = 1 .. Len(q) /\ \A k \in DOMAIN q : q[k] \in Atom
      /\ Len(s) \in Nat /\ DOMAIN s = 1 .. Len(s) /\ \A k \in DOMAIN s : s[k] \in Atom
  OBVIOUS
<1>2. ASSUME NEW k \in DOMAIN p \cap DOMAIN q, AtomLess(p[k], q[k]), \A j \in 1 .. k - 1 : p[j] = q[j],
             NEW l \in DOMAIN q \cap DOMAIN s, AtomLess(q[l], s[l]), \A j \in 1 .. l - 1 : q[j] = s[j]
      PROVE  ListBefore(p, s)
  <2>1. k \in Nat /\ l \in Nat /\ k \in 1 .. Len(p) /\ k \in 1 .. Len(q) /\ l \in 1 .. Len(q) /\ l \in 1 .. Len(s)
    BY <1>1
  <2>2. CASE k < l
    <3>1. k \in DOMAIN s /\ AtomLess(p[k], s[k]) /\ \A j \in 1 .. k - 1 : p[j] = s[j]
      BY <1>1, <1>2, <2>1, <2>2
    <3> QED
      BY <3>1 DEF ListBefore
  <2>3. CASE k = l
    <3>1. AtomLess(p[k], s[k]) /\ \A j \in 1 .. k - 1 : p[j] = s[j]
      BY <1>1, <1>2, <2>3, AtomsBefore
    <3> QED
      BY <2>3, <3>1 DEF ListBefore
  <2>4. CASE l < k
    <3>1. l \in DOMAIN p /\ AtomLess(p[l], s[l]) /\ \A j \in 1 .. l - 1 : p[j] = s[j]
      BY <1>1, <1>2, <2>1, <2>4
    <3> QED
      BY <3>1 DEF ListBefore
  <2> QED
    BY <2>1, <2>2, <2>3, <2>4
<1>3. ASSUME NEW k \in DOMAIN p \cap DOMAIN q, AtomLess(p[k], q[k]), \A j \in 1 .. k - 1 : p[j] = q[j],
             Len(q) < Len(s), \A i \in DOMAIN q : q[i] = s[i]
      PROVE  ListBefore(p, s)
  <2>1. k \in DOMAIN s /\ AtomLess(p[k], s[k]) /\ \A j \in 1 .. k - 1 : p[j] = s[j]
    BY <1>1, <1>3
  <2> QED
    BY <2>1 DEF ListBefore
<1>4. ASSUME Len(p) < Len(q), \A i \in DOMAIN p : p[i] = q[i],
             NEW l \in DOMAIN q \cap DOMAIN s, AtomLess(q[l], s[l]), \A j \in 1 .. l - 1 : q[j] = s[j]
      PROVE  ListBefore(p, s)
  <2>1. CASE l <= Len(p)
    <3>1. l \in DOMAIN p /\ AtomLess(p[l], s[l]) /\ \A j \in 1 .. l - 1 : p[j] = s[j]
      BY <1>1, <1>4, <2>1
    <3> QED
      BY <3>1 DEF ListBefore
  <2>2. CASE ~(l <= Len(p))
    <3>1. Len(p) < Len(s) /\ \A i \in DOMAIN p : p[i] = s[i]
      BY <1>1, <1>4, <2>2
    <3> QED
      BY <3>1 DEF ListBefore
  <2> QED
    BY <2>1, <2>2
<1>5. ASSUME Len(p) < Len(q), \A i \in DOMAIN p : p[i] = q[i],
             Len(q) < Len(s), \A i \in DOMAIN q : q[i] = s[i]
      PROVE  ListBefore(p, s)
  <2>1. Len(p) < Len(s) /\ \A i \in DOMAIN p : p[i] = s[i]
    BY <1>1, <1>5
  <2> QED
    BY <2>1 DEF ListBefore
<1> QED
  BY <1>2, <1>3, <1>4, <1>5 DEF ListBefore

LEMMA ProofsOrdered ==
  ASSUME NEW ps \in SUBSET Proof, \A p, q \in ps : p.atom = q.atom
  PROVE  Orders(OrderOn(ps, ProofBefore), ps)
<1>1. \A p \in Proof : p.rule \in Int /\ p.prem \in Seq(Atom)
  <2>1. Token \subseteq Int
    BY NamesAssumption
  <2> QED
    BY <2>1 DEF Proof
<1>2. \A p, q \in Proof : p.atom = q.atom /\ p.rule = q.rule /\ p.prem = q.prem => p = q
  BY DEF Proof
<1>3. ASSUME NEW p \in ps, NEW q \in ps
      PROVE  ~ProofBefore(p, p) /\ (p = q \/ ProofBefore(p, q) \/ ProofBefore(q, p))
  <2>1. /\ p.rule \in Int /\ p.prem \in Seq(Atom) /\ q.rule \in Int /\ q.prem \in Seq(Atom)
        /\ p.rule = q.rule /\ p.prem = q.prem => p = q
    BY <1>1, <1>2
  <2>2. ~ListBefore(p.prem, p.prem)
        /\ (p.prem = q.prem \/ ListBefore(p.prem, q.prem) \/ ListBefore(q.prem, p.prem))
    BY <2>1, ListsDiffer
  <2> QED
    BY <2>1, <2>2 DEF ProofBefore
<1>4. ASSUME NEW p \in ps, NEW q \in ps, NEW s \in ps, ProofBefore(p, q), ProofBefore(q, s)
      PROVE  ProofBefore(p, s)
  <2>1. /\ p.rule \in Int /\ p.prem \in Seq(Atom) /\ q.rule \in Int /\ q.prem \in Seq(Atom)
        /\ s.rule \in Int /\ s.prem \in Seq(Atom)
    BY <1>1
  <2>2. ListBefore(p.prem, q.prem) /\ ListBefore(q.prem, s.prem) => ListBefore(p.prem, s.prem)
    BY <2>1, ListsChain
  <2> QED
    BY <1>4, <2>1, <2>2 DEF ProofBefore
<1>5. \A p, q : <<p, q>> \in OrderOn(ps, ProofBefore) <=> p \in ps /\ q \in ps /\ ProofBefore(p, q)
  BY DEF OrderOn
<1> HIDE DEF ProofBefore
<1> QED
  BY <1>3, <1>4, <1>5 DEF Orders

\* The premises these proofs give an atom, and the edges to them.
ProofsIn(ds, a)   == {p \in ds : p.atom = a}
PremisesIn(ds, a) == UNION {Range(p.prem) : p \in ProofsIn(ds, a)}
EdgesIn(ds, a)    == UNION {{<<a, x, p.rule>> : x \in Range(p.prem)} : p \in ProofsIn(ds, a)}

LEMMA ProofsInMore ==
  ASSUME NEW ds, NEW es, ds \subseteq es, NEW a
  PROVE  PremisesIn(ds, a) \subseteq PremisesIn(es, a) /\ EdgesIn(ds, a) \subseteq EdgesIn(es, a)
<1>1. ProofsIn(ds, a) \subseteq ProofsIn(es, a)
  BY DEF ProofsIn
<1> QED
  BY <1>1 DEF PremisesIn, EdgesIn

LEMMA PremisesTyped ==
  ASSUME NEW ds \in SUBSET Proof, NEW a
  PROVE  PremisesIn(ds, a) \subseteq Atom
<1>1. \A p \in ds : p.prem \in Seq(Atom)
  BY DEF Proof
<1>2. \A p \in ds : Range(p.prem) \subseteq Atom
  BY <1>1 DEF Range
<1> QED
  BY <1>2 DEF PremisesIn, ProofsIn

\* derivationsFor gives every premise of every proof.
LEMMA PremisesFound ==
  ASSUME RecordedOK, NEW a
  PROVE  /\ Premises(a) \in Seq(Atom) /\ Range(Premises(a)) = PremisesIn(derivations, a)
         /\ PremiseEdges(a) = EdgesIn(derivations, a)
<1> DEFINE ps == ProofsOf(a)
           sorted == SetSorted(ps, ProofBefore)
           lists == [i \in DOMAIN sorted |-> sorted[i].prem]
<1>1. ps \in SUBSET Proof /\ IsFiniteSet(ps) /\ ps = ProofsIn(derivations, a)
  BY FS_Subset DEF RecordedOK, ProofsOf, ProofsIn
<1>2. \A p, q \in ps : p.atom = q.atom
  BY DEF ProofsOf
<1>3. Orders(OrderOn(ps, ProofBefore), ps)
  BY <1>1, <1>2, ProofsOrdered
<1>4. sorted = RankedBy(OrderOn(ps, ProofBefore), ps)
  BY DEF SetSorted
<1>5. Lists(sorted, OrderOn(ps, ProofBefore), ps)
  BY <1>1, <1>3, <1>4, SortedLists
<1>6. /\ DOMAIN sorted = 1 .. Len(sorted) /\ Len(sorted) \in Nat
      /\ \A n \in DOMAIN sorted : sorted[n] \in ps
      /\ \A p \in ps : \E n \in DOMAIN sorted : sorted[n] = p
  BY <1>5, ListIs
<1> HIDE DEF sorted, ps
<1>7. lists \in Seq(Seq(Atom)) /\ DOMAIN lists = DOMAIN sorted
  <2>1. \A n \in DOMAIN sorted : sorted[n].prem \in Seq(Atom)
    BY <1>1, <1>6 DEF Proof
  <2> QED
    BY <1>6, <2>1
<1>8. FlattenSeq(lists) \in Seq(Atom)
      /\ Range(FlattenSeq(lists)) = UNION {Range(lists[i]) : i \in DOMAIN lists}
  BY <1>7, FlatMembers
<1>9. Premises(a) = FlattenSeq(lists)
  BY DEF Premises, sorted, ps
<1>10. {Range(lists[i]) : i \in DOMAIN lists} = {Range(p.prem) : p \in ps}
  <2>1. \A i \in DOMAIN lists : Range(lists[i]) = Range(sorted[i].prem)
    BY <1>7
  <2> HIDE DEF lists
  <2>2. {Range(lists[i]) : i \in DOMAIN lists} = {Range(sorted[i].prem) : i \in DOMAIN sorted}
    BY <1>7, <2>1
  <2> QED
    BY <1>6, <2>2
<1>11. PremiseEdges(a) = EdgesIn(derivations, a)
  BY DEF PremiseEdges, EdgesIn, ProofsOf, ProofsIn
<1> HIDE DEF lists
<1> QED
  BY <1>1, <1>8, <1>9, <1>10, <1>11 DEF PremisesIn

-----------------------------------------------------------------------------
(* The atoms proofs lead to, step by step.                                  *)

ReachTo(f, ds, a, n) ==
  f = [d \in 0 .. n |->
         IF d = 0 THEN {a}
         ELSE f[d - 1] \cup UNION {Range(p.prem) : p \in {q \in ds : q.atom \in f[d - 1]}}]

\* One step further.
Further(ds, S) == S \cup UNION {Range(p.prem) : p \in {q \in ds : q.atom \in S}}

Reach(ds, a, n) == (CHOOSE f : ReachTo(f, ds, a, n))[n]

LEMMA ReachedIs == \A a, n : Reached(a, n) = Reach(derivations, a, n)
BY DEF Reached, Reach, ReachTo

Walks(f, ds, a, n) == f[0] = {a} /\ \A d \in 1 .. n : f[d] = Further(ds, f[d - 1])

LEMMA ReachToMade ==
  ASSUME NEW ds, NEW a, NEW n \in Nat, NEW f, f = [d \in 0 .. n |-> f[d]], Walks(f, ds, a, n)
  PROVE  ReachTo(f, ds, a, n)
<1> DEFINE val(d) == IF d = 0 THEN {a} ELSE Further(ds, f[d - 1])
<1>1. \A d \in 0 .. n : d = 0 \/ (d \in 1 .. n /\ d # 0)
  OBVIOUS
<1>2. \A d \in 0 .. n : f[d] = val(d)
  BY <1>1 DEF Walks
<1>3. f = [d \in 0 .. n |-> val(d)]
  BY <1>2
<1> QED
  BY <1>3 DEF ReachTo, Further

LEMMA ReachToGives ==
  ASSUME NEW ds, NEW a, NEW n \in Nat, NEW f, ReachTo(f, ds, a, n)
  PROVE  Walks(f, ds, a, n)
<1> DEFINE val(d) == IF d = 0 THEN {a} ELSE Further(ds, f[d - 1])
<1>1. f = [d \in 0 .. n |-> val(d)]
  BY DEF ReachTo, Further
<1>2. 0 \in 0 .. n /\ \A d \in 1 .. n : d \in 0 .. n /\ d # 0
  OBVIOUS
<1>3. val(0) = {a} /\ \A d \in 1 .. n : val(d) = Further(ds, f[d - 1])
  BY <1>2
<1> HIDE DEF val
<1> QED
  BY <1>1, <1>2, <1>3 DEF Walks

LEMMA ReachExists ==
  ASSUME NEW ds, NEW a
  PROVE  \A n \in Nat : \E f : ReachTo(f, ds, a, n)
<1> DEFINE none == {n \in Nat : ~\E f : ReachTo(f, ds, a, n)}
<1> SUFFICES ASSUME none # {} PROVE FALSE
  OBVIOUS
<1>1. PICK n \in none : \A i \in none : n <= i
  BY LeastNumber
<1>2. n \in Nat /\ ~\E f : ReachTo(f, ds, a, n)
  BY <1>1
<1>3. n # 0
  <2> DEFINE g == [d \in 0 .. 0 |-> {a}]
  <2>1. g = [d \in 0 .. 0 |-> g[d]] /\ g[0] = {a} /\ 1 .. 0 = {}
    OBVIOUS
  <2>2. ReachTo(g, ds, a, 0)
    BY <2>1, ReachToMade DEF Walks
  <2> QED
    BY <1>2, <2>2
<1>4. n - 1 \in Nat /\ n - 1 \notin none
  BY <1>1, <1>2, <1>3
<1>5. PICK f : ReachTo(f, ds, a, n - 1)
  BY <1>4
<1>6. /\ f[0] = {a} /\ \A d \in 1 .. n - 1 : f[d] = Further(ds, f[d - 1])
  BY <1>4, <1>5, ReachToGives DEF Walks
<1> DEFINE g == [d \in 0 .. n |-> IF d = n THEN Further(ds, f[n - 1]) ELSE f[d]]
<1>7. /\ g = [d \in 0 .. n |-> g[d]] /\ g[n] = Further(ds, f[n - 1])
      /\ \A d \in 0 .. n - 1 : g[d] = f[d]
  BY <1>2
<1>8. g[0] = {a}
  BY <1>2, <1>3, <1>6, <1>7
<1> HIDE DEF g
<1>9. \A d \in 1 .. n : g[d] = Further(ds, g[d - 1])
  <2>1. \A d \in 1 .. n : d - 1 \in 0 .. n - 1 /\ (d = n \/ (d \in 1 .. n - 1 /\ d \in 0 .. n - 1))
    BY <1>2
  <2> QED
    BY <1>6, <1>7, <2>1
<1>10. ReachTo(g, ds, a, n)
  BY <1>2, <1>7, <1>8, <1>9, ReachToMade DEF Walks
<1> QED
  BY <1>2, <1>10

LEMMA ReachOne ==
  ASSUME NEW ds, NEW a, NEW m \in Nat, NEW n \in Nat, m <= n,
         NEW f, ReachTo(f, ds, a, m), NEW g, ReachTo(g, ds, a, n)
  PROVE  \A k \in 0 .. m : f[k] = g[k]
<1> DEFINE bad == {k \in 0 .. m : f[k] # g[k]}
<1> SUFFICES ASSUME bad # {} PROVE FALSE
  OBVIOUS
<1>1. bad \in SUBSET Nat
  OBVIOUS
<1>2. PICK k \in bad : \A i \in bad : k <= i
  BY <1>1, LeastNumber
<1>3. /\ f[0] = {a} /\ \A d \in 1 .. m : f[d] = Further(ds, f[d - 1])
      /\ g[0] = {a} /\ \A d \in 1 .. n : g[d] = Further(ds, g[d - 1])
  <2>1. Walks(f, ds, a, m) /\ Walks(g, ds, a, n)
    BY ReachToGives
  <2> QED
    BY <2>1 DEF Walks
<1>4. k \in 0 .. m /\ f[k] # g[k] /\ k # 0
  BY <1>2, <1>3
<1>5. k \in 1 .. m /\ k \in 1 .. n /\ k - 1 \in 0 .. m /\ ~(k <= k - 1)
  BY <1>4
<1>6. f[k - 1] = g[k - 1]
  BY <1>2, <1>5
<1> QED
  BY <1>3, <1>4, <1>5, <1>6

LEMMA ReachNext ==
  ASSUME NEW ds, NEW a, NEW n \in Nat, NEW k \in Nat, k = n + 1,
         NEW f, ReachTo(f, ds, a, n), NEW g, ReachTo(g, ds, a, k)
  PROVE  g[k] = Further(ds, f[n])
<1>1. k \in 1 .. k /\ n <= k /\ n \in 0 .. n /\ k - 1 = n
  OBVIOUS
<1>2. f[n] = g[n]
  BY <1>1, ReachOne
<1>3. g[0] = {a} /\ \A d \in 1 .. k : g[d] = Further(ds, g[d - 1])
  <2>1. Walks(g, ds, a, k)
    BY ReachToGives
  <2> QED
    BY <2>1 DEF Walks
<1> QED
  BY <1>1, <1>2, <1>3

LEMMA ReachIs ==
  ASSUME NEW ds, NEW a
  PROVE  /\ Reach(ds, a, 0) = {a}
         /\ \A n \in Nat : Reach(ds, a, n + 1) = Further(ds, Reach(ds, a, n))
<1> DEFINE walk(n) == CHOOSE f : ReachTo(f, ds, a, n)
<1>1. \A n \in Nat : ReachTo(walk(n), ds, a, n) /\ Reach(ds, a, n) = walk(n)[n]
  BY ReachExists DEF Reach
<1> HIDE DEF walk
<1>2. Reach(ds, a, 0) = {a}
  <2>1. 0 \in Nat
    OBVIOUS
  <2>2. ReachTo(walk(0), ds, a, 0) /\ Reach(ds, a, 0) = walk(0)[0]
    BY <1>1, <2>1
  <2>3. PICK f : f = walk(0)
    OBVIOUS
  <2>4. ReachTo(f, ds, a, 0)
    BY <2>2, <2>3
  <2>5. Walks(f, ds, a, 0)
    BY <2>1, <2>4, ReachToGives
  <2> QED
    BY <2>2, <2>3, <2>5 DEF Walks
<1>3. ASSUME NEW n \in Nat, NEW k \in Nat, k = n + 1
      PROVE  Reach(ds, a, k) = Further(ds, Reach(ds, a, n))
  <2>1. /\ ReachTo(walk(n), ds, a, n) /\ Reach(ds, a, n) = walk(n)[n]
        /\ ReachTo(walk(k), ds, a, k) /\ Reach(ds, a, k) = walk(k)[k]
    BY <1>1
  <2>2. PICK f, g : f = walk(n) /\ g = walk(k)
    OBVIOUS
  <2>3. g[k] = Further(ds, f[n])
    BY <1>3, <2>1, <2>2, ReachNext
  <2> QED
    BY <2>1, <2>2, <2>3
<1>4. \A n \in Nat : n + 1 \in Nat
  OBVIOUS
<1> QED
  BY <1>2, <1>3, <1>4

LEMMA FurtherIs ==
  ASSUME NEW ds, NEW S
  PROVE  Further(ds, S) = S \cup UNION {PremisesIn(ds, x) : x \in S}
BY DEF Further, PremisesIn, ProofsIn

LEMMA ReachSteps ==
  ASSUME NEW ds, NEW a, NEW n \in Nat
  PROVE  /\ Reach(ds, a, n) \subseteq Reach(ds, a, n + 1)
         /\ \A x \in Reach(ds, a, n) : PremisesIn(ds, x) \subseteq Reach(ds, a, n + 1)
         /\ \A y \in Reach(ds, a, n + 1) :
              y \in Reach(ds, a, n) \/ \E x \in Reach(ds, a, n) : y \in PremisesIn(ds, x)
<1>1. Reach(ds, a, n + 1) = Further(ds, Reach(ds, a, n))
  BY ReachIs
<1>2. Reach(ds, a, n + 1)
        = Reach(ds, a, n) \cup UNION {PremisesIn(ds, x) : x \in Reach(ds, a, n)}
  BY <1>1, FurtherIs
<1> QED
  BY <1>2

\* What is reached stays so, with more steps and with more proofs.
LEMMA ReachMore ==
  ASSUME NEW ds, NEW a, NEW m \in Nat
  PROVE  \A n \in Nat : m <= n => Reach(ds, a, m) \subseteq Reach(ds, a, n)
<1> DEFINE bad == {n \in Nat : m <= n /\ ~(Reach(ds, a, m) \subseteq Reach(ds, a, n))}
<1> SUFFICES ASSUME bad # {} PROVE FALSE
  OBVIOUS
<1>1. PICK n \in bad : \A i \in bad : n <= i
  BY LeastNumber
<1>2. n \in Nat /\ m <= n /\ ~(Reach(ds, a, m) \subseteq Reach(ds, a, n))
  BY <1>1
<1>3. n # m
  BY <1>2
<1>4. n - 1 \in Nat /\ m <= n - 1 /\ ~(n <= n - 1) /\ (n - 1) + 1 = n
  BY <1>2, <1>3
<1>5. Reach(ds, a, m) \subseteq Reach(ds, a, n - 1)
  BY <1>1, <1>4
<1>6. Reach(ds, a, n - 1) \subseteq Reach(ds, a, n)
  <2>1. Reach(ds, a, n - 1) \subseteq Reach(ds, a, (n - 1) + 1)
    BY <1>4, ReachSteps
  <2> QED
    BY <1>4, <2>1
<1> QED
  BY <1>2, <1>5, <1>6

LEMMA ReachGrows ==
  ASSUME NEW ds, NEW es, ds \subseteq es, NEW a
  PROVE  \A n \in Nat : Reach(ds, a, n) \subseteq Reach(es, a, n)
<1> DEFINE bad == {n \in Nat : ~(Reach(ds, a, n) \subseteq Reach(es, a, n))}
<1> SUFFICES ASSUME bad # {} PROVE FALSE
  OBVIOUS
<1>1. PICK n \in bad : \A i \in bad : n <= i
  BY LeastNumber
<1>2. n \in Nat /\ ~(Reach(ds, a, n) \subseteq Reach(es, a, n))
  BY <1>1
<1>3. n # 0
  BY <1>2, ReachIs
<1>4. n - 1 \in Nat /\ ~(n <= n - 1) /\ (n - 1) + 1 = n
  BY <1>2, <1>3
<1>5. Reach(ds, a, n - 1) \subseteq Reach(es, a, n - 1)
  BY <1>1, <1>4
<1>6. /\ \A y \in Reach(ds, a, n) :
            y \in Reach(ds, a, n - 1) \/ \E x \in Reach(ds, a, n - 1) : y \in PremisesIn(ds, x)
      /\ Reach(es, a, n - 1) \subseteq Reach(es, a, n)
      /\ \A x \in Reach(es, a, n - 1) : PremisesIn(es, x) \subseteq Reach(es, a, n)
  <2>1. /\ \A y \in Reach(ds, a, (n - 1) + 1) :
              y \in Reach(ds, a, n - 1) \/ \E x \in Reach(ds, a, n - 1) : y \in PremisesIn(ds, x)
        /\ Reach(es, a, n - 1) \subseteq Reach(es, a, (n - 1) + 1)
        /\ \A x \in Reach(es, a, n - 1) : PremisesIn(es, x) \subseteq Reach(es, a, (n - 1) + 1)
    BY <1>4, ReachSteps
  <2> QED
    BY <1>4, <2>1
<1>7. \A x : PremisesIn(ds, x) \subseteq PremisesIn(es, x)
  BY ProofsInMore
<1> QED
  BY <1>2, <1>5, <1>6, <1>7

-----------------------------------------------------------------------------
(***************************************************************************)
(* ExplainGraph, in the middle of its visits.  What it has met and the edges   *)
(* it has are at most what the proofs on record lead to.  And no visit is lost *)
(* by dropping those that would return at once: the premises of an atom it has *)
(* seen are seen or pending themselves, with as much depth left as from there. *)
(***************************************************************************)
Visits == [atom : Atom, depth : Nat]

\* Met, with as much depth left.
Covered(met, x, d) == \E v \in met : v.atom = x /\ v.depth >= d

EdgesBy(ds, a, n) == IF n = 0 THEN {} ELSE UNION {EdgesIn(ds, x) : x \in Reach(ds, a, n - 1)}

ExplanationBy(ds, a, n) == [nodes |-> Reach(ds, a, n), edges |-> EdgesBy(ds, a, n)]

AtMost(ds, met, es, a, n) ==
  /\ \A v \in met : v.depth <= n /\ v.atom \in Reach(ds, a, n - v.depth)
  /\ es \subseteq EdgesBy(ds, a, n)

AtLeast(ds, seen, met, es, a, n) ==
  /\ Covered(met, a, n)
  /\ \A s \in seen : s.depth > 0 =>
       /\ EdgesIn(ds, s.atom) \subseteq es
       /\ \A y \in PremisesIn(ds, s.atom) : Covered(met, y, s.depth - 1)

Met == reader.seen \cup Range(reader.pending)

\* ds: the proofs on record when it was called.
Explains(a, n, ds) ==
  /\ reader = [call |-> "explain", atom |-> a, depth |-> n, pending |-> reader.pending,
               seen |-> reader.seen, edges |-> reader.edges]
  /\ during = [rebuilt |-> during.rebuilt, least |-> ExplanationBy(ds, a, n)]
  /\ reader.pending \in Seq(Visits) /\ reader.seen \subseteq Visits
  /\ AtMost(derivations, Met, reader.edges, a, n)
  /\ AtLeast(ds, reader.seen, Met, reader.edges, a, n)

Explaining == reader.call = "explain" /\ ~during.rebuilt

ExplainOK ==
  Explaining => ~Rebuilding /\ \E a \in Atom, n \in Nat, ds \in SUBSET derivations : Explains(a, n, ds)

LEMMA ExplanationIs == \A a, n : Explanation(a, n) = ExplanationBy(derivations, a, n)
<1>1. \A x : PremiseEdges(x) = EdgesIn(derivations, x)
  BY DEF PremiseEdges, EdgesIn, ProofsOf, ProofsIn
<1> QED
  BY <1>1, ReachedIs DEF Explanation, ExplanationBy, EdgesBy

LEMMA EdgesByMore ==
  ASSUME NEW ds, NEW es, ds \subseteq es, NEW a, NEW n \in Nat
  PROVE  EdgesBy(ds, a, n) \subseteq EdgesBy(es, a, n)
<1>1. CASE n = 0
  BY <1>1 DEF EdgesBy
<1>2. CASE n # 0
  <2>1. n - 1 \in Nat
    BY <1>2
  <2>2. Reach(ds, a, n - 1) \subseteq Reach(es, a, n - 1)
    BY <2>1, ReachGrows
  <2>3. \A x : EdgesIn(ds, x) \subseteq EdgesIn(es, x)
    BY ProofsInMore
  <2> QED
    BY <1>2, <2>2, <2>3 DEF EdgesBy
<1> QED
  BY <1>1, <1>2

LEMMA AtMostMore ==
  ASSUME NEW ds, NEW es, ds \subseteq es, NEW met, \A v \in met : v.depth \in Nat,
         NEW edg, NEW a, NEW n \in Nat, AtMost(ds, met, edg, a, n)
  PROVE  AtMost(es, met, edg, a, n)
<1>1. \A v \in met : n - v.depth \in Nat
  BY DEF AtMost
<1>2. \A k \in Nat : Reach(ds, a, k) \subseteq Reach(es, a, k)
  BY ReachGrows
<1>3. EdgesBy(ds, a, n) \subseteq EdgesBy(es, a, n)
  BY EdgesByMore
<1> QED
  BY <1>1, <1>2, <1>3 DEF AtMost

LEMMA CoveredMore ==
  ASSUME NEW met, NEW more, \A v \in met : v.depth \in Int /\ Covered(more, v.atom, v.depth),
         \A v \in more : v.depth \in Int, NEW x, NEW d \in Int, Covered(met, x, d)
  PROVE  Covered(more, x, d)
<1>1. PICK v \in met : v.atom = x /\ v.depth >= d
  BY DEF Covered
<1>2. PICK w \in more : w.atom = v.atom /\ w.depth >= v.depth
  BY DEF Covered
<1>3. w.depth >= d
  BY <1>1, <1>2
<1> QED
  BY <1>1, <1>2, <1>3 DEF Covered

LEMMA HeadAndTail ==
  ASSUME NEW T, NEW s \in Seq(T), s # << >>
  PROVE  Head(s) \in T /\ Tail(s) \in Seq(T) /\ Range(s) = {Head(s)} \cup Range(Tail(s))
<1>1. /\ Head(s) = s[1] /\ Head(s) \in T /\ Tail(s) \in Seq(T)
      /\ Len(s) \in Nat /\ Len(s) > 0 /\ DOMAIN s = 1 .. Len(s)
      /\ DOMAIN Tail(s) = 1 .. Len(s) - 1
      /\ \A i \in 1 .. Len(s) - 1 : Tail(s)[i] = s[i + 1]
  OBVIOUS
<1>2. 1 \in DOMAIN s /\ \A i \in DOMAIN s : i = 1 \/ i - 1 \in 1 .. Len(s) - 1
  BY <1>1
<1>3. \A i \in DOMAIN s : i # 1 => i - 1 \in DOMAIN Tail(s) /\ Tail(s)[i - 1] = s[i]
  <2>1. \A i \in DOMAIN s : i # 1 => i - 1 \in 1 .. Len(s) - 1 /\ (i - 1) + 1 = i
    BY <1>1, <1>2
  <2> QED
    BY <1>1, <2>1
<1>4. \A i \in DOMAIN Tail(s) : i + 1 \in DOMAIN s /\ Tail(s)[i] = s[i + 1]
  BY <1>1
<1>5. Range(s) \subseteq {Head(s)} \cup Range(Tail(s))
  BY <1>1, <1>3 DEF Range
<1>6. {Head(s)} \cup Range(Tail(s)) \subseteq Range(s)
  BY <1>1, <1>2, <1>4 DEF Range
<1> QED
  BY <1>1, <1>5, <1>6

\* One visit: what is met then, and what the reader's variables are.
LEMMA VisitMeets ==
  ASSUME RecordedOK, reader.pending \in Seq(Visits), reader.seen \subseteq Visits,
         reader = [call |-> "explain", atom |-> reader.atom, depth |-> reader.depth,
                   pending |-> reader.pending, seen |-> reader.seen, edges |-> reader.edges],
         VisitNext
  PROVE  \E v \in Visits :
           /\ v \in Met
           /\ reader' = [call |-> "explain", atom |-> reader.atom, depth |-> reader.depth,
                         pending |-> reader'.pending, seen |-> reader.seen \cup {v},
                         edges |-> reader'.edges]
           /\ reader'.pending \in Seq(Visits)
           /\ reader'.edges = IF v.depth = 0 THEN reader.edges
                              ELSE reader.edges \cup EdgesIn(derivations, v.atom)
           /\ LET new == IF v.depth = 0 THEN {}
                         ELSE {Visit(y, v.depth - 1) : y \in PremisesIn(derivations, v.atom)}
                  met == reader'.seen \cup Range(reader'.pending)
              IN  /\ met \subseteq Met \cup new
                  /\ \A w \in Met \cup new : Covered(met, w.atom, w.depth)
<1> DEFINE v     == Head(reader.pending)
           rest  == Tail(reader.pending)
           seen  == reader.seen \cup {v}
           found == IF v.depth = 0 THEN << >> ELSE Premises(v.atom)
           fresh == [i \in DOMAIN found |-> Visit(found[i], v.depth - 1)]
           later == fresh \o rest
           kept  == {i \in DOMAIN later : ~Seen(later[i], seen)}
           next2 == AtPlaces(later, kept)
           new   == IF v.depth = 0 THEN {}
                    ELSE {Visit(y, v.depth - 1) : y \in PremisesIn(derivations, v.atom)}
           met   == seen \cup Range(next2)
<1>1. reader' = [reader EXCEPT
                   !.seen = seen,
                   !.edges = IF v.depth = 0 THEN @ ELSE @ \cup PremiseEdges(v.atom),
                   !.pending = next2]
  BY DEF VisitNext, Filtered
<1>2. v \in Visits /\ rest \in Seq(Visits) /\ Range(reader.pending) = {v} \cup Range(rest)
  BY HeadAndTail DEF VisitNext
<1>3. v.atom \in Atom /\ v.depth \in Nat
  BY <1>2 DEF Visits
<1>4. PremiseEdges(v.atom) = EdgesIn(derivations, v.atom)
  BY PremisesFound
<1>5. fresh \in Seq(Visits) /\ Range(fresh) = new
  <2>1. CASE v.depth = 0
    <3>1. found = << >>
      BY <2>1
    <3>2. fresh = << >>
      BY <3>1
    <3>3. new = {} /\ << >> \in Seq(Visits) /\ Range(<< >>) = {}
      BY <2>1 DEF Range
    <3> QED
      BY <3>2, <3>3
  <2>2. CASE v.depth # 0
    <3>1. found \in Seq(Atom) /\ Range(found) = PremisesIn(derivations, v.atom)
      BY <2>2, PremisesFound
    <3>2. DOMAIN found = 1 .. Len(found) /\ Len(found) \in Nat /\ \A i \in DOMAIN found : found[i] \in Atom
      BY <3>1
    <3>3. new = {Visit(y, v.depth - 1) : y \in Range(found)}
      BY <2>2, <3>1
    <3>4. v.depth - 1 \in Nat
      BY <1>3, <2>2
    <3> HIDE DEF found, v, new
    <3>5. \A i \in DOMAIN found : Visit(found[i], v.depth - 1) \in Visits
      BY <3>2, <3>4 DEF Visits, Visit
    <3>6. fresh \in Seq(Visits) /\ DOMAIN fresh = DOMAIN found
          /\ \A i \in DOMAIN found : fresh[i] = Visit(found[i], v.depth - 1)
      BY <3>2, <3>5
    <3> HIDE DEF fresh
    <3>7. Range(fresh) = {Visit(y, v.depth - 1) : y \in Range(found)}
      BY <3>6 DEF Range
    <3> QED
      BY <3>3, <3>6, <3>7
  <2> QED
    BY <2>1, <2>2
<1> HIDE DEF v, rest, fresh, found, new
<1>6. later \in Seq(Visits) /\ Range(later) = new \cup Range(rest)
  BY <1>2, <1>5, JoinedMembers
<1> HIDE DEF later
<1>7. next2 \in Seq(Visits) /\ Range(next2) = {later[i] : i \in kept}
  <2>1. kept \in SUBSET DOMAIN later
    OBVIOUS
  <2> HIDE DEF kept
  <2> QED
    BY <1>6, <2>1, PlacesMembers
<1> HIDE DEF next2
<1>8. \A w \in Range(later) : w \in Range(next2) \/ Seen(w, seen)
  BY <1>7 DEF Range
<1>9. Range(next2) \subseteq Range(later)
  BY <1>7 DEF Range
<1>10. Met = reader.seen \cup {v} \cup Range(rest)
  BY <1>2 DEF Met
<1>11. met \subseteq Met \cup new
  BY <1>6, <1>9, <1>10
<1>12. \A w \in Met \cup new : Covered(met, w.atom, w.depth)
  <2>1. \A w \in Met \cup new : w \in seen \/ w \in Range(next2) \/ Seen(w, seen)
    BY <1>6, <1>8, <1>10
  <2>2. \A w \in Met \cup new : w.depth \in Nat
    <3>1. Met \cup new \subseteq Visits
      <4>1. Range(fresh) \subseteq Visits /\ Range(rest) \subseteq Visits
        BY <1>2, <1>5 DEF Range
      <4> QED
        BY <1>2, <1>5, <1>10, <4>1
    <3> QED
      BY <3>1 DEF Visits
  <2>3. ASSUME NEW w \in Met \cup new PROVE Covered(met, w.atom, w.depth)
    <3>1. CASE Seen(w, seen)
      BY <3>1 DEF Seen, Covered
    <3>2. CASE w \in met
      <4>1. w.depth >= w.depth
        BY <2>2
      <4> QED
        BY <3>2, <4>1 DEF Covered
    <3> QED
      BY <2>1, <3>1, <3>2
  <2> QED
    BY <2>3
<1> HIDE DEF seen, met
<1>13. reader' = [call |-> "explain", atom |-> reader.atom, depth |-> reader.depth,
                  pending |-> next2, seen |-> seen,
                  edges |-> IF v.depth = 0 THEN reader.edges
                            ELSE reader.edges \cup EdgesIn(derivations, v.atom)]
  <2>1. PICK es : es = IF v.depth = 0 THEN reader.edges
                       ELSE reader.edges \cup EdgesIn(derivations, v.atom)
    OBVIOUS
  <2>2. reader' = [reader EXCEPT !.seen = seen, !.edges = es, !.pending = next2]
    BY <1>1, <1>4, <2>1
  <2>3. PICK x : x = [reader EXCEPT !.seen = seen]
    OBVIOUS
  <2>4. x = [call |-> "explain", atom |-> reader.atom, depth |-> reader.depth,
             pending |-> reader.pending, seen |-> seen, edges |-> reader.edges]
    BY <2>3
  <2>5. PICK y : y = [x EXCEPT !.edges = es]
    OBVIOUS
  <2>6. y = [call |-> "explain", atom |-> reader.atom, depth |-> reader.depth,
             pending |-> reader.pending, seen |-> seen, edges |-> es]
    BY <2>4, <2>5
  <2>7. [y EXCEPT !.pending = next2]
          = [call |-> "explain", atom |-> reader.atom, depth |-> reader.depth,
             pending |-> next2, seen |-> seen, edges |-> es]
    BY <2>6
  <2>8. reader' = [y EXCEPT !.pending = next2]
    <3>1. reader' = [[[reader EXCEPT !.seen = seen] EXCEPT !.edges = es] EXCEPT !.pending = next2]
      BY <2>2
    <3>2. [[[reader EXCEPT !.seen = seen] EXCEPT !.edges = es] EXCEPT !.pending = next2]
            = [[x EXCEPT !.edges = es] EXCEPT !.pending = next2]
      BY <2>3
    <3>3. [[x EXCEPT !.edges = es] EXCEPT !.pending = next2] = [y EXCEPT !.pending = next2]
      BY <2>5
    <3> QED
      BY <3>1, <3>2, <3>3
  <2> QED
    BY <2>1, <2>7, <2>8
<1>14. /\ reader'.pending = next2 /\ reader'.seen = seen
       /\ reader'.edges = IF v.depth = 0 THEN reader.edges
                          ELSE reader.edges \cup EdgesIn(derivations, v.atom)
  BY <1>13
<1>15. v \in Met
  BY <1>10
<1>16. met = reader'.seen \cup Range(reader'.pending)
  BY <1>14 DEF met
<1> USE DEF seen
<1> QED
  BY <1>2, <1>7, <1>11, <1>12, <1>13, <1>14, <1>15, <1>16 DEF new

LEMMA VisitKeeps ==
  ASSUME RecordedOK, NEW a \in Atom, NEW n \in Nat, NEW ds \in SUBSET derivations,
         Explains(a, n, ds), during' = during, derivations' = derivations, VisitNext
  PROVE  Explains(a, n, ds)'
<1> DEFINE new(v) == IF v.depth = 0 THEN {}
                     ELSE {Visit(y, v.depth - 1) : y \in PremisesIn(derivations, v.atom)}
<1>1. /\ reader = [call |-> "explain", atom |-> a, depth |-> n, pending |-> reader.pending,
                   seen |-> reader.seen, edges |-> reader.edges]
      /\ during = [rebuilt |-> during.rebuilt, least |-> ExplanationBy(ds, a, n)]
      /\ reader.pending \in Seq(Visits) /\ reader.seen \subseteq Visits
      /\ AtMost(derivations, Met, reader.edges, a, n)
      /\ AtLeast(ds, reader.seen, Met, reader.edges, a, n)
  BY DEF Explains
<1>2. reader.atom = a /\ reader.depth = n
  BY <1>1
<1>3. PICK v \in Visits :
        /\ v \in Met
        /\ reader' = [call |-> "explain", atom |-> a, depth |-> n, pending |-> reader'.pending,
                      seen |-> reader.seen \cup {v}, edges |-> reader'.edges]
        /\ reader'.pending \in Seq(Visits)
        /\ reader'.edges = IF v.depth = 0 THEN reader.edges
                           ELSE reader.edges \cup EdgesIn(derivations, v.atom)
        /\ Met' \subseteq Met \cup new(v)
        /\ \A w \in Met \cup new(v) : Covered(Met', w.atom, w.depth)
  BY <1>1, <1>2, VisitMeets DEF Met
<1>4. reader'.seen = reader.seen \cup {v}
  BY <1>3
<1>5. v.atom \in Atom /\ v.depth \in Nat /\ v.depth <= n /\ v.atom \in Reach(derivations, a, n - v.depth)
  BY <1>1, <1>3 DEF Visits, AtMost
<1>6. \A w \in new(v) : /\ v.depth # 0 /\ w.depth = v.depth - 1
                        /\ w.atom \in PremisesIn(derivations, v.atom)
  <2>1. ASSUME NEW w \in new(v) PROVE v.depth # 0 /\ \E y \in PremisesIn(derivations, v.atom) :
                                                       w = Visit(y, v.depth - 1)
    OBVIOUS
  <2> HIDE DEF new
  <2> QED
    BY <2>1 DEF Visit
<1>7. \A y \in PremisesIn(derivations, v.atom) :
        v.depth # 0 => \E w \in new(v) : w.atom = y /\ w.depth = v.depth - 1
  <2>1. ASSUME NEW y \in PremisesIn(derivations, v.atom), v.depth # 0
        PROVE  Visit(y, v.depth - 1) \in new(v)
    BY <2>1
  <2> HIDE DEF new
  <2> QED
    BY <2>1 DEF Visit
<1> HIDE DEF new
<1>8. AtMost(derivations, Met', reader'.edges, a, n)
  <2>1. ASSUME NEW w \in new(v) PROVE w.depth <= n /\ w.atom \in Reach(derivations, a, n - w.depth)
    <3>1. n - v.depth \in Nat /\ (n - v.depth) + 1 = n - (v.depth - 1) /\ v.depth - 1 <= n
      BY <1>5
    <3>2. PremisesIn(derivations, v.atom) \subseteq Reach(derivations, a, (n - v.depth) + 1)
      BY <1>5, <3>1, ReachSteps
    <3> QED
      BY <1>6, <3>1, <3>2
  <2>2. reader'.edges \subseteq EdgesBy(derivations, a, n)
    <3>1. CASE v.depth = 0
      BY <1>1, <1>3, <3>1 DEF AtMost
    <3>2. CASE v.depth # 0
      <4>1. n # 0 /\ n - 1 \in Nat /\ n - v.depth \in Nat /\ n - v.depth <= n - 1
        BY <1>5, <3>2
      <4>2. Reach(derivations, a, n - v.depth) \subseteq Reach(derivations, a, n - 1)
        BY <4>1, ReachMore
      <4>3. EdgesIn(derivations, v.atom) \subseteq EdgesBy(derivations, a, n)
        BY <1>5, <4>1, <4>2 DEF EdgesBy
      <4> QED
        BY <1>1, <1>3, <3>2, <4>3 DEF AtMost
    <3> QED
      BY <3>1, <3>2
  <2>3. \A w \in Met : w.depth <= n /\ w.atom \in Reach(derivations, a, n - w.depth)
    BY <1>1 DEF AtMost
  <2> QED
    BY <1>3, <2>1, <2>2, <2>3 DEF AtMost
<1>9. \A x : \A d \in Int : Covered(Met, x, d) => Covered(Met', x, d)
  <2>1. Met \subseteq Visits /\ Met' \subseteq Visits
    BY <1>1, <1>3, <1>4 DEF Met, Range
  <2>2. \A w \in Met : w.depth \in Int /\ Covered(Met', w.atom, w.depth)
    BY <1>3, <2>1 DEF Visits
  <2>3. \A w \in Met' : w.depth \in Int
    BY <2>1 DEF Visits
  <2> QED
    BY <2>2, <2>3, CoveredMore
<1>10. AtLeast(ds, reader'.seen, Met', reader'.edges, a, n)
  <2>1. Covered(Met', a, n)
    BY <1>1, <1>9 DEF AtLeast
  <2>2. ASSUME NEW s \in reader.seen, s.depth > 0
        PROVE  /\ EdgesIn(ds, s.atom) \subseteq reader'.edges
               /\ \A y \in PremisesIn(ds, s.atom) : Covered(Met', y, s.depth - 1)
    <3>1. s.depth - 1 \in Int
      BY <1>1, <2>2 DEF Visits
    <3>2. reader.edges \subseteq reader'.edges
      BY <1>3
    <3> QED
      BY <1>1, <1>9, <2>2, <3>1, <3>2 DEF AtLeast
  <2>3. ASSUME v.depth > 0
        PROVE  /\ EdgesIn(ds, v.atom) \subseteq reader'.edges
               /\ \A y \in PremisesIn(ds, v.atom) : Covered(Met', y, v.depth - 1)
    <3>1. /\ EdgesIn(ds, v.atom) \subseteq EdgesIn(derivations, v.atom)
          /\ PremisesIn(ds, v.atom) \subseteq PremisesIn(derivations, v.atom)
      BY ProofsInMore
    <3>2. v.depth # 0
      BY <1>5, <2>3
    <3>3. ASSUME NEW y \in PremisesIn(ds, v.atom) PROVE Covered(Met', y, v.depth - 1)
      <4>1. PICK w \in new(v) : w.atom = y /\ w.depth = v.depth - 1
        BY <1>7, <3>1, <3>2
      <4> QED
        BY <1>3, <4>1
    <3> QED
      BY <1>3, <3>1, <3>2, <3>3
  <2> QED
    BY <1>4, <2>1, <2>2, <2>3 DEF AtLeast
<1>11. reader'.seen \subseteq Visits
  BY <1>1, <1>4
<1> QED
  BY <1>1, <1>3, <1>4, <1>8, <1>10, <1>11 DEF Explains

LEMMA WriterKeepsExplain ==
  ASSUME StepsOK, StoresOK, ExplainOK, Writes, Overlaps, reader' = reader
  PROVE  ExplainOK'
<1>1. SUFFICES ASSUME Explaining'
               PROVE  /\ ~Rebuilding'
                      /\ \E a \in Atom, n \in Nat, ds \in SUBSET derivations' : Explains(a, n, ds)'
  BY DEF ExplainOK
<1>2. Reading /\ ~during.rebuilt /\ ~Rebuilding' /\ during' = during
  BY <1>1 DEF Explaining, Overlaps, Reading, Rebuilt
<1>3. ~Rebuilding
  BY <1>1, <1>2 DEF ExplainOK, Explaining
<1>4. PICK a \in Atom, n \in Nat, ds \in SUBSET derivations : Explains(a, n, ds)
  BY <1>1, <1>2 DEF ExplainOK, Explaining
<1>5. derivations \subseteq derivations'
  BY <1>2, <1>3, QuietWrites DEF Quiet, QuietStep
<1>6. Met' = Met /\ \A v \in Met : v.depth \in Nat
  <2>1. Met \subseteq Visits
    BY <1>4 DEF Met, Explains, Range
  <2> QED
    BY <2>1 DEF Met, Visits
<1>7. AtMost(derivations', Met, reader.edges, a, n)
  BY <1>4, <1>5, <1>6, AtMostMore DEF Explains
<1>8. Explains(a, n, ds)'
  BY <1>2, <1>4, <1>6, <1>7 DEF Explains
<1> QED
  BY <1>2, <1>4, <1>5, <1>8

LEMMA StartExplains ==
  ASSUME StoresOK, NEW a \in Roots, NEW n \in Depths, StartExplain(a, n), ~Rebuilding,
         derivations' = derivations
  PROVE  Explains(a, n, derivations)'
<1>1. a \in Atom /\ n \in Nat
  BY ReaderAssumption
<1>2. /\ reader' = [call |-> "explain", atom |-> a, depth |-> n,
                    pending |-> <<Visit(a, n)>>, seen |-> {}, edges |-> {}]
      /\ during' = [rebuilt |-> FALSE, least |-> ExplanationBy(derivations, a, n)]
  BY ExplanationIs DEF StartExplain, StartRead
<1>3. /\ Visit(a, n) \in Visits /\ Visit(a, n).atom = a /\ Visit(a, n).depth = n
  BY <1>1 DEF Visit, Visits
<1>4. <<Visit(a, n)>> \in Seq(Visits) /\ Range(<<Visit(a, n)>>) = {Visit(a, n)}
  BY <1>3 DEF Range
<1>5. Met' = {Visit(a, n)}
  BY <1>2, <1>4 DEF Met
<1>6. AtMost(derivations, {Visit(a, n)}, {}, a, n)
  <2>1. n <= n /\ n - n = 0
    BY <1>1
  <2>2. a \in Reach(derivations, a, n - n)
    BY <2>1, ReachIs
  <2> QED
    BY <1>3, <2>1, <2>2 DEF AtMost
<1>7. AtLeast(derivations, {}, {Visit(a, n)}, {}, a, n)
  <2>1. n >= n
    BY <1>1
  <2> QED
    BY <1>3, <2>1 DEF AtLeast, Covered
<1> QED
  BY <1>2, <1>4, <1>5, <1>6, <1>7 DEF Explains

LEMMA ReadsKeepExplain ==
  ASSUME StoresOK, ReaderOK, ExplainOK, Reads
  PROVE  ExplainOK'
<1>1. UNCHANGED <<derivations, pc, doing>> /\ Rebuilding' = Rebuilding
  BY DEF Reads, vars, memory, Rebuilding
<1>2. CASE AskResolution \/ AskSnapshot \/ AskProofs
  <2>1. reader'.call # "explain"
    BY <1>2 DEF AskResolution, AskSnapshot, AskProofs, Answer, ReaderOK
  <2> QED
    BY <2>1 DEF ExplainOK, Explaining
<1>3. CASE VisitNext
  <2>1. during' = during /\ reader.call = "explain"
    BY <1>3 DEF VisitNext
  <2>2. SUFFICES ASSUME ~during.rebuilt PROVE ExplainOK'
    BY <2>1 DEF ExplainOK, Explaining
  <2>3. PICK a \in Atom, n \in Nat, ds \in SUBSET derivations : Explains(a, n, ds)
    BY <2>1, <2>2 DEF ExplainOK, Explaining
  <2>4. Explains(a, n, ds)'
    BY <1>1, <1>3, <2>1, <2>3, VisitKeeps DEF StoresOK
  <2> QED
    BY <1>1, <2>1, <2>2, <2>3, <2>4 DEF ExplainOK, Explaining
<1>4. CASE Explained
  BY <1>4 DEF Explained, NoCall, ExplainOK, Explaining
<1>5. ASSUME NEW a \in Asked, StartEvaluate(a) PROVE ExplainOK'
  BY <1>5 DEF StartEvaluate, StartRead, ExplainOK, Explaining
<1>6. ASSUME NEW a \in Roots, NEW n \in Depths, StartExplain(a, n) PROVE ExplainOK'
  <2>1. CASE Rebuilding
    BY <1>6, <2>1 DEF StartExplain, StartRead, Rebuilt, ExplainOK, Explaining
  <2>2. CASE ~Rebuilding
    <3>1. Explains(a, n, derivations)'
      BY <1>1, <1>6, <2>2, StartExplains
    <3>2. a \in Atom /\ n \in Nat
      BY ReaderAssumption
    <3> QED
      BY <1>1, <2>2, <3>1, <3>2 DEF ExplainOK
  <2> QED
    BY <2>1, <2>2
<1> QED
  BY <1>2, <1>3, <1>4, <1>5, <1>6 DEF Reads

LEMMA ExplainStep ==
  StepsOK /\ StoresOK /\ ReaderOK /\ ExplainOK /\ [StepsNext]_stepsVars => ExplainOK'
<1> SUFFICES ASSUME StepsOK, StoresOK, ReaderOK, ExplainOK, [StepsNext]_stepsVars PROVE ExplainOK'
  OBVIOUS
<1>1. CASE UNCHANGED stepsVars
  BY <1>1 DEF ExplainOK, Explaining, Explains, Met, Rebuilding, stepsVars, vars, memory
<1> QED
  BY <1>1, WriterKeepsExplain, ReadsKeepExplain DEF StepsNext

(***************************************************************************)
(* With nothing pending, every atom the first proofs reach has been seen with  *)
(* as much depth left as they leave it, so its own proofs were followed too.  *)
(***************************************************************************)
LEMMA AllReached ==
  ASSUME NEW ds, NEW seen \in SUBSET Visits, NEW es, NEW a, NEW n \in Nat,
         AtLeast(ds, seen, seen, es, a, n)
  PROVE  \A k \in 0 .. n : \A x \in Reach(ds, a, k) : Covered(seen, x, n - k)
<1> DEFINE bad == {k \in 0 .. n : \E x \in Reach(ds, a, k) : ~Covered(seen, x, n - k)}
<1> SUFFICES ASSUME bad # {} PROVE FALSE
  OBVIOUS
<1>1. bad \in SUBSET Nat
  OBVIOUS
<1>2. PICK k \in bad : \A i \in bad : k <= i
  BY <1>1, LeastNumber
<1>3. PICK x \in Reach(ds, a, k) : ~Covered(seen, x, n - k)
  BY <1>2
<1>4. k # 0
  <2>1. CASE k = 0
    <3>1. x = a /\ n - k = n
      BY <1>3, <2>1, ReachIs
    <3> QED
      BY <1>3, <3>1 DEF AtLeast
  <2> QED
    BY <2>1
<1>5. /\ k - 1 \in Nat /\ k - 1 \in 0 .. n /\ ~(k <= k - 1) /\ (k - 1) + 1 = k
      /\ n - (k - 1) \in Nat /\ n - (k - 1) > 0 /\ (n - (k - 1)) - 1 = n - k /\ n - k \in Nat
  BY <1>2, <1>4
<1>6. \A y \in Reach(ds, a, k - 1) : \E s \in seen : s.atom = y /\ s.depth >= n - (k - 1)
  BY <1>2, <1>5 DEF Covered
<1>7. \A s \in seen : s.depth \in Nat
  BY DEF Visits
<1>8. x \in Reach(ds, a, k - 1) \/ \E y \in Reach(ds, a, k - 1) : x \in PremisesIn(ds, y)
  <2>1. x \in Reach(ds, a, (k - 1) + 1)
    BY <1>3, <1>5
  <2> QED
    BY <1>5, <2>1, ReachSteps
<1>9. CASE x \in Reach(ds, a, k - 1)
  <2>1. PICK s \in seen : s.atom = x /\ s.depth >= n - (k - 1)
    BY <1>6, <1>9
  <2>2. s.depth >= n - k
    BY <1>5, <1>7, <2>1
  <2> QED
    BY <1>3, <2>1, <2>2 DEF Covered
<1>10. ASSUME NEW y \in Reach(ds, a, k - 1), x \in PremisesIn(ds, y) PROVE FALSE
  <2>1. PICK s \in seen : s.atom = y /\ s.depth >= n - (k - 1)
    BY <1>6
  <2>2. s.depth > 0 /\ s.depth - 1 >= n - k /\ s.depth - 1 \in Int
    BY <1>5, <1>7, <2>1
  <2>3. Covered(seen, x, s.depth - 1)
    BY <1>10, <2>1, <2>2 DEF AtLeast
  <2>4. PICK t \in seen : t.atom = x /\ t.depth >= s.depth - 1
    BY <2>3 DEF Covered
  <2>5. t.depth >= n - k
    BY <1>5, <1>7, <2>2, <2>4
  <2> QED
    BY <1>3, <2>4, <2>5 DEF Covered
<1> QED
  BY <1>8, <1>9, <1>10

LEMMA ExplanationHeld ==
  ASSUME NEW a \in Atom, NEW n \in Nat, NEW ds \in SUBSET derivations, Explains(a, n, ds),
         reader.pending = << >>
  PROVE  LET nodes == {s.atom : s \in reader.seen}
         IN  /\ Reach(ds, a, n) \subseteq nodes /\ nodes \subseteq Reach(derivations, a, n)
             /\ EdgesBy(ds, a, n) \subseteq reader.edges
             /\ reader.edges \subseteq EdgesBy(derivations, a, n)
<1> DEFINE seen == reader.seen
           es   == reader.edges
<1>1. Met = seen
  <2>1. Range(<< >>) = {}
    BY DEF Range
  <2> QED
    BY <2>1 DEF Met
<1>2. /\ seen \in SUBSET Visits
      /\ AtMost(derivations, seen, es, a, n) /\ AtLeast(ds, seen, seen, es, a, n)
  BY <1>1 DEF Explains
<1>3. \A s \in seen : s.depth \in Nat
  BY <1>2 DEF Visits
<1> HIDE DEF seen, es
<1>4. \A k \in 0 .. n : \A x \in Reach(ds, a, k) : Covered(seen, x, n - k)
  BY <1>2, AllReached
<1>5. Reach(ds, a, n) \subseteq {s.atom : s \in seen}
  <2>1. n \in 0 .. n
    OBVIOUS
  <2> QED
    BY <1>4, <2>1 DEF Covered
<1>6. {s.atom : s \in seen} \subseteq Reach(derivations, a, n)
  <2>1. ASSUME NEW s \in seen PROVE s.atom \in Reach(derivations, a, n)
    <3>1. s.depth \in Nat /\ s.depth <= n /\ s.atom \in Reach(derivations, a, n - s.depth)
      BY <1>2, <1>3 DEF AtMost
    <3>2. n - s.depth \in Nat /\ n - s.depth <= n
      BY <3>1
    <3>3. Reach(derivations, a, n - s.depth) \subseteq Reach(derivations, a, n)
      BY <3>2, ReachMore
    <3> QED
      BY <3>1, <3>3
  <2> QED
    BY <2>1
<1>7. EdgesBy(ds, a, n) \subseteq es
  <2>1. SUFFICES ASSUME n # 0, NEW x \in Reach(ds, a, n - 1) PROVE EdgesIn(ds, x) \subseteq es
    BY DEF EdgesBy
  <2>2. n - 1 \in 0 .. n /\ n - (n - 1) = 1
    BY <2>1
  <2>3. Covered(seen, x, n - (n - 1))
    BY <1>4, <2>1, <2>2
  <2>4. PICK s \in seen : s.atom = x /\ s.depth >= 1
    BY <2>2, <2>3 DEF Covered
  <2>5. s.depth > 0
    BY <1>3, <2>4
  <2> QED
    BY <1>2, <2>4, <2>5 DEF AtLeast
<1>8. es \subseteq EdgesBy(derivations, a, n)
  BY <1>2 DEF AtMost
<1> QED
  BY <1>5, <1>6, <1>7, <1>8 DEF seen, es

ExplainsOK == AnswersOK /\ StoresOK /\ ExplainOK

LEMMA ExplainsAlways == StepsSpec => []ExplainsOK
<1>1. StepsInit => StoresOK /\ ExplainOK
  <2>1. StepsInit => ExplainOK
    BY DEF StepsInit, NoCall, ExplainOK, Explaining
  <2> QED
    BY <2>1, StoresStart
<1>2. AnswersOK /\ (StoresOK /\ ExplainOK) /\ [StepsNext]_stepsVars => (StoresOK /\ ExplainOK)'
  BY StoresStep, ExplainStep DEF AnswersOK
<1> QED
  BY <1>1, <1>2, AnswersAlways, PTL DEF StepsSpec, ExplainsOK

(***************************************************************************)
(* ExplainGraph reads the proofs of one atom after the other while another     *)
(* goroutine derives.  It returns at least what was on record when it was      *)
(* called and at most what is when it returns: as long as no store is rebuilt  *)
(* under it, whatever circles the proofs run in.                            *)
(***************************************************************************)
THEOREM ExplanationsAreBracketed == StepsSpec => ExplanationsBracketed
<1> DEFINE Bracketed ==
      LET most  == Explanation(reader.atom, reader.depth)
          nodes == {s.atom : s \in reader.seen}
      IN  /\ during.least.nodes \subseteq nodes /\ nodes \subseteq most.nodes
          /\ during.least.edges \subseteq reader.edges /\ reader.edges \subseteq most.edges
<1>1. ASSUME ExplainsOK, [StepsNext]_stepsVars, ExplainsNow, ~during.rebuilt
      PROVE  Bracketed
  <2>1. reader.call = "explain" /\ reader' = NoCall
    BY <1>1 DEF ExplainsNow
  <2>2. reader' # reader /\ ~VisitNext /\ Reading
    <3>1. ~VisitNext
      BY <1>1, <2>1 DEF VisitNext, NoCall, ExplainsOK, AnswersOK, ReaderOK
    <3> QED
      BY <2>1, <3>1 DEF NoCall, Reading
  <2>3. Explained
    BY <1>1, <2>1, <2>2 DEF StepsNext, Reads, AskResolution, AskSnapshot, AskProofs, StartEvaluate,
       StartExplain, StartRead, stepsVars
  <2>4. PICK a \in Atom, n \in Nat, ds \in SUBSET derivations : Explains(a, n, ds)
    BY <1>1, <2>1 DEF ExplainsOK, ExplainOK, Explaining
  <2>5. /\ reader.atom = a /\ reader.depth = n
        /\ during.least.nodes = Reach(ds, a, n) /\ during.least.edges = EdgesBy(ds, a, n)
    <3>1. /\ reader = [call |-> "explain", atom |-> a, depth |-> n, pending |-> reader.pending,
                       seen |-> reader.seen, edges |-> reader.edges]
          /\ during = [rebuilt |-> during.rebuilt, least |-> ExplanationBy(ds, a, n)]
      BY <2>4 DEF Explains
    <3> QED
      BY <3>1 DEF ExplanationBy
  <2>6. /\ Explanation(a, n).nodes = Reach(derivations, a, n)
        /\ Explanation(a, n).edges = EdgesBy(derivations, a, n)
    BY ExplanationIs DEF ExplanationBy
  <2> QED
    BY <2>3, <2>4, <2>5, <2>6, ExplanationHeld DEF Explained
<1>2. ExplainsOK /\ [StepsNext]_stepsVars
        => [ExplainsNow /\ ~during.rebuilt => Bracketed]_stepsVars
  BY <1>1
<1> QED
  BY <1>2, ExplainsAlways, PTL DEF StepsSpec, ExplanationsBracketed
=============================================================================
