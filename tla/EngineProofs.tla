---------------------------- MODULE EngineProofs ----------------------------
(***************************************************************************)
(* Theorems about Engine, for every set of names, beliefs, resolutions and    *)
(* rules, and for every budget: its types and what the graph, the proofs and   *)
(* the beliefs have to do with each other; its memory and its log; and where   *)
(* ApplyRules stops.                                                        *)
(***************************************************************************)
EXTENDS Engine, AscendingProofs

-----------------------------------------------------------------------------
(* Lemmas about what a rule derives.                                        *)

(***************************************************************************)
(* A derivation concludes a pattern whose fields are terms, from premises     *)
(* that are edges; a conclusion with no empty field is an atom.              *)
(***************************************************************************)
LEMMA DerivationType ==
  ASSUME NEW r \in Rule, NEW E \in SUBSET Atom, NEW d \in Derivations(r, E)
  PROVE  /\ d.then \in [from : Term, pred : Term, to : Term]
         /\ ValidAtom(d.then) => d.then \in Atom
         /\ d.prem \in Seq(Atom)
         /\ \A i \in DOMAIN d.prem : d.prem[i] \in E
<1>1. PICK binds \in Matches(r, E) : d = Derivation(r, binds)
  BY DEF Derivations
<1>2. /\ binds \in [PremiseVars(r) -> NamesIn(E)]
      /\ VarsOf(r.then) \subseteq PremiseVars(r)
      /\ \A i \in DOMAIN r.if : Apply(r.if[i], binds) \in E
  BY <1>1 DEF Matches
<1>3. NamesIn(E) \subseteq Token
  BY DEF NamesIn, Atom
<1>4. r.then \in AtomPattern /\ r.if \in Seq(AtomPattern)
  BY DEF Rule
<1>5. \A s \in {r.then.from, r.then.pred, r.then.to} :
         Ground(s, binds) \in Term /\ (Ground(s, binds) # Empty => Ground(s, binds) \in Token)
  BY <1>2, <1>3, <1>4 DEF VarsOf, Ground, IsVar, Term, AtomPattern
<1>6. d.then = Apply(r.then, binds) /\ d.prem = [i \in DOMAIN r.if |-> Apply(r.if[i], binds)]
  BY <1>1 DEF Derivation
<1>7. \A i \in DOMAIN d.prem : d.prem[i] \in E
  BY <1>2, <1>6
<1>8. d.prem \in Seq(Atom)
  <2>1. DOMAIN r.if = 1 .. Len(r.if) /\ Len(r.if) \in Nat
    BY <1>4
  <2>2. d.prem \in [1 .. Len(r.if) -> Atom]
    BY <1>2, <1>6, <2>1
  <2> QED
    BY <2>1, <2>2
<1>9. d.then = [from |-> Ground(r.then.from, binds), pred |-> Ground(r.then.pred, binds),
                to |-> Ground(r.then.to, binds)]
  BY <1>6 DEF Apply
<1>10. d.then \in [from : Term, pred : Term, to : Term]
  BY <1>5, <1>9
<1>11. ValidAtom(d.then) => d.then \in Atom
  BY <1>5, <1>9 DEF ValidAtom, Atom
<1> QED
  BY <1>7, <1>8, <1>10, <1>11

(***************************************************************************)
(* More edges never take a derivation away.                                 *)
(***************************************************************************)
LEMMA DerivationsMonotone ==
  ASSUME NEW r, NEW E, NEW F, E \subseteq F
  PROVE  Derivations(r, E) \subseteq Derivations(r, F)
<1>1. NamesIn(E) \subseteq NamesIn(F)
  BY DEF NamesIn
<1>2. Matches(r, E) \subseteq Matches(r, F)
  BY <1>1 DEF Matches
<1> QED
  BY <1>2 DEF Derivations

-----------------------------------------------------------------------------
(* The types, with what ApplyRules knows of its own frame.                  *)

Applying == pc \in {"round", "rule", "derive"}

\* The edges a round works on stay in the graph while it runs.
FrameOK ==
  /\ Applying => remaining > 0
  /\ pc \in {"rule", "derive"} => edges \subseteq graph
  /\ pc = "derive" => next \in DOMAIN rules /\ todo \subseteq Derivations(rules[next], edges)
  /\ pc = "replay" => "resolution" \in lapses

OneResolution == \A r, s \in resolutions : r.atom = s.atom => r = s

\* A log may hold any belief: one that was compacted holds derived ones.
AnyRecord == [type : {"fact"}, data : Belief] \cup [type : {"resolution"}, data : Resolution]
               \cup [type : {"rule"}, data : InputRules]

Typed == StateType /\ log \in Seq(AnyRecord)

StateOK == Typed /\ FrameOK /\ OneResolution

LEMMA ProjectedType ==
  ASSUME NEW bs \in SUBSET Belief, NEW res
  PROVE  Projected(bs, res) \subseteq Atom
BY DEF Projected, Belief

LEMMA SetResolutionType ==
  ASSUME NEW res \in SUBSET Resolution, NEW r \in Resolution,
         \A p, q \in res : p.atom = q.atom => p = q
  PROVE  /\ SetResolution(res, r) \subseteq Resolution
         /\ \A p, q \in SetResolution(res, r) : p.atom = q.atom => p = q
BY DEF SetResolution

LEMMA LoggedType ==
  ASSUME log \in Seq(AnyRecord), NEW type, NEW data, [type |-> type, data |-> data] \in AnyRecord
  PROVE  /\ Logged(type, data) => log' \in Seq(AnyRecord)
         /\ AppendFails(type, data) => log' \in Seq(AnyRecord) /\ faults' = faults + 1
<1>1. Append(log, [type |-> type, data |-> data]) \in Seq(AnyRecord)
  OBVIOUS
<1> QED
  BY <1>1 DEF Logged, AppendFails

LEMMA RecordType ==
  /\ \A b \in InputBeliefs : [type |-> "fact", data |-> b] \in AnyRecord
  /\ \A r \in InputResolutions : [type |-> "resolution", data |-> r] \in AnyRecord
  /\ \A r \in InputRules : [type |-> "rule", data |-> r] \in AnyRecord
BY InputAssumption DEF AnyRecord

LEMMA InitStateOK == Init => StateOK
<1> SUFFICES ASSUME Init PROVE StateOK
  OBVIOUS
<1>1. << >> \in Seq(InputRules) /\ << >> \in Seq(InputBeliefs) /\ << >> \in Seq(AnyRecord)
  OBVIOUS
<1>2. Typed
  BY <1>1 DEF Init, Typed, StateType
<1>3. FrameOK /\ OneResolution
  BY DEF Init, FrameOK, Applying, OneResolution
<1> QED
  BY <1>2, <1>3 DEF StateOK

LEMMA CallStateOK == StateOK /\ Call => StateOK'
<1> SUFFICES ASSUME StateOK, Call PROVE StateOK'
  OBVIOUS
<1> USE InputAssumption, BoundAssumption
<1>a. Typed /\ FrameOK /\ OneResolution
  BY DEF StateOK
<1>b. log \in Seq(AnyRecord) /\ rules \in Seq(InputRules) /\ audit \in Seq(InputBeliefs)
  BY <1>a DEF Typed, StateType
<1>1. ASSUME NEW b \in InputBeliefs, Ingest(b) PROVE StateOK'
  <2>1. b \in Belief /\ Projected({b}, resolutions) \subseteq Atom
    BY ProjectedType
  <2>2. log' \in Seq(AnyRecord) /\ audit' \in Seq(InputBeliefs)
    <3>1. log' \in Seq(AnyRecord)
      BY <1>1, <1>b, LoggedType, RecordType DEF Ingest
    <3> QED
      BY <1>1, <1>b, <3>1 DEF Ingest
  <2>3. Typed'
    BY <1>1, <1>a, <2>1, <2>2 DEF Ingest, IngestNoLog, StartApplyRules, Typed, StateType, Lapse
  <2>4. FrameOK' /\ OneResolution'
    BY <1>1, <1>a DEF Ingest, IngestNoLog, StartApplyRules, Typed, StateType, FrameOK, Applying, OneResolution
  <2> QED
    BY <2>3, <2>4 DEF StateOK
<1>2. ASSUME NEW b \in InputBeliefs, IngestUnlogged(b) PROVE StateOK'
  <2>1. b \in Belief /\ Projected({b}, resolutions) \subseteq Atom
    BY ProjectedType
  <2>2. log' \in Seq(AnyRecord)
    BY <1>2, <1>b, LoggedType, RecordType DEF IngestUnlogged
  <2>0. lapses' \subseteq Lapse /\ faults' \in Nat
    BY <1>2, <1>a DEF IngestUnlogged, AppendFails, Typed, StateType, Lapse
  <2>3. Typed'
    BY <1>2, <1>a, <2>1, <2>2, <2>0 DEF IngestUnlogged, IngestNoLog, frame, Typed, StateType
  <2>4. FrameOK' /\ OneResolution'
    BY <1>2, <1>a DEF IngestUnlogged, IngestNoLog, AppendFails, CanCall, frame, Typed, StateType, FrameOK, Applying, OneResolution
  <2> QED
    BY <2>3, <2>4 DEF StateOK
<1>3. ASSUME NEW b \in InputBeliefs, BulkLine(b) PROVE StateOK'
  <2>1. b \in Belief /\ Projected({b}, resolutions) \subseteq Atom
    BY ProjectedType
  <2>2. log' \in Seq(AnyRecord) /\ lapses' \subseteq Lapse /\ faults' \in Nat
    <3>1. CASE Logged("fact", b) /\ UNCHANGED <<lapses, faults>>
      BY <1>a, <1>b, <3>1, LoggedType, RecordType DEF Typed, StateType
    <3>2. CASE AppendFails("fact", b) /\ lapses' = lapses \cup {"log"}
      <4>1. log' \in Seq(AnyRecord)
        BY <1>b, <3>2, LoggedType, RecordType
      <4>2. lapses' \subseteq Lapse /\ faults' \in Nat
        BY <1>a, <3>2 DEF AppendFails, Typed, StateType, Lapse
      <4> QED
        BY <4>1, <4>2
    <3> QED
      BY <1>3, <3>1, <3>2 DEF BulkLine
  <2>3. Typed'
    BY <1>3, <1>a, <2>1, <2>2 DEF BulkLine, IngestNoLog, frame, Typed, StateType
  <2>4. FrameOK' /\ OneResolution'
    BY <1>3, <1>a DEF BulkLine, IngestNoLog, AppendFails, frame, Typed, StateType, FrameOK, Applying, OneResolution
  <2> QED
    BY <2>3, <2>4 DEF StateOK
<1>4. ASSUME NEW r \in InputResolutions, Resolve(r) PROVE StateOK'
  <2>1. /\ resolutions' \subseteq Resolution
        /\ OneResolution'
    BY <1>4, <1>a, SetResolutionType DEF Resolve, Recompute, Typed, StateType, OneResolution
  <2>2. log' \in Seq(AnyRecord)
    BY <1>4, <1>b, LoggedType, RecordType DEF Resolve
  <2>3. beliefs' \subseteq Belief /\ graph' \subseteq Atom
    <3>1. Base(beliefs) \subseteq Belief
      BY <1>a DEF Base, Typed, StateType
    <3> QED
      BY <1>4, <3>1, ProjectedType DEF Resolve, Recompute
  <2>4. Typed'
    BY <1>4, <1>a, <2>1, <2>2, <2>3 DEF Resolve, Recompute, StartApplyRules, Typed, StateType, Lapse
  <2>5. FrameOK'
    BY <1>4, <1>a DEF Resolve, Recompute, StartApplyRules, Typed, StateType, FrameOK, Applying
  <2> QED
    BY <2>1, <2>4, <2>5 DEF StateOK
<1>5. ASSUME NEW r \in InputResolutions, ResolveUnlogged(r) PROVE StateOK'
  <2>1. /\ resolutions' \subseteq Resolution
        /\ OneResolution'
    BY <1>5, <1>a, SetResolutionType DEF ResolveUnlogged, Typed, StateType, OneResolution
  <2>2. log' \in Seq(AnyRecord)
    BY <1>5, <1>b, LoggedType, RecordType DEF ResolveUnlogged
  <2>4. Typed'
    BY <1>5, <1>a, <2>1, <2>2 DEF ResolveUnlogged, AppendFails, CanCall, frame, Typed, StateType, Lapse
  <2>5. FrameOK'
    BY <1>5, <1>a DEF ResolveUnlogged, AppendFails, CanCall, frame, Typed, StateType, FrameOK, Applying
  <2> QED
    BY <2>1, <2>4, <2>5 DEF StateOK
<1>6. ASSUME NEW r \in InputRules, AddRule(r) PROVE StateOK'
  <2>1. log' \in Seq(AnyRecord)
    BY <1>6, <1>b, LoggedType, RecordType DEF AddRule
  <2>2. rules' \in Seq(InputRules)
    BY <1>6, <1>b DEF AddRule
  <2>3. Typed'
    BY <1>6, <1>a, <2>1, <2>2 DEF AddRule, StartApplyRules, Typed, StateType, Lapse
  <2>4. FrameOK' /\ OneResolution'
    BY <1>6, <1>a DEF AddRule, StartApplyRules, FrameOK, Applying, OneResolution
  <2> QED
    BY <2>3, <2>4 DEF StateOK
<1>7. ASSUME NEW r \in InputRules, AddRuleUnlogged(r) PROVE StateOK'
  <2>1. log' \in Seq(AnyRecord)
    BY <1>7, <1>b, LoggedType, RecordType DEF AddRuleUnlogged
  <2>2. rules' \in Seq(InputRules)
    BY <1>7, <1>b DEF AddRuleUnlogged
  <2>3. Typed'
    BY <1>7, <1>a, <2>1, <2>2 DEF AddRuleUnlogged, AppendFails, CanCall, frame, Typed, StateType, Lapse
  <2>4. FrameOK' /\ OneResolution'
    BY <1>7, <1>a DEF AddRuleUnlogged, AppendFails, CanCall, frame, FrameOK, Applying, OneResolution
  <2> QED
    BY <2>3, <2>4 DEF StateOK
<1>8. ASSUME ReplayFromLog PROVE StateOK'
  <2>1. << >> \in Seq(InputRules) /\ << >> \in Seq(InputBeliefs)
    OBVIOUS
  <2>2. Typed'
    BY <1>8, <1>a, <2>1 DEF ReplayFromLog, StartReplay, ClearStores, Typed, StateType, Lapse
  <2>3. FrameOK' /\ OneResolution'
    BY <1>8 DEF ReplayFromLog, StartReplay, ClearStores, FrameOK, Applying, OneResolution
  <2> QED
    BY <2>2, <2>3 DEF StateOK
<1> QED
  BY <1>1, <1>2, <1>3, <1>4, <1>5, <1>6, <1>7, <1>8 DEF Call

LEMMA OwnStepStateOK == StateOK /\ (BulkEnd \/ ApplyRules \/ Replay \/ Restart) => StateOK'
<1> SUFFICES ASSUME StateOK, BulkEnd \/ ApplyRules \/ Replay \/ Restart PROVE StateOK'
  OBVIOUS
<1> USE InputAssumption, BoundAssumption
<1>a. Typed /\ FrameOK /\ OneResolution
  BY DEF StateOK
<1>b. log \in Seq(AnyRecord) /\ rules \in Seq(InputRules)
  BY <1>a DEF Typed, StateType
<1>1. CASE BulkEnd
  <2>1. Typed'
    BY <1>1, <1>a DEF BulkEnd, StartApplyRules, memory, Typed, StateType
  <2>2. FrameOK' /\ OneResolution'
    BY <1>1, <1>a DEF BulkEnd, StartApplyRules, memory, FrameOK, Applying, OneResolution
  <2> QED
    BY <2>1, <2>2 DEF StateOK
<1>2. CASE StartRound
  <2>1. Typed'
    BY <1>2, <1>a DEF StartRound, memory, Typed, StateType
  <2>2. FrameOK' /\ OneResolution'
    BY <1>2, <1>a DEF StartRound, memory, FrameOK, Applying, OneResolution
  <2> QED
    BY <2>1, <2>2 DEF StateOK
<1>3. CASE EvaluateNextRule
  <2>1. todo' \subseteq Derivations(rules[next], edges)
    BY <1>3 DEF EvaluateNextRule, EvaluateRule
  <2>2. Typed'
    BY <1>3, <1>a DEF EvaluateNextRule, memory, Typed, StateType, Lapse
  <2>3. FrameOK' /\ OneResolution'
    BY <1>3, <1>a, <2>1 DEF EvaluateNextRule, memory, FrameOK, Applying, OneResolution
  <2> QED
    BY <2>2, <2>3 DEF StateOK
<1>4. ASSUME NEW d \in todo, Derive(d) PROVE StateOK'
  <2> DEFINE r == rules[next]
  <2>1. r \in Rule /\ edges \subseteq Atom /\ d \in Derivations(r, edges)
    BY <1>4, <1>a, <1>b DEF Derive, FrameOK, Typed, StateType
  <2>2. /\ d.then \in [from : Term, pred : Term, to : Term] /\ d.prem \in Seq(Atom)
        /\ ValidAtom(d.then) => d.then \in Atom
    BY <2>1, DerivationType
  <2>3. derivations' \subseteq Proof
    BY <1>4, <1>a, <2>1, <2>2 DEF Derive, AddDerivation, Proof, Rule, Typed, StateType
  <2>4. beliefs' \subseteq Belief /\ graph' \subseteq Atom /\ semantic' \subseteq Atom
    <3>1. CASE ValidAtom(d.then)
      <4>1. DerivedBelief(d.then, r) \in Belief
        BY <2>1, <2>2, <3>1 DEF DerivedBelief, Belief, Polarity, Source, Rule
      <4>2. Projected({DerivedBelief(d.then, r)}, resolutions) \subseteq Atom
        BY <4>1, ProjectedType
      <4> QED
        BY <1>4, <1>a, <3>1, <4>1, <4>2 DEF Derive, IngestNoLog, Typed, StateType
    <3>2. CASE ~ValidAtom(d.then)
      BY <1>4, <1>a, <3>2 DEF Derive, Typed, StateType
    <3> QED
      BY <3>1, <3>2
  <2>5. graph \subseteq graph'
    BY <1>4 DEF Derive, IngestNoLog
  <2>6. /\ pc' \in {"idle", "derive"} /\ next' \in Nat /\ edges' \subseteq Atom
        /\ remaining' \in Nat /\ added' \in BOOLEAN /\ lapses' \subseteq Lapse
        /\ pc' = "derive" => remaining' > 0 /\ todo' \subseteq todo /\ UNCHANGED <<edges, next>>
    <3>1. /\ remaining \in Nat /\ remaining > 0 /\ edges \subseteq Atom /\ next \in Nat
          /\ added \in BOOLEAN /\ lapses \subseteq Lapse /\ pc = "derive"
      BY <1>4, <1>a DEF Derive, Typed, StateType, FrameOK, Applying
    <3>2. CASE CountGrows /\ remaining = 1
      <4>1. Return /\ lapses' = lapses \cup {"budget"}
        BY <1>4, <3>2, Zenon DEF Derive
      <4> QED
        BY <3>1, <4>1 DEF Return, ClearFrame, Lapse
    <3>3. CASE CountGrows /\ remaining # 1
      <4>1. /\ remaining' = remaining - 1 /\ added' = TRUE /\ todo' = todo \ {d}
            /\ UNCHANGED <<pc, edges, next, lapses>>
        BY <1>4, <3>3, Zenon DEF Derive
      <4> QED
        BY <3>1, <3>3, <4>1
    <3>4. CASE ~CountGrows
      BY <1>4, <3>1, <3>4 DEF Derive
    <3> QED
      BY <3>2, <3>3, <3>4
  <2>7. UNCHANGED <<resolutions, rules, audit, log, faults>> /\ pc = "derive"
    BY <1>4 DEF Derive
  <2>8. Typed'
    BY <1>a, <2>3, <2>4, <2>6, <2>7 DEF Typed, StateType
  <2>9. FrameOK' /\ OneResolution'
    BY <1>a, <2>5, <2>6, <2>7 DEF FrameOK, Applying, OneResolution
  <2> QED
    BY <2>8, <2>9 DEF StateOK
<1>5. CASE RuleDone
  <2>1. Typed'
    BY <1>5, <1>a DEF RuleDone, memory, Typed, StateType
  <2>2. FrameOK' /\ OneResolution'
    BY <1>5, <1>a DEF RuleDone, memory, FrameOK, Applying, OneResolution
  <2> QED
    BY <2>1, <2>2 DEF StateOK
<1>6. CASE RoundDone
  <2>1. Typed'
    <3>1. CASE RoundAgain
      BY <1>6, <1>a, <3>1 DEF RoundDone, memory, frame, Typed, StateType
    <3>2. CASE ~RoundAgain
      <4>1. Return /\ UNCHANGED <<memory, log, lapses, faults>>
        BY <1>6, <3>2, Zenon DEF RoundDone
      <4> QED
        BY <1>a, <4>1 DEF Return, ClearFrame, memory, Typed, StateType
    <3> QED
      BY <3>1, <3>2
  <2>2. FrameOK' /\ OneResolution'
    BY <1>6, <1>a DEF RoundDone, Return, ClearFrame, memory, frame, FrameOK, Applying,
                      OneResolution
  <2> QED
    BY <2>1, <2>2 DEF StateOK
<1>7. CASE ReplayRecord
  <2> DEFINE rec == log[next]
  <2>1. /\ rec.type = "fact" => rec.data \in Belief
        /\ rec.type = "resolution" => rec.data \in Resolution
        /\ rec.type = "rule" => rec.data \in InputRules
    <3>1. rec \in AnyRecord
      BY <1>7, <1>b DEF ReplayRecord
    <3> QED
      BY <3>1 DEF AnyRecord
  <2>2. /\ beliefs' \subseteq Belief /\ graph' \subseteq Atom /\ semantic' \subseteq Atom
        /\ resolutions' \subseteq Resolution /\ OneResolution' /\ rules' \in Seq(InputRules)
    <3>1. CASE rec.type = "fact"
      <4>1. Projected({rec.data}, resolutions) \subseteq Atom
        BY <2>1, <3>1, ProjectedType
      <4> QED
        BY <1>7, <1>a, <2>1, <3>1, <4>1 DEF ReplayRecord, IngestNoLog, Typed, StateType, OneResolution
    <3>2. CASE rec.type = "resolution"
      BY <1>7, <1>a, <2>1, <3>2, SetResolutionType DEF ReplayRecord, Typed, StateType, OneResolution
    <3>3. CASE rec.type = "rule"
      <4>1. rules' \in Seq(InputRules)
        BY <1>7, <1>b, <2>1, <3>3, SMTT(60) DEF ReplayRecord
      <4> QED
        BY <1>7, <1>a, <3>3, <4>1 DEF ReplayRecord, Typed, StateType, OneResolution
    <3> QED
      BY <1>7, <3>1, <3>2, <3>3 DEF ReplayRecord
  <2>3. Typed'
    BY <1>7, <1>a, <2>2 DEF ReplayRecord, Typed, StateType
  <2>4. FrameOK'
    BY <1>7, <1>a DEF ReplayRecord, FrameOK, Applying
  <2> QED
    BY <2>2, <2>3, <2>4 DEF StateOK
<1>8. CASE ReplayFails
  <2>1. Typed'
    BY <1>8, <1>a DEF ReplayFails, Return, ClearFrame, memory, Typed, StateType
  <2>2. FrameOK' /\ OneResolution'
    BY <1>8, <1>a DEF ReplayFails, Return, ClearFrame, memory, FrameOK, Applying, OneResolution
  <2> QED
    BY <2>1, <2>2 DEF StateOK
<1>9. CASE ReplayDone
  <2>1. Base(beliefs) \subseteq Belief
    BY <1>a DEF Base, Typed, StateType
  <2>2. Projected(Base(beliefs), resolutions) \subseteq Atom
    BY <2>1, ProjectedType
  <2>3. Typed'
    BY <1>9, <1>a, <2>1, <2>2 DEF ReplayDone, Recompute, StartApplyRules, Typed, StateType
  <2>4. FrameOK' /\ OneResolution'
    BY <1>9, <1>a DEF ReplayDone, Recompute, StartApplyRules, FrameOK, Applying, OneResolution
  <2> QED
    BY <2>3, <2>4 DEF StateOK
<1>10. CASE Restart
  <2>1. << >> \in Seq(InputRules) /\ << >> \in Seq(InputBeliefs)
    OBVIOUS
  <2>0. faults' \in Nat
    BY <1>10, <1>a DEF Restart, Typed, StateType
  <2>2. Typed'
    BY <1>10, <1>a, <2>1, <2>0 DEF Restart, StartReplay, ClearStores, Typed, StateType, Lapse
  <2>3. FrameOK' /\ OneResolution'
    BY <1>10 DEF Restart, StartReplay, ClearStores, FrameOK, Applying, OneResolution
  <2> QED
    BY <2>2, <2>3 DEF StateOK
<1> QED
  BY <1>1, <1>2, <1>3, <1>4, <1>5, <1>6, <1>7, <1>8, <1>9, <1>10 DEF ApplyRules, Replay

LEMMA NextStateOK == StateOK /\ [Next]_vars => StateOK'
<1>1. ASSUME StateOK, UNCHANGED vars PROVE StateOK'
  BY <1>1 DEF vars, memory, frame, StateOK, Typed, StateType, FrameOK, Applying, OneResolution
<1> QED
  BY <1>1, CallStateOK, OwnStepStateOK DEF Next

-----------------------------------------------------------------------------
(* Nothing but inputs is logged.                                            *)

LogInputs == log \in Seq(Record)

\* What a call may do to the log.
LogGrows ==
  \/ log' = log
  \/ \E rec \in Record : log' = Append(log, rec)

LEMMA StepsLogInputs == [Next]_vars => LogGrows
<1> SUFFICES ASSUME [Next]_vars PROVE LogGrows
  OBVIOUS
<1>1. ASSUME NEW b \in InputBeliefs, Ingest(b) \/ IngestUnlogged(b) \/ BulkLine(b) PROVE LogGrows
  <2>1. [type |-> "fact", data |-> b] \in Record
    BY DEF Record
  <2> QED
    BY <1>1, <2>1 DEF Ingest, IngestUnlogged, BulkLine, AppendFails, Logged, LogGrows
<1>2. ASSUME NEW r \in InputResolutions, Resolve(r) \/ ResolveUnlogged(r) PROVE LogGrows
  <2>1. [type |-> "resolution", data |-> r] \in Record
    BY DEF Record
  <2> QED
    BY <1>2, <2>1 DEF Resolve, ResolveUnlogged, AppendFails, Logged, LogGrows
<1>3. ASSUME NEW r \in InputRules, AddRule(r) \/ AddRuleUnlogged(r) PROVE LogGrows
  <2>1. [type |-> "rule", data |-> r] \in Record
    BY DEF Record
  <2> QED
    BY <1>3, <2>1 DEF AddRule, AddRuleUnlogged, AppendFails, Logged, LogGrows
<1>4. ASSUME ReplayFromLog \/ BulkEnd \/ Restart PROVE LogGrows
  BY <1>4 DEF ReplayFromLog, StartReplay, BulkEnd, Restart, LogGrows
<1>5. ASSUME ApplyRules PROVE LogGrows
  BY <1>5 DEF ApplyRules, StartRound, EvaluateNextRule, RuleDone, RoundDone, Derive, LogGrows
<1>6. ASSUME Replay PROVE LogGrows
  BY <1>6 DEF Replay, ReplayRecord, ReplayFails, ReplayDone, LogGrows
<1>7. ASSUME UNCHANGED vars PROVE LogGrows
  BY <1>7 DEF vars, LogGrows
<1> QED
  BY <1>1, <1>2, <1>3, <1>4, <1>5, <1>6, <1>7 DEF Next, Call

LEMMA InputsLogged == LogInputs /\ [Next]_vars => LogInputs'
BY StepsLogInputs DEF LogInputs, LogGrows

LEMMA StateHolds == Spec => [](StateOK /\ LogInputs)
<1>1. Init => LogInputs
  BY DEF Init, LogInputs
<1> QED
  BY <1>1, InitStateOK, NextStateOK, InputsLogged, PTL DEF Spec

(***************************************************************************)
(* Whatever callers do and however often calls fail or the process dies, the *)
(* stores hold well-formed data: no derived atom with an empty field gets in, *)
(* and no more derivations are made than were allowed.                       *)
(***************************************************************************)
THEOREM TypeCorrect == Spec => []TypeOK
<1>1. StateOK /\ LogInputs => TypeOK
  BY DEF StateOK, Typed, LogInputs, TypeOK
<1> QED
  BY <1>1, StateHolds, PTL

-----------------------------------------------------------------------------
(***************************************************************************)
(* What a step may do to the stores: learn a belief, derive one, build all    *)
(* again from the asserted beliefs, drop all, or keep all but for a rule at   *)
(* the end of the list.                                                     *)
(***************************************************************************)
RulesExtend == \A i \in DOMAIN rules : i \in DOMAIN rules' /\ rules'[i] = rules[i]

Learns(b) == /\ IngestNoLog(b)
             /\ UNCHANGED <<resolutions, derivations, rules>>
             /\ UpToDate' => UpToDate

Rebuilds == Recompute(beliefs, resolutions') /\ UNCHANGED rules

Drops == ClearStores /\ ~UpToDate'

Keeps == /\ UNCHANGED <<beliefs, graph, semantic, derivations>> /\ RulesExtend
         /\ UpToDate' => UpToDate /\ UNCHANGED resolutions

\* Asserted by a caller, or read from the log.
Told(b) == b \in InputBeliefs \/ (~UpToDate' /\ b \in Data("fact"))

\* The log holds no derived fact.
PlainLog == PlainSources => \A b \in Data("fact") : ~b.src.rule

LEMMA InputsArePlain == LogInputs => PlainLog
BY DEF LogInputs, PlainLog, PlainSources, Data, DataIn, Record

LEMMA ToldIsPlain ==
  ASSUME PlainSources, NEW b, Told(b), PlainLog \/ UpToDate'
  PROVE  ~b.src.rule
BY DEF Told, PlainLog, PlainSources

LEMMA AppendExtends ==
  ASSUME rules \in Seq(InputRules), NEW r \in InputRules, rules' = Append(rules, r)
  PROVE  RulesExtend
BY DEF RulesExtend

LEMMA StepKinds ==
  ASSUME StateOK, [Next]_vars
  PROVE  \/ \E b \in Belief : Learns(b) /\ Told(b)
         \/ \E d \in todo : Derive(d)
         \/ Rebuilds
         \/ Drops
         \/ Keeps
<1>a. rules \in Seq(InputRules) /\ log \in Seq(AnyRecord) /\ FrameOK
  BY DEF StateOK, Typed, StateType
<1>1. ASSUME NEW b \in InputBeliefs, Ingest(b) \/ IngestUnlogged(b) \/ BulkLine(b)
      PROVE  b \in Belief /\ Learns(b) /\ Told(b)
  BY <1>1, InputAssumption DEF Ingest, IngestUnlogged, BulkLine, Learns, Told, UpToDate
<1>2. ASSUME NEW r \in InputResolutions, Resolve(r) PROVE Rebuilds
  BY <1>2 DEF Resolve, Recompute, Rebuilds
<1>3. ASSUME NEW r \in InputResolutions, ResolveUnlogged(r) PROVE Keeps
  BY <1>3 DEF ResolveUnlogged, Keeps, RulesExtend, UpToDate
<1>4. ASSUME NEW r \in InputRules, AddRule(r) PROVE Keeps
  BY <1>4, <1>a, AppendExtends DEF AddRule, Keeps, UpToDate
<1>5. ASSUME NEW r \in InputRules, AddRuleUnlogged(r) PROVE Keeps
  BY <1>5, <1>a, AppendExtends DEF AddRuleUnlogged, Keeps, UpToDate
<1>6. ASSUME ReplayFromLog \/ Restart PROVE Drops
  BY <1>6 DEF ReplayFromLog, Restart, StartReplay, Drops, UpToDate
<1>7. ASSUME BulkEnd \/ RuleDone \/ RoundDone \/ ReplayFails PROVE Keeps
  BY <1>7 DEF BulkEnd, RuleDone, RoundDone, ReplayFails, memory, Keeps, RulesExtend, UpToDate
<1>8. ASSUME StartRound \/ EvaluateNextRule PROVE Keeps
  BY <1>8 DEF StartRound, EvaluateNextRule, memory, Keeps, RulesExtend, UpToDate
<1>9. ASSUME ReplayRecord PROVE (\E b \in Belief : Learns(b) /\ Told(b)) \/ Keeps
  <2> DEFINE rec == log[next]
  <2>1. rec \in AnyRecord /\ ~UpToDate'
    BY <1>9, <1>a DEF ReplayRecord, FrameOK, UpToDate
  <2>2. CASE rec.type = "fact"
    <3>1. rec.data \in Belief
      BY <2>1, <2>2, InputAssumption DEF AnyRecord
    <3>2. Learns(rec.data)
      BY <1>9, <2>1, <2>2 DEF ReplayRecord, Learns
    <3>3. Told(rec.data)
      BY <1>9, <2>1, <2>2 DEF ReplayRecord, Told, Data, DataIn
    <3> QED
      BY <3>1, <3>2, <3>3
  <2>3. CASE rec.type = "resolution"
    BY <1>9, <2>1, <2>3 DEF ReplayRecord, Keeps, RulesExtend
  <2>4. CASE rec.type = "rule"
    <3>1. rec.data \in InputRules
      BY <2>1, <2>4 DEF AnyRecord
    <3> QED
      BY <1>9, <1>a, <2>1, <2>4, <3>1, AppendExtends DEF ReplayRecord, Keeps
  <2> QED
    BY <1>9, <2>2, <2>3, <2>4 DEF ReplayRecord
<1>10. ASSUME ReplayDone PROVE Rebuilds
  BY <1>10 DEF ReplayDone, Recompute, Rebuilds
<1>11. ASSUME UNCHANGED vars PROVE Keeps
  BY <1>11 DEF vars, memory, Keeps, RulesExtend, UpToDate
<1> QED
  BY <1>1, <1>2, <1>3, <1>4, <1>5, <1>6, <1>7, <1>8, <1>9, <1>10, <1>11
     DEF Next, Call, ApplyRules, Replay

\* A graph that was behind is right again when all is built anew.
LEMMA RebuiltInTime ==
  ASSUME StateOK, [Next]_vars, UpToDate', ~UpToDate
  PROVE  Rebuilds
<1>1. ASSUME NEW d \in todo, Derive(d) PROVE FALSE
  BY <1>1 DEF Derive, UpToDate
<1> QED
  BY <1>1, StepKinds DEF Learns, Drops, Keeps

-----------------------------------------------------------------------------
(* The graph is the projection of what is believed.                         *)

Projection == UpToDate => graph = Projected(beliefs, resolutions) /\ semantic = graph

LEMMA IngestProjects ==
  ASSUME Projection, NEW b, IngestNoLog(b), UNCHANGED resolutions, UpToDate
  PROVE  graph' = Projected(beliefs', resolutions') /\ semantic' = graph'
<1>1. Projected(beliefs \cup {b}, resolutions)
        = Projected(beliefs, resolutions) \cup Projected({b}, resolutions)
  BY DEF Projected
<1> QED
  BY <1>1 DEF Projection, IngestNoLog

LEMMA ProjectionStep == StateOK /\ Projection /\ [Next]_vars => Projection'
<1> SUFFICES ASSUME StateOK, Projection, [Next]_vars PROVE Projection'
  OBVIOUS
<1>1. ASSUME NEW b \in Belief, Learns(b) PROVE Projection'
  BY <1>1, IngestProjects DEF Learns, Projection
<1>2. ASSUME NEW d \in todo, Derive(d) PROVE Projection'
  <2>1. (UpToDate' => UpToDate) /\ UNCHANGED resolutions
    BY <1>2 DEF Derive, UpToDate
  <2>2. CASE ValidAtom(d.then)
    <3>1. IngestNoLog(DerivedBelief(d.then, rules[next]))
      BY <1>2, <2>2 DEF Derive
    <3> QED
      BY <2>1, <3>1, IngestProjects DEF Projection
  <2>3. CASE ~ValidAtom(d.then)
    <3>1. UNCHANGED <<beliefs, graph, semantic>>
      BY <1>2, <2>3 DEF Derive
    <3> QED
      BY <2>1, <3>1 DEF Projection
  <2> QED
    BY <2>2, <2>3
<1>3. ASSUME Rebuilds PROVE Projection'
  <2>1. Projected(Base(beliefs), resolutions') = Projected(beliefs', resolutions')
    BY <1>3 DEF Rebuilds, Recompute
  <2> QED
    BY <1>3, <2>1 DEF Rebuilds, Recompute, Projection
<1>4. ASSUME Drops PROVE Projection'
  BY <1>4 DEF Drops, Projection
<1>5. ASSUME Keeps PROVE Projection'
  BY <1>5 DEF Keeps, Projection
<1> QED
  BY <1>1, <1>2, <1>3, <1>4, <1>5, StepKinds

LEMMA InitProjection == Init => Projection
BY DEF Init, Projection, Projected

(***************************************************************************)
(* What Evaluate answers of an atom with a positive belief depends only on     *)
(* whether it is resolved false.                                            *)
(***************************************************************************)
LEMMA TruthOfBelieved ==
  ASSUME Typed, OneResolution, NEW a, Believed(a, "+")
  PROVE  /\ a \in ResolvedFalse(resolutions) => Truth(a) = "false"
         /\ a \notin ResolvedFalse(resolutions) => Truth(a) \in {"true", "both"}
<1>1. Evidence(a) \subseteq {"+", "-"}
  BY DEF Evidence, Typed, StateType, Belief, Resolution, Polarity
<1>2. CASE a \in ResolvedFalse(resolutions)
  <2>1. Evidence(a) = {"-"}
    BY <1>2 DEF Evidence, ResolvedFalse, OneResolution
  <2> QED
    BY <1>2, <2>1 DEF Truth
<1>3. CASE a \notin ResolvedFalse(resolutions)
  <2>1. "+" \in Evidence(a)
    <3>1. CASE \E r \in resolutions : r.atom = a
      BY <1>3, <3>1 DEF Evidence, ResolvedFalse, Typed, StateType, Resolution, Polarity
    <3>2. CASE ~\E r \in resolutions : r.atom = a
      BY <3>2 DEF Evidence, Believed
    <3> QED
      BY <3>1, <3>2
  <2>2. Evidence(a) = {"+"} \/ Evidence(a) = {"+", "-"}
    BY <1>1, <2>1
  <2> QED
    BY <1>3, <2>2 DEF Truth
<1> QED
  BY <1>2, <1>3

LEMMA ProjectionIsTruth ==
  ASSUME Typed, OneResolution, Projection
  PROVE  GraphIsProjection
<1>1. ASSUME NEW a PROVE
        a \in Projected(beliefs, resolutions) <=>
          /\ a \in {b.atom : b \in beliefs} /\ Believed(a, "+") /\ Truth(a) # "false"
  <2>1. a \in Projected(beliefs, resolutions) <=>
          Believed(a, "+") /\ a \notin ResolvedFalse(resolutions)
    BY DEF Projected, Believed
  <2>2. Believed(a, "+") => a \in {b.atom : b \in beliefs}
    BY DEF Believed
  <2> QED
    BY <2>1, <2>2, TruthOfBelieved
<1>2. Projected(beliefs, resolutions)
        = {a \in {b.atom : b \in beliefs} : Believed(a, "+") /\ Truth(a) # "false"}
  BY <1>1
<1> QED
  BY <1>2 DEF Projection, GraphIsProjection

(***************************************************************************)
(* In every state where no resolution waits for a rebuild, whether in the     *)
(* middle of a call or after failures and restarts, the graph rules derive    *)
(* from holds the believed atoms Evaluate does not call false, and the         *)
(* semantic index holds the same.                                           *)
(***************************************************************************)
THEOREM GraphFollowsTruth == Spec => []GraphIsProjection
<1>1. Spec => [](StateOK /\ Projection)
  BY InitStateOK, NextStateOK, InitProjection, ProjectionStep, PTL DEF Spec
<1>2. StateOK /\ Projection => GraphIsProjection
  BY ProjectionIsTruth DEF StateOK
<1> QED
  BY <1>1, <1>2, PTL

-----------------------------------------------------------------------------
(* Proofs stay sound.                                                       *)

OnRecord == derivations \subseteq ProvableNow

BeliefsProved ==
  PlainSources => \A b \in beliefs \ Asserted :
                    \E p \in derivations : p.atom = b.atom /\ p.rule = b.src.name

ProofsHold == OnRecord /\ BeliefsProved

LEMMA ProvableGrows ==
  ASSUME graph \subseteq graph', RulesExtend
  PROVE  ProvableNow \subseteq ProvableNow'
<1> SUFFICES ASSUME NEW p \in ProvableNow PROVE p \in ProvableNow'
  OBVIOUS
<1>1. PICK i \in DOMAIN rules : p \in Proofs(i)
  BY DEF ProvableNow
<1>2. PICK d \in Derivations(rules[i], graph) :
        p = [atom |-> d.then, rule |-> rules[i].name, prem |-> d.prem]
  BY <1>1 DEF Proofs
<1>3. d \in Derivations(rules[i], graph')
  BY <1>2, DerivationsMonotone
<1>4. i \in DOMAIN rules' /\ rules'[i] = rules[i]
  BY DEF RulesExtend
<1> QED
  BY <1>2, <1>3, <1>4 DEF ProvableNow, Proofs

LEMMA OnRecordStep == StateOK /\ OnRecord /\ [Next]_vars => OnRecord'
<1> SUFFICES ASSUME StateOK, OnRecord, [Next]_vars PROVE OnRecord'
  OBVIOUS
<1>1. ASSUME NEW b \in Belief, Learns(b) PROVE OnRecord'
  <2>1. graph \subseteq graph' /\ RulesExtend /\ UNCHANGED derivations
    BY <1>1 DEF Learns, IngestNoLog, RulesExtend
  <2> QED
    BY <2>1, ProvableGrows DEF OnRecord
<1>2. ASSUME NEW d \in todo, Derive(d) PROVE OnRecord'
  <2> DEFINE r == rules[next]
             p == [atom |-> d.then, rule |-> r.name, prem |-> d.prem]
  <2>1. derivations' = derivations \cup {p} /\ UNCHANGED rules
    BY <1>2 DEF Derive, AddDerivation
  <2>2. graph \subseteq graph' /\ RulesExtend
    BY <1>2 DEF Derive, IngestNoLog, RulesExtend
  <2>3. p \in ProvableNow'
    <3>1. next \in DOMAIN rules /\ edges \subseteq graph' /\ d \in Derivations(r, edges)
      BY <1>2, <2>2 DEF Derive, StateOK, FrameOK
    <3>2. d \in Derivations(r, graph')
      BY <3>1, DerivationsMonotone
    <3> QED
      BY <2>1, <3>1, <3>2 DEF ProvableNow, Proofs
  <2> QED
    BY <2>1, <2>2, <2>3, ProvableGrows DEF OnRecord
<1>3. ASSUME Rebuilds PROVE OnRecord'
  BY <1>3 DEF Rebuilds, Recompute, OnRecord
<1>4. ASSUME Drops PROVE OnRecord'
  BY <1>4 DEF Drops, ClearStores, OnRecord
<1>5. ASSUME Keeps PROVE OnRecord'
  BY <1>5, ProvableGrows DEF Keeps, OnRecord
<1> QED
  BY <1>1, <1>2, <1>3, <1>4, <1>5, StepKinds

(***************************************************************************)
(* A derived belief comes with its proof, unless it is read from a log; then  *)
(* the rebuild at the end of the replay drops it.                           *)
(***************************************************************************)
LEMMA BeliefsProvedStep ==
  ASSUME StateOK, [Next]_vars, BeliefsProved \/ Rebuilds, PlainLog \/ UpToDate'
  PROVE  BeliefsProved'
<1>1. ASSUME NEW b \in Belief, Learns(b), Told(b), BeliefsProved PROVE BeliefsProved'
  <2>1. beliefs' = beliefs \cup {b} /\ UNCHANGED derivations
    BY <1>1 DEF Learns, IngestNoLog
  <2>2. PlainSources => ~b.src.rule
    BY <1>1, ToldIsPlain
  <2> QED
    BY <1>1, <2>1, <2>2 DEF BeliefsProved, PlainSources, Asserted
<1>2. ASSUME NEW d \in todo, Derive(d), BeliefsProved PROVE BeliefsProved'
  <2> DEFINE r == rules[next]
             p == [atom |-> d.then, rule |-> r.name, prem |-> d.prem]
  <2>1. derivations' = derivations \cup {p}
    BY <1>2 DEF Derive, AddDerivation
  <2>2. beliefs' \subseteq beliefs \cup {DerivedBelief(d.then, r)}
    BY <1>2 DEF Derive, IngestNoLog
  <2>3. \E q \in derivations' : q.atom = DerivedBelief(d.then, r).atom
                              /\ q.rule = DerivedBelief(d.then, r).src.name
    <3>1. p \in derivations'
      BY <2>1
    <3>2. p.atom = DerivedBelief(d.then, r).atom /\ p.rule = DerivedBelief(d.then, r).src.name
      BY DEF DerivedBelief
    <3> QED
      BY <3>1, <3>2
  <2> QED
    BY <1>2, <2>1, <2>2, <2>3 DEF BeliefsProved, PlainSources, Asserted
<1>3. ASSUME Rebuilds PROVE BeliefsProved'
  BY <1>3 DEF Rebuilds, Recompute, Base, BeliefsProved, Asserted
<1>4. ASSUME Drops PROVE BeliefsProved'
  BY <1>4 DEF Drops, ClearStores, BeliefsProved
<1>5. ASSUME Keeps, BeliefsProved PROVE BeliefsProved'
  BY <1>5 DEF Keeps, BeliefsProved, PlainSources, Asserted
<1> QED
  BY <1>1, <1>2, <1>3, <1>4, <1>5, StepKinds

LEMMA ProofsStep == StateOK /\ LogInputs /\ ProofsHold /\ [Next]_vars => ProofsHold'
BY OnRecordStep, BeliefsProvedStep, InputsArePlain DEF ProofsHold

LEMMA ProofsHoldSound ==
  ASSUME Typed, OneResolution, Projection, ProofsHold
  PROVE  ProofsAreSound
<1>1. ASSUME UpToDate, NEW p \in derivations, NEW i \in DOMAIN p.prem
      PROVE  Truth(p.prem[i]) \in {"true", "both"}
  <2>1. PICK k \in DOMAIN rules : p \in Proofs(k)
    BY DEF ProofsHold, OnRecord, ProvableNow
  <2>2. PICK d \in Derivations(rules[k], graph) : p.prem = d.prem
    BY <2>1 DEF Proofs
  <2>3. rules[k] \in Rule
    BY InputAssumption DEF Typed, StateType
  <2>4. p.prem[i] \in graph
    BY <2>2, <2>3, DerivationType DEF Typed, StateType
  <2>5. Believed(p.prem[i], "+") /\ p.prem[i] \notin ResolvedFalse(resolutions)
    BY <1>1, <2>4 DEF Projection, Projected, Believed
  <2> QED
    BY <2>5, TruthOfBelieved
<1> QED
  BY <1>1 DEF ProofsHold, OnRecord, BeliefsProved, ProofsAreSound

(***************************************************************************)
(* A derivation on record never rests on a premise that is not true at that   *)
(* moment, and no belief the engine wrote is without one.                    *)
(***************************************************************************)
THEOREM ProofsStaySound == Spec => []ProofsAreSound
<1>1. Init => ProofsHold
  BY DEF Init, ProofsHold, OnRecord, BeliefsProved
<1>2. Spec => [](StateOK /\ Projection /\ ProofsHold)
  BY <1>1, StateHolds, InitProjection, ProjectionStep, ProofsStep, PTL DEF Spec
<1>3. StateOK /\ Projection /\ ProofsHold => ProofsAreSound
  BY ProofsHoldSound DEF StateOK
<1> QED
  BY <1>2, <1>3, PTL

-----------------------------------------------------------------------------
(* Nothing is invented.                                                     *)

\* T holds what is asserted and what follows from T, as far as the graph knows it.
Saturated(T) ==
  /\ \A b \in Asserted : b.pol = "+" /\ b.atom \in graph => b.atom \in T
  /\ \A i \in DOMAIN rules : \A d \in Derivations(rules[i], T) : d.then \in graph => d.then \in T

Grounded == PlainSources => \A T \in SUBSET graph : Saturated(T) => T = graph

(***************************************************************************)
(* A saturated part of the next graph holds the whole of this one, as long as *)
(* beliefs and rules only grow: what it shares with this graph is saturated.  *)
(***************************************************************************)
LEMMA SaturatedHoldsGraph ==
  ASSUME Grounded, PlainSources, graph \subseteq graph', Asserted \subseteq Asserted', RulesExtend,
         NEW T \in SUBSET graph', Saturated(T)'
  PROVE  graph \subseteq T
<1> DEFINE S == T \cap graph
<1>1. \A b \in Asserted : b.pol = "+" /\ b.atom \in graph => b.atom \in S
  BY DEF Saturated
<1>2. ASSUME NEW i \in DOMAIN rules, NEW d \in Derivations(rules[i], S), d.then \in graph
      PROVE  d.then \in S
  <2>1. d \in Derivations(rules[i], T)
    BY <1>2, DerivationsMonotone
  <2>2. i \in DOMAIN rules' /\ rules'[i] = rules[i]
    BY DEF RulesExtend
  <2> QED
    BY <1>2, <2>1, <2>2 DEF Saturated
<1>3. Saturated(S)
  BY <1>1, <1>2 DEF Saturated
<1>4. S = graph
  BY <1>3 DEF Grounded
<1> QED
  BY <1>4

(***************************************************************************)
(* What a step adds follows from what is asserted, unless it is read from a    *)
(* log that holds derived facts; a rebuild starts from what is asserted.      *)
(***************************************************************************)
LEMMA GroundedStep ==
  ASSUME StateOK, [Next]_vars, Grounded \/ Rebuilds, PlainLog \/ UpToDate'
  PROVE  Grounded'
<1> SUFFICES ASSUME PlainSources, NEW T \in SUBSET graph', Saturated(T)'
             PROVE  graph' \subseteq T
  BY DEF Grounded, PlainSources
<1>1. ASSUME NEW b \in Belief, Learns(b), Told(b), Grounded PROVE graph' \subseteq T
  <2>1. graph \subseteq T
    BY <1>1, SaturatedHoldsGraph DEF Learns, IngestNoLog, Asserted, RulesExtend
  <2>2. Projected({b}, resolutions) \subseteq T
    <3>1. b \in Asserted'
      BY <1>1, ToldIsPlain DEF Learns, IngestNoLog, Asserted
    <3>2. ASSUME NEW a \in Projected({b}, resolutions) PROVE a \in T
      <4>1. a = b.atom /\ b.pol = "+" /\ a \in graph'
        BY <1>1, <3>2 DEF Projected, Learns, IngestNoLog
      <4> QED
        BY <3>1, <4>1 DEF Saturated
    <3> QED
      BY <3>2
  <2> QED
    BY <1>1, <2>1, <2>2 DEF Learns, IngestNoLog
<1>2. ASSUME NEW d \in todo, Derive(d), Grounded PROVE graph' \subseteq T
  <2>1. graph \subseteq graph' /\ Asserted \subseteq Asserted' /\ RulesExtend /\ UNCHANGED rules
    BY <1>2 DEF Derive, IngestNoLog, Asserted, RulesExtend
  <2>2. graph \subseteq T
    BY <1>2, <2>1, SaturatedHoldsGraph
  <2>3. /\ next \in DOMAIN rules' /\ rules'[next] = rules[next]
        /\ edges \subseteq graph /\ d \in Derivations(rules[next], edges)
    BY <1>2, <2>1 DEF Derive, StateOK, FrameOK
  <2>4. d \in Derivations(rules'[next], T)
    BY <2>2, <2>3, DerivationsMonotone
  <2>5. d.then \in graph' => d.then \in T
    BY <2>3, <2>4 DEF Saturated
  <2>6. graph' \subseteq graph \cup {d.then}
    BY <1>2 DEF Derive, IngestNoLog, Projected, DerivedBelief
  <2> QED
    BY <2>2, <2>5, <2>6
<1>3. ASSUME Rebuilds PROVE graph' \subseteq T
  <2>1. beliefs' = Base(beliefs) /\ graph' = Projected(beliefs', resolutions')
    BY <1>3 DEF Rebuilds, Recompute
  <2>2. ASSUME NEW a \in graph' PROVE a \in T
    <3>1. PICK b \in beliefs' : b.pol = "+" /\ b.atom = a
      BY <2>1, <2>2 DEF Projected
    <3>2. b \in Asserted'
      BY <2>1, <3>1 DEF Base, Asserted
    <3> QED
      BY <2>2, <3>1, <3>2 DEF Saturated
  <2> QED
    BY <2>2
<1>4. ASSUME Drops PROVE graph' \subseteq T
  BY <1>4 DEF Drops, ClearStores
<1>5. ASSUME Keeps, Grounded PROVE graph' \subseteq T
  BY <1>5, SaturatedHoldsGraph DEF Keeps, Asserted
<1> QED
  BY <1>1, <1>2, <1>3, <1>4, <1>5, StepKinds

(***************************************************************************)
(* The engine never invents a fact: whatever the calls, failures, replays and *)
(* restarts, no atom of the graph is there but by rules from asserted facts.  *)
(***************************************************************************)
THEOREM NeverInvents == Spec => []NoInventedFacts
<1>1. Init => Grounded
  BY DEF Init, Grounded
<1>2. StateOK /\ LogInputs /\ Grounded /\ [Next]_vars => Grounded'
  BY GroundedStep, InputsArePlain
<1>3. Spec => []Grounded
  BY <1>1, <1>2, StateHolds, PTL DEF Spec
<1>4. Grounded => NoInventedFacts
  BY DEF Grounded, Saturated, NoInventedFacts
<1> QED
  BY <1>3, <1>4, PTL

-----------------------------------------------------------------------------
(* Memory and log: what the settled state holds is what the log holds.         *)

-----------------------------------------------------------------------------
(* What a record at the end of a log adds to what the log holds.            *)

LEMMA DataAppended ==
  ASSUME NEW R, NEW l \in Seq(R), NEW rec \in R, NEW type
  PROVE  DataIn(Append(l, rec), type)
           = DataIn(l, type) \cup (IF rec.type = type THEN {rec.data} ELSE {})
<1> DEFINE m == Append(l, rec)
<1>1. /\ Len(m) = Len(l) + 1 /\ DOMAIN m = 1 .. Len(l) + 1 /\ DOMAIN l = 1 .. Len(l)
      /\ m[Len(l) + 1] = rec /\ \A i \in DOMAIN l : m[i] = l[i]
      /\ Len(l) \in Nat
  OBVIOUS
<1>2. DOMAIN m = DOMAIN l \cup {Len(l) + 1}
  BY <1>1
<1> HIDE DEF m
<1>3. {j \in DOMAIN m : m[j].type = type}
        = {j \in DOMAIN l : l[j].type = type} \cup (IF rec.type = type THEN {Len(l) + 1} ELSE {})
  BY <1>1, <1>2
<1> QED
  BY <1>1, <1>3 DEF DataIn, m

LEMMA ResolutionsAppended ==
  ASSUME NEW R, NEW l \in Seq(R), NEW rec \in R
  PROVE  ResolutionsIn(Append(l, rec))
           = IF rec.type = "resolution" THEN SetResolution(ResolutionsIn(l), rec.data)
                                        ELSE ResolutionsIn(l)
<1> DEFINE m == Append(l, rec)
           end == Len(l) + 1
           Later(s, j) == \A k \in j + 1 .. Len(s) :
                            s[k].type = "resolution" => s[k].data.atom # s[j].data.atom
           LastOf(s, j) == s[j].type = "resolution" /\ Later(s, j)
<1>1. /\ Len(m) = end /\ DOMAIN m = 1 .. end /\ DOMAIN l = 1 .. Len(l)
      /\ m[end] = rec /\ \A i \in 1 .. Len(l) : m[i] = l[i]
      /\ Len(l) \in Nat
  OBVIOUS
<1> HIDE DEF m
<1>2. \A j \in DOMAIN m : LastOf(m, j) <=>
        \/ j = end /\ rec.type = "resolution"
        \/ /\ j \in DOMAIN l /\ LastOf(l, j)
           /\ rec.type = "resolution" => rec.data.atom # l[j].data.atom
  <2>1. LastOf(m, end) <=> rec.type = "resolution"
    BY <1>1
  <2>2. ASSUME NEW j \in 1 .. Len(l)
        PROVE  LastOf(m, j) <=> /\ LastOf(l, j)
                                /\ rec.type = "resolution" => rec.data.atom # l[j].data.atom
    <3>1. j + 1 .. Len(m) = (j + 1 .. Len(l)) \cup {end}
      BY <1>1
    <3>2. \A k \in j + 1 .. Len(l) : m[k] = l[k]
      BY <1>1
    <3>3. m[j] = l[j] /\ m[end] = rec
      BY <1>1
    <3>4. Later(m, j) <=> /\ Later(l, j)
                          /\ rec.type = "resolution" => rec.data.atom # l[j].data.atom
      <4>1. Later(m, j)
              <=> /\ \A k \in j + 1 .. Len(l) :
                        m[k].type = "resolution" => m[k].data.atom # m[j].data.atom
                  /\ m[end].type = "resolution" => m[end].data.atom # m[j].data.atom
        BY <3>1
      <4> QED
        BY <3>2, <3>3, <4>1
    <3> HIDE DEF Later
    <3> QED
      BY <3>3, <3>4
  <2> QED
    BY <1>1, <2>1, <2>2
<1>3. ResolutionsIn(m) = {m[j].data : j \in {i \in DOMAIN m : LastOf(m, i)}}
  BY DEF ResolutionsIn
<1>4. ResolutionsIn(l) = {l[j].data : j \in {i \in DOMAIN l : LastOf(l, i)}}
  BY DEF ResolutionsIn
<1> HIDE DEF LastOf
<1>5. CASE rec.type = "resolution"
  BY <1>1, <1>2, <1>3, <1>4, <1>5 DEF SetResolution, m
<1>6. CASE rec.type # "resolution"
  BY <1>1, <1>2, <1>3, <1>4, <1>6 DEF m
<1> QED
  BY <1>5, <1>6

LEMMA RulesAppended ==
  ASSUME NEW R, NEW l \in Seq(R), NEW rec \in R
  PROVE  RulesIn(Append(l, rec)) = IF rec.type = "rule" THEN Append(RulesIn(l), rec.data)
                                                       ELSE RulesIn(l)
<1> DEFINE m == Append(l, rec)
           end == Len(l) + 1
           at == RulesAt(l)
           ruled == InOrder(at)
<1>1. /\ Len(m) = end /\ DOMAIN m = 1 .. end /\ DOMAIN l = 1 .. Len(l)
      /\ m[end] = rec /\ \A i \in 1 .. Len(l) : m[i] = l[i]
      /\ Len(l) \in Nat /\ end \in Nat
  OBVIOUS
<1> HIDE DEF m
<1>2. at \in SUBSET Nat /\ at \subseteq 1 .. Len(l) /\ \A i \in at : i < end
  BY <1>1 DEF RulesAt
<1>3. IsFiniteSet(at)
  <2>1. IsFiniteSet(1 .. Len(l))
    BY <1>1, FS_Interval
  <2> QED
    BY <1>2, <2>1, FS_Subset
<1>4. RulesAt(m) = IF rec.type = "rule" THEN at \cup {end} ELSE at
  <2>1. DOMAIN m = DOMAIN l \cup {end}
    BY <1>1
  <2> QED
    BY <1>1, <2>1 DEF RulesAt
<1> HIDE DEF at, end
<1>5. ruled \in Seq(at)
  BY <1>2, <1>3, InOrderIs
<1>6. InOrder(at \cup {end}) = Append(ruled, end)
  BY <1>1, <1>2, <1>3, InOrderAppended
<1> HIDE DEF ruled
<1>7. RulesIn(l) = [n \in 1 .. Len(ruled) |-> l[ruled[n]].data]
  BY <1>5 DEF RulesIn, ruled, at
<1>8. \A n \in 1 .. Len(ruled) : ruled[n] \in 1 .. Len(l) /\ m[ruled[n]] = l[ruled[n]]
  <2>1. \A n \in 1 .. Len(ruled) : ruled[n] \in at
    BY <1>5
  <2> QED
    BY <1>1, <1>2, <2>1
<1>9. CASE rec.type # "rule"
  <2>1. RulesIn(m) = [n \in 1 .. Len(ruled) |-> m[ruled[n]].data]
    BY <1>4, <1>5, <1>9 DEF RulesIn, ruled
  <2> QED
    BY <1>7, <1>8, <1>9, <2>1 DEF m
<1>10. CASE rec.type = "rule"
  <2> DEFINE more == Append(ruled, end)
             count == Len(ruled)
  <2>1. /\ DOMAIN more = 1 .. count + 1 /\ count \in Nat /\ more[count + 1] = end
        /\ \A n \in 1 .. count : more[n] = ruled[n]
    BY <1>5
  <2>2. RulesIn(m) = [n \in DOMAIN more |-> m[more[n]].data]
    BY <1>4, <1>6, <1>10 DEF RulesIn
  <2> HIDE DEF more, count
  <2>3. RulesIn(m) = [n \in 1 .. count + 1 |-> IF n = count + 1 THEN rec.data ELSE RulesIn(l)[n]]
    BY <1>1, <1>7, <1>8, <2>1, <2>2 DEF count
  <2>4. Append(RulesIn(l), rec.data)
          = [n \in 1 .. count + 1 |-> IF n = count + 1 THEN rec.data ELSE RulesIn(l)[n]]
    <3> DEFINE S == {RulesIn(l)[n] : n \in 1 .. count}
    <3>1. RulesIn(l) \in [1 .. count -> S]
      BY <1>7 DEF count
    <3>2. RulesIn(l) \in Seq(S) /\ Len(RulesIn(l)) = count
      BY <2>1, <3>1
    <3> QED
      BY <2>1, <3>2
  <2> QED
    BY <1>10, <2>3, <2>4 DEF m
<1> QED
  BY <1>9, <1>10

LEMMA NothingRecorded ==
  DataIn(<< >>, "fact") = {} /\ ResolutionsIn(<< >>) = {} /\ RulesIn(<< >>) = << >>
<1>1. DOMAIN << >> = {} /\ RulesAt(<< >>) = {}
  BY DEF RulesAt
<1>2. InOrder(RulesAt(<< >>)) = << >>
  BY <1>1, InOrderEmpty
<1>3. RulesIn(<< >>) = << >>
  BY <1>1, <1>2 DEF RulesIn
<1> QED
  BY <1>1, <1>3 DEF DataIn, ResolutionsIn

LEMMA PrefixGrows ==
  ASSUME NEW l \in Seq(AnyRecord), NEW n \in DOMAIN l
  PROVE  /\ SubSeq(l, 1, n - 1) \in Seq(AnyRecord)
         /\ SubSeq(l, 1, n) = Append(SubSeq(l, 1, n - 1), l[n])
OBVIOUS

LEMMA WholePrefix ==
  ASSUME NEW l \in Seq(AnyRecord)
  PROVE  SubSeq(l, 1, Len(l)) = l
OBVIOUS

-----------------------------------------------------------------------------
(* What a step does to what a log holds, and to the log.                      *)

\* What a record does to memory.
Takes(rec) ==
  /\ Asserted' = IF rec.type = "fact" THEN Asserted \cup Base({rec.data}) ELSE Asserted
  /\ resolutions' = IF rec.type = "resolution" THEN SetResolution(resolutions, rec.data)
                                               ELSE resolutions
  /\ rules' = IF rec.type = "rule" THEN Append(rules, rec.data) ELSE rules

\* The lapses that set memory and log apart.
Apart == lapses \cap {"log", "replay"}

RecordWritten ==
  /\ \E rec \in AnyRecord : log' = Append(log, rec) /\ Takes(rec)
  /\ pc' # "replay" /\ Apart' = Apart

Misses == pc' # "replay" /\ Apart' # {}

Starts == /\ Asserted' = {} /\ resolutions' = {} /\ rules' = << >>
          /\ pc' = "replay" /\ next' = 1 /\ log' = log /\ "replay" \in lapses'

RecordRead ==
  /\ pc = "replay" /\ next \in DOMAIN log /\ Takes(log[next])
  /\ next' = next + 1 /\ UNCHANGED <<log, pc, lapses>>

Ends == /\ pc = "replay" /\ next \notin DOMAIN log
        /\ Asserted' = Asserted /\ UNCHANGED <<resolutions, rules, log>>
        /\ pc' # "replay" /\ lapses' = {}

BreaksOff == /\ pc = "replay" /\ pc' # "replay"
             /\ Asserted' = Asserted /\ UNCHANGED <<resolutions, rules, log, lapses>>

Waits == /\ Asserted' = Asserted /\ UNCHANGED <<resolutions, rules, log>>
         /\ \/ pc' # "replay" /\ pc # "replay"
            \/ UNCHANGED <<pc, next, lapses>>
         /\ Apart' = Apart

LogStep == RecordWritten \/ Misses \/ Starts \/ RecordRead \/ Ends \/ BreaksOff \/ Waits

LEMMA LearnedAsserted ==
  ASSUME NEW b, IngestNoLog(b)
  PROVE  Asserted' = Asserted \cup Base({b})
BY DEF IngestNoLog, Asserted, Base

LEMMA RebuiltAsserted ==
  ASSUME beliefs' = Base(beliefs)
  PROVE  Asserted' = Asserted
BY DEF Base, Asserted

LEMMA StepsOfLog == StateOK /\ [Next]_vars => LogStep
<1> SUFFICES ASSUME StateOK, [Next]_vars PROVE LogStep
  OBVIOUS
<1> USE DEF LogStep, Apart
<1>1. ASSUME NEW b \in InputBeliefs, Ingest(b) PROVE RecordWritten
  <2>1. Takes([type |-> "fact", data |-> b])
    BY <1>1, LearnedAsserted DEF Ingest, Takes
  <2> QED
    BY <1>1, <2>1, RecordType DEF Ingest, StartApplyRules, Logged, RecordWritten
<1>2. ASSUME NEW b \in InputBeliefs, IngestUnlogged(b) PROVE Misses
  BY <1>2 DEF IngestUnlogged, CanCall, Misses
<1>3. ASSUME NEW b \in InputBeliefs, BulkLine(b) PROVE LogStep
  <2>1. CASE Logged("fact", b) /\ UNCHANGED <<lapses, faults>>
    <3>1. Takes([type |-> "fact", data |-> b])
      BY <1>3, LearnedAsserted DEF BulkLine, Takes
    <3> QED
      BY <1>3, <2>1, <3>1, RecordType DEF BulkLine, Logged, RecordWritten
  <2>2. CASE lapses' = lapses \cup {"log"}
    BY <1>3, <2>2 DEF BulkLine, Misses
  <2> QED
    BY <1>3, <2>1, <2>2 DEF BulkLine
<1>4. ASSUME NEW r \in InputResolutions, Resolve(r) PROVE RecordWritten
  <2>1. Takes([type |-> "resolution", data |-> r])
    BY <1>4, RebuiltAsserted DEF Resolve, Recompute, Takes
  <2> QED
    BY <1>4, <2>1, RecordType DEF Resolve, Recompute, StartApplyRules, Logged, RecordWritten
<1>5. ASSUME NEW r \in InputResolutions, ResolveUnlogged(r) PROVE Misses
  BY <1>5 DEF ResolveUnlogged, CanCall, Misses
<1>6. ASSUME NEW r \in InputRules, AddRule(r) PROVE RecordWritten
  <2>1. Takes([type |-> "rule", data |-> r])
    BY <1>6 DEF AddRule, Takes, Asserted
  <2> QED
    BY <1>6, <2>1, RecordType DEF AddRule, StartApplyRules, Logged, RecordWritten
<1>7. ASSUME NEW r \in InputRules, AddRuleUnlogged(r) PROVE Misses
  BY <1>7 DEF AddRuleUnlogged, CanCall, Misses
<1>8. ASSUME ReplayFromLog \/ Restart PROVE Starts
  BY <1>8 DEF ReplayFromLog, Restart, StartReplay, ClearStores, Asserted, Starts
<1>9. ASSUME BulkEnd \/ StartRound \/ EvaluateNextRule \/ RuleDone \/ RoundDone PROVE Waits
  <2>1. /\ UNCHANGED <<memory, log>> /\ pc' # "replay" /\ pc # "replay" /\ Apart' = Apart
    BY <1>9 DEF BulkEnd, StartApplyRules, StartRound, EvaluateNextRule, RuleDone, RoundDone, Return
  <2> QED
    BY <2>1 DEF memory, Asserted, Waits
<1>10. ASSUME NEW d \in todo, Derive(d) PROVE Waits
  <2>1. Asserted' = Asserted
    BY <1>10 DEF Derive, IngestNoLog, DerivedBelief, Asserted
  <2>2. pc' # "replay" /\ pc # "replay" /\ Apart' = Apart
    BY <1>10 DEF Derive, Return
  <2> QED
    BY <1>10, <2>1, <2>2 DEF Derive, Waits
<1>11. ASSUME ReplayRecord PROVE RecordRead
  <2> DEFINE rec == log[next]
  <2>1. Takes(rec)
    <3>1. CASE rec.type = "fact"
      BY <1>11, <3>1, LearnedAsserted DEF ReplayRecord, Takes
    <3>2. CASE rec.type # "fact"
      BY <1>11, <3>2 DEF ReplayRecord, Takes, Asserted
    <3> QED
      BY <3>1, <3>2
  <2> QED
    BY <1>11, <2>1 DEF ReplayRecord, RecordRead
<1>12. ASSUME ReplayFails PROVE BreaksOff
  BY <1>12 DEF ReplayFails, Return, memory, Asserted, BreaksOff
<1>13. ASSUME ReplayDone PROVE Ends
  BY <1>13, RebuiltAsserted DEF ReplayDone, Recompute, StartApplyRules, Ends
<1>14. ASSUME UNCHANGED vars PROVE Waits
  BY <1>14 DEF vars, memory, frame, Asserted, Waits
<1> QED
  BY <1>1, <1>2, <1>3, <1>4, <1>5, <1>6, <1>7, <1>8, <1>9, <1>10, <1>11, <1>12, <1>13, <1>14
     DEF Next, Call, ApplyRules, Replay

-----------------------------------------------------------------------------
(***************************************************************************)
(* Memory matches the log unless a write was cut short; a running replay has  *)
(* come to the state the records it has read stand for.  The second part      *)
(* makes the first inductive: it is what the end of a replay starts from.     *)
(***************************************************************************)
HoldsFacts(l) == /\ Asserted = Base(DataIn(l, "fact"))
                 /\ resolutions = ResolutionsIn(l)

Holds(l) == HoldsFacts(l) /\ rules = RulesIn(l)

\* What memory holds after a step is what this log holds.
WillHoldFacts(l) == /\ Asserted' = Base(DataIn(l, "fact"))
                    /\ resolutions' = ResolutionsIn(l)

WillHold(l) == WillHoldFacts(l) /\ rules' = RulesIn(l)

LogHeld ==
  /\ Apart = {} => Holds(log)
  /\ pc = "replay" => /\ "replay" \in lapses
                      /\ next \in 1 .. Len(log) + 1
                      /\ Holds(SubSeq(log, 1, next - 1))

LEMMA FactsTaken ==
  ASSUME NEW l \in Seq(AnyRecord), NEW rec \in AnyRecord, HoldsFacts(l), Takes(rec)
  PROVE  WillHoldFacts(Append(l, rec))
<1> DEFINE m == Append(l, rec)
<1>1. Asserted = Base(DataIn(l, "fact")) /\ resolutions = ResolutionsIn(l)
  BY DEF HoldsFacts
<1>2. Asserted' = Base(DataIn(m, "fact"))
  <2>1. DataIn(m, "fact")
          = DataIn(l, "fact") \cup (IF rec.type = "fact" THEN {rec.data} ELSE {})
    BY DataAppended
  <2> HIDE DEF m
  <2> QED
    BY <1>1, <2>1 DEF Takes, Base
<1>3. resolutions' = ResolutionsIn(m)
  BY <1>1, ResolutionsAppended DEF Takes
<1> QED
  BY <1>2, <1>3 DEF WillHoldFacts

LEMMA TakenHeld ==
  ASSUME NEW l \in Seq(AnyRecord), NEW rec \in AnyRecord, Holds(l), Takes(rec)
  PROVE  WillHold(Append(l, rec))
<1>1. WillHoldFacts(Append(l, rec))
  BY FactsTaken DEF Holds
<1>2. rules' = RulesIn(Append(l, rec))
  BY RulesAppended DEF Holds, Takes
<1> QED
  BY <1>1, <1>2 DEF WillHold

\* How a running replay reads the log.
LEMMA ReadFirst == SubSeq(log, 1, 0) = << >>
OBVIOUS

LEMMA ReadNext ==
  ASSUME StateOK, RecordRead, next \in 1 .. Len(log) + 1
  PROVE  /\ log[next] \in AnyRecord /\ next' \in 1 .. Len(log') + 1
         /\ SubSeq(log, 1, next - 1) \in Seq(AnyRecord)
         /\ SubSeq(log', 1, next' - 1) = Append(SubSeq(log, 1, next - 1), log[next])
<1>1. log \in Seq(AnyRecord) /\ next \in DOMAIN log /\ next' = next + 1 /\ log' = log
  BY DEF StateOK, Typed, RecordRead
<1>2. next' - 1 = next /\ next + 1 \in 1 .. Len(log) + 1
  BY <1>1
<1> QED
  BY <1>1, <1>2, PrefixGrows

LEMMA ReadAll ==
  ASSUME StateOK, next \in 1 .. Len(log) + 1, next \notin DOMAIN log
  PROVE  SubSeq(log, 1, next - 1) = log
<1>1. log \in Seq(AnyRecord)
  BY DEF StateOK, Typed
<1>2. next - 1 = Len(log)
  BY <1>1
<1> QED
  BY <1>1, <1>2, WholePrefix

LEMMA LogHeldStep == StateOK /\ LogHeld /\ [Next]_vars => LogHeld'
<1> SUFFICES ASSUME StateOK, LogHeld, LogStep PROVE LogHeld'
  BY StepsOfLog
<1>a. log \in Seq(AnyRecord)
  BY DEF StateOK, Typed
<1>1. CASE RecordWritten
  <2>1. PICK rec \in AnyRecord : log' = Append(log, rec) /\ Takes(rec)
    BY <1>1 DEF RecordWritten
  <2>2. ASSUME Apart = {} PROVE Holds(log)'
    <3>1. Holds(log)
      BY <2>2 DEF LogHeld
    <3>2. WillHold(Append(log, rec))
      BY <1>a, <3>1, <2>1, TakenHeld
    <3> QED
      BY <2>1, <3>2 DEF WillHold, WillHoldFacts, Holds, HoldsFacts
  <2> QED
    BY <1>1, <2>2 DEF RecordWritten, LogHeld
<1>2. CASE Misses
  BY <1>2 DEF Misses, LogHeld
<1>3. CASE Starts
  <2>1. Holds(<< >>)'
    BY <1>3, NothingRecorded DEF Starts, Holds, HoldsFacts, Base
  <2>2. next' - 1 = 0 /\ log' = log /\ next' \in 1 .. Len(log') + 1
    BY <1>a, <1>3 DEF Starts
  <2>3. SubSeq(log', 1, next' - 1) = << >>
    BY <2>2, ReadFirst
  <2>4. Holds(SubSeq(log, 1, next - 1))'
    BY <2>1, <2>3 DEF Holds, HoldsFacts
  <2> QED
    BY <1>3, <2>2, <2>4 DEF Starts, LogHeld, Apart
<1>4. CASE RecordRead
  <2>1. next \in 1 .. Len(log) + 1 /\ Holds(SubSeq(log, 1, next - 1)) /\ "replay" \in lapses
    BY <1>4 DEF RecordRead, LogHeld
  <2>2. /\ log[next] \in AnyRecord /\ next' \in 1 .. Len(log') + 1
        /\ SubSeq(log, 1, next - 1) \in Seq(AnyRecord)
        /\ SubSeq(log', 1, next' - 1) = Append(SubSeq(log, 1, next - 1), log[next])
    BY <1>4, <2>1, ReadNext
  <2>3. WillHold(Append(SubSeq(log, 1, next - 1), log[next]))
    <3> DEFINE l == SubSeq(log, 1, next - 1)
               rec == log[next]
    <3>1. l \in Seq(AnyRecord) /\ rec \in AnyRecord /\ Holds(l) /\ Takes(rec)
      BY <1>4, <2>1, <2>2 DEF RecordRead
    <3>2. Append(l, rec) = Append(SubSeq(log, 1, next - 1), log[next])
      OBVIOUS
    <3> HIDE DEF l, rec
    <3>3. WillHold(Append(l, rec))
      BY <3>1, TakenHeld
    <3> QED
      BY <3>2, <3>3
  <2>4. Holds(SubSeq(log, 1, next - 1))'
    BY <2>2, <2>3 DEF WillHold, WillHoldFacts, Holds, HoldsFacts
  <2> QED
    BY <1>4, <2>1, <2>2, <2>4 DEF RecordRead, LogHeld, Apart
<1>5. CASE Ends
  <2>1. Holds(SubSeq(log, 1, next - 1)) /\ next \in 1 .. Len(log) + 1
    BY <1>5 DEF Ends, LogHeld
  <2>2. Holds(log)
    BY <1>5, <2>1, ReadAll DEF Ends
  <2>3. Holds(log)'
    BY <1>5, <2>2 DEF Ends, Holds, HoldsFacts
  <2> QED
    BY <1>5, <2>3 DEF Ends, LogHeld
<1>6. CASE BreaksOff
  BY <1>6 DEF BreaksOff, LogHeld, Apart
<1>7. CASE Waits
  BY <1>7 DEF Waits, LogHeld, Holds, HoldsFacts
<1> QED
  BY <1>1, <1>2, <1>3, <1>4, <1>5, <1>6, <1>7 DEF LogStep

(***************************************************************************)
(* Unless a log write has failed or a replay broke off, memory holds the      *)
(* facts, the last resolutions and the rules of the log, in the middle of     *)
(* calls too and across any number of restarts: nothing is in memory that a   *)
(* restart would lose, and nothing in the log that memory lacks.             *)
(***************************************************************************)
THEOREM RestartLosesNothingLogged == Spec => []MemoryMatchesLog
<1>1. Init => LogHeld
  BY NothingRecorded DEF Init, LogHeld, Holds, HoldsFacts, Asserted, Base
<1>2. Spec => [](LogInputs /\ LogHeld)
  BY <1>1, StateHolds, LogHeldStep, PTL DEF Spec
<1>3. ASSUME LogInputs, LogHeld PROVE MemoryMatchesLog
  <2>1. PlainSources => Base(Data("fact")) = Data("fact")
    BY <1>3, InputsArePlain DEF PlainLog, Base
  <2> QED
    BY <1>3, <2>1 DEF LogHeld, Apart, Holds, HoldsFacts, MemoryMatchesLog, Data, LogRules, LogResolutions
<1> QED
  BY <1>2, <1>3, PTL

-----------------------------------------------------------------------------
(* ApplyRules: its rounds end in a state where the rules have nothing left.    *)

-----------------------------------------------------------------------------
(***************************************************************************)
(* What a round has done of its work.  A derivation is finished when its      *)
(* proof is on record and its conclusion believed on the word of the rule.    *)
(* The graph stays what the round works on as long as no belief is added,     *)
(* and that is what makes the end of a round without one a fixpoint.         *)
(***************************************************************************)
Finished(i, d) ==
  /\ [atom |-> d.then, rule |-> rules[i].name, prem |-> d.prem] \in derivations
  /\ ValidAtom(d.then) => DerivedBelief(d.then, rules[i]) \in beliefs

Exhausted(i, E) == \A d \in Derivations(rules[i], E) : Finished(i, d)

BeliefsOK ==
  /\ IsFiniteSet(beliefs)
  /\ PlainSources => \A b \in beliefs \ Asserted : b.pol = "+"

InRound == pc \in {"rule", "derive"}
Uncut   == "cut" \notin lapses

RoundOK ==
  /\ InRound /\ Uncut => /\ next \in 1 .. Len(rules) + 1
                         /\ \A i \in 1 .. next - 1 : Exhausted(i, edges)
  /\ pc = "derive" /\ Uncut => \A d \in Derivations(rules[next], edges) \ todo : Finished(next, d)
  /\ InRound /\ UpToDate /\ ~added => graph = edges

RestOK == Settled => \A i \in DOMAIN rules : Exhausted(i, graph)

FixpointOK == BeliefsOK /\ RoundOK /\ RestOK

\* What the log holds of derived facts is positive.
LogPositive == PlainSources => \A b \in Data("fact") : b.src.rule => b.pol = "+"

LEMMA InputsArePositive == LogInputs => LogPositive
BY InputsArePlain DEF PlainLog, LogPositive

LEMMA BeliefsStep == StateOK /\ LogPositive /\ BeliefsOK /\ [Next]_vars => BeliefsOK'
<1> SUFFICES ASSUME StateOK, LogPositive, BeliefsOK, [Next]_vars PROVE BeliefsOK'
  OBVIOUS
<1>1. ASSUME NEW b \in Belief, Learns(b), Told(b) PROVE BeliefsOK'
  <2>1. IsFiniteSet(beliefs') /\ beliefs' = beliefs \cup {b}
    BY <1>1, FS_AddElement DEF Learns, IngestNoLog, BeliefsOK
  <2>2. PlainSources => ~b.src.rule \/ b.pol = "+"
    BY <1>1 DEF Told, LogPositive, PlainSources
  <2> QED
    BY <2>1, <2>2 DEF BeliefsOK, Asserted, PlainSources
<1>2. ASSUME NEW d \in todo, Derive(d) PROVE BeliefsOK'
  <2> DEFINE b == DerivedBelief(d.then, rules[next])
  <2>1. beliefs' = beliefs \/ beliefs' = beliefs \cup {b}
    BY <1>2 DEF Derive, IngestNoLog
  <2>2. IsFiniteSet(beliefs')
    BY <2>1, FS_AddElement DEF BeliefsOK
  <2>3. b.pol = "+"
    BY DEF DerivedBelief
  <2> QED
    BY <2>1, <2>2, <2>3 DEF BeliefsOK, Asserted, PlainSources
<1>3. ASSUME Rebuilds PROVE BeliefsOK'
  <2>1. IsFiniteSet(beliefs') /\ beliefs' = Base(beliefs)
    BY <1>3, FS_Subset DEF Rebuilds, Recompute, Base, BeliefsOK
  <2> QED
    BY <2>1 DEF BeliefsOK, Base, Asserted, PlainSources
<1>4. ASSUME Drops PROVE BeliefsOK'
  BY <1>4, FS_EmptySet DEF Drops, ClearStores, BeliefsOK
<1>5. ASSUME Keeps PROVE BeliefsOK'
  BY <1>5 DEF Keeps, BeliefsOK, Asserted, PlainSources
<1> QED
  BY <1>1, <1>2, <1>3, <1>4, <1>5, StepKinds

(***************************************************************************)
(* A belief that does not make the store grow was there, and so was its edge. *)
(***************************************************************************)
LEMMA NotGrown ==
  ASSUME BeliefsOK, Projection, UpToDate, NEW b, IngestNoLog(b), ~CountGrows
  PROVE  graph' = graph
<1>1. b \in beliefs
  <2>1. IsFiniteSet(beliefs) /\ Cardinality(beliefs) \in Nat
    BY FS_CardinalityType DEF BeliefsOK
  <2>2. Cardinality(beliefs \cup {b})
          = IF b \in beliefs THEN Cardinality(beliefs) ELSE Cardinality(beliefs) + 1
    BY <2>1, FS_AddElement
  <2> QED
    BY <2>1, <2>2 DEF IngestNoLog, CountGrows
<1>2. Projected({b}, resolutions) \subseteq Projected(beliefs, resolutions)
  BY <1>1 DEF Projected
<1> QED
  BY <1>2 DEF Projection, IngestNoLog

(***************************************************************************)
(* Deriving finishes one derivation and leaves the finished ones finished.    *)
(***************************************************************************)
LEMMA DeriveFinishes ==
  ASSUME NEW d, Derive(d)
  PROVE  /\ Finished(next, d)' \/ pc' = "idle"
         /\ \A i, e : Finished(i, e) => Finished(i, e)'
<1>1. /\ derivations' = derivations \cup
                          {[atom |-> d.then, rule |-> rules[next].name, prem |-> d.prem]}
      /\ UNCHANGED rules
  BY DEF Derive, AddDerivation
<1>2. beliefs \subseteq beliefs' /\ (ValidAtom(d.then) =>
                                       DerivedBelief(d.then, rules[next]) \in beliefs')
  BY DEF Derive, IngestNoLog
<1>3. next' = next \/ pc' = "idle"
  BY DEF Derive, Return
<1> QED
  BY <1>1, <1>2, <1>3 DEF Finished

LEMMA DeriveStep ==
  ASSUME StateOK, Projection, FixpointOK, NEW d \in todo, Derive(d)
  PROVE  RoundOK' /\ RestOK'
<1>a. pc = "derive" /\ next \in DOMAIN rules /\ edges \subseteq graph
  BY DEF Derive, StateOK, FrameOK
<1>1. CASE CountGrows /\ remaining = 1
  <2>1. Return /\ lapses' = lapses \cup {"budget"}
    BY <1>1, Zenon DEF Derive
  <2> QED
    BY <2>1 DEF Return, RoundOK, InRound, RestOK, Settled
<1>2. CASE ~(CountGrows /\ remaining = 1)
  <2>1. /\ UNCHANGED <<pc, edges, next, lapses, rules>> /\ todo' = todo \ {d}
        /\ ~added' => ~added /\ ~CountGrows
    <3>1. CASE CountGrows
      <4>1. /\ todo' = todo \ {d} /\ added' = TRUE
            /\ UNCHANGED <<pc, edges, next, lapses>>
        BY <1>2, <3>1, Zenon DEF Derive
      <4> QED
        BY <4>1 DEF Derive
    <3>2. CASE ~CountGrows
      BY <3>2 DEF Derive
    <3> QED
      BY <3>1, <3>2
  <2>2. Finished(next, d)' /\ \A i, e : Finished(i, e) => Finished(i, e)'
    BY <1>a, <2>1, DeriveFinishes
  <2>3. ASSUME Uncut'
        PROVE  /\ next' \in 1 .. Len(rules') + 1
               /\ \A i \in 1 .. next' - 1 : Exhausted(i, edges)'
               /\ \A e \in Derivations(rules'[next'], edges') \ todo' : Finished(next, e)'
    <3>1. Uncut
      BY <2>1, <2>3 DEF Uncut
    <3>2. next \in 1 .. Len(rules) + 1 /\ \A i \in 1 .. next - 1 : Exhausted(i, edges)
      BY <1>a, <3>1 DEF FixpointOK, RoundOK, InRound
    <3>3. \A e \in Derivations(rules[next], edges) \ todo : Finished(next, e)
      BY <1>a, <3>1 DEF FixpointOK, RoundOK
    <3>4. \A i : Exhausted(i, edges) => Exhausted(i, edges)'
      BY <2>1, <2>2 DEF Exhausted
    <3> QED
      BY <2>1, <2>2, <3>2, <3>3, <3>4
  <2>4. ASSUME UpToDate', ~added' PROVE graph' = edges'
    <3>1. UpToDate /\ ~added /\ ~CountGrows /\ graph = edges
      BY <1>a, <2>1, <2>4 DEF UpToDate, FixpointOK, RoundOK, InRound
    <3>2. graph' = graph
      <4>1. CASE ValidAtom(d.then)
        BY <3>1, <4>1, NotGrown DEF Derive, FixpointOK
      <4>2. CASE ~ValidAtom(d.then)
        BY <4>2 DEF Derive
      <4> QED
        BY <4>1, <4>2
    <3> QED
      BY <2>1, <3>1, <3>2
  <2>5. RoundOK'
    BY <2>3, <2>4 DEF RoundOK
  <2>6. RestOK'
    BY <1>a, <2>1 DEF RestOK, Settled
  <2> QED
    BY <2>5, <2>6
<1> QED
  BY <1>1, <1>2

LEMMA FixpointStep == StateOK /\ LogPositive /\ Projection /\ FixpointOK /\ [Next]_vars => FixpointOK'
<1> SUFFICES ASSUME StateOK, LogPositive, Projection, FixpointOK, [Next]_vars
             PROVE  RoundOK' /\ RestOK'
  BY BeliefsStep DEF FixpointOK
<1> USE DEF InRound, Uncut
<1>a. rules \in Seq(InputRules) /\ Len(rules) \in Nat /\ DOMAIN rules = 1 .. Len(rules) /\ next \in Nat
  BY DEF StateOK, Typed, StateType
<1>b. pc = "replay" => "resolution" \in lapses
  BY DEF StateOK, FrameOK
<1>1. ASSUME Call \/ BulkEnd \/ Replay \/ Restart PROVE RoundOK' /\ RestOK'
  <2>1. \/ pc' \in {"round", "bulk", "replay"}
        \/ pc' = "idle" /\ ~(lapses' \subseteq {"log"})
    <3>1. ASSUME NEW b \in InputBeliefs, Ingest(b) \/ IngestUnlogged(b) \/ BulkLine(b)
          PROVE  \/ pc' \in {"round", "bulk", "replay"}
                 \/ pc' = "idle" /\ ~(lapses' \subseteq {"log"})
      BY <3>1 DEF Ingest, IngestUnlogged, BulkLine, CanCall, StartApplyRules
    <3>2. ASSUME NEW r \in InputResolutions, Resolve(r) \/ ResolveUnlogged(r)
          PROVE  \/ pc' \in {"round", "bulk", "replay"}
                 \/ pc' = "idle" /\ ~(lapses' \subseteq {"log"})
      BY <3>2 DEF Resolve, ResolveUnlogged, CanCall, Recompute, StartApplyRules
    <3>3. ASSUME NEW r \in InputRules, AddRule(r) \/ AddRuleUnlogged(r)
          PROVE  \/ pc' \in {"round", "bulk", "replay"}
                 \/ pc' = "idle" /\ ~(lapses' \subseteq {"log"})
      <4>1. CASE AddRule(r)
        BY <4>1 DEF AddRule, StartApplyRules
      <4>2. CASE AddRuleUnlogged(r)
        BY <4>2 DEF AddRuleUnlogged, CanCall
      <4> QED
        BY <3>3, <4>1, <4>2
    <3>4. ASSUME ReplayFromLog \/ BulkEnd \/ Replay \/ Restart
          PROVE  \/ pc' \in {"round", "bulk", "replay"}
                 \/ pc' = "idle" /\ ~(lapses' \subseteq {"log"})
      BY <3>4, <1>b DEF ReplayFromLog, StartReplay, BulkEnd, Replay, ReplayRecord, ReplayFails,
                        ReplayDone, Restart, Recompute, StartApplyRules, Return
    <3> QED
      BY <1>1, <3>1, <3>2, <3>3, <3>4 DEF Call
  <2> QED
    BY <2>1 DEF RoundOK, RestOK, Settled
<1>2. ASSUME StartRound PROVE RoundOK' /\ RestOK'
  BY <1>2, <1>a DEF StartRound, memory, RoundOK, RestOK, Settled
<1>3. ASSUME EvaluateNextRule PROVE RoundOK' /\ RestOK'
  <2>1. /\ pc = "rule" /\ pc' = "derive" /\ UNCHANGED <<memory, edges, next, added>>
        /\ UpToDate' => UpToDate
        /\ Uncut' => Uncut /\ todo' = Derivations(rules[next], edges)
    BY <1>3 DEF EvaluateNextRule, UpToDate
  <2>2. ASSUME Uncut'
        PROVE  /\ next' \in 1 .. Len(rules') + 1
               /\ \A i \in 1 .. next' - 1 : Exhausted(i, edges)'
               /\ \A d \in Derivations(rules'[next'], edges') \ todo' : Finished(next, d)'
    BY <2>1, <2>2 DEF memory, FixpointOK, RoundOK, Exhausted, Finished
  <2>3. UpToDate' /\ ~added' => graph' = edges'
    BY <2>1 DEF memory, FixpointOK, RoundOK
  <2> QED
    BY <2>1, <2>2, <2>3 DEF RoundOK, RestOK, Settled
<1>4. ASSUME NEW d \in todo, Derive(d) PROVE RoundOK' /\ RestOK'
  BY <1>4, DeriveStep
<1>5. ASSUME RuleDone PROVE RoundOK' /\ RestOK'
  <2>1. /\ pc = "derive" /\ pc' = "rule" /\ todo = {} /\ next' = next + 1 /\ next \in DOMAIN rules
        /\ UNCHANGED <<memory, edges, added, lapses>>
    BY <1>5 DEF RuleDone, StateOK, FrameOK
  <2>2. ASSUME Uncut
        PROVE  next + 1 \in 1 .. Len(rules) + 1 /\ \A i \in 1 .. next : Exhausted(i, edges)
    <3>1. \A i \in 1 .. next - 1 : Exhausted(i, edges)
      BY <2>1, <2>2 DEF FixpointOK, RoundOK
    <3>2. Exhausted(next, edges)
      BY <2>1, <2>2 DEF FixpointOK, RoundOK, Exhausted
    <3> QED
      BY <1>a, <2>1, <3>1, <3>2
  <2>3. next' - 1 = next
    BY <1>a, <2>1
  <2>4. \A i : Exhausted(i, edges) => Exhausted(i, edges)'
    BY <2>1 DEF memory, Exhausted, Finished
  <2>5. Uncut' => /\ next' \in 1 .. Len(rules') + 1
                  /\ \A i \in 1 .. next' - 1 : Exhausted(i, edges)'
    BY <2>1, <2>2, <2>3, <2>4 DEF memory
  <2>6. UpToDate' /\ ~added' => graph' = edges'
    BY <2>1 DEF memory, UpToDate, FixpointOK, RoundOK
  <2> QED
    BY <2>1, <2>5, <2>6 DEF RoundOK, RestOK, Settled
<1>6. ASSUME RoundDone PROVE RoundOK' /\ RestOK'
  <2>1. CASE RoundAgain
    BY <1>6, <2>1 DEF RoundDone, RoundOK, RestOK, Settled
  <2>2. CASE ~RoundAgain
    <3>1. /\ pc = "rule" /\ pc' = "idle" /\ next \notin DOMAIN rules /\ ~added
          /\ UNCHANGED <<memory, lapses>>
      BY <1>6, <2>2 DEF RoundDone, RoundAgain, Return
    <3>2. ASSUME Settled' PROVE \A i \in DOMAIN rules : Exhausted(i, graph)
      <4>1. Uncut /\ UpToDate
        BY <3>1, <3>2 DEF Settled, UpToDate
      <4>2. next = Len(rules) + 1 /\ graph = edges /\ \A i \in 1 .. next - 1 : Exhausted(i, edges)
        BY <1>a, <3>1, <4>1 DEF FixpointOK, RoundOK
      <4> QED
        BY <1>a, <4>2
    <3>3. RestOK'
      BY <3>1, <3>2 DEF memory, RestOK, Exhausted, Finished
    <3> QED
      BY <3>1, <3>3 DEF RoundOK
  <2> QED
    BY <2>1, <2>2
<1>7. ASSUME UNCHANGED vars PROVE RoundOK' /\ RestOK'
  BY <1>7 DEF vars, memory, frame, FixpointOK, RoundOK, RestOK, Settled, UpToDate, Exhausted, Finished
<1> QED
  BY <1>1, <1>2, <1>3, <1>4, <1>5, <1>6, <1>7 DEF Next, ApplyRules

-----------------------------------------------------------------------------
(***************************************************************************)
(* Where the rules are exhausted and every derived belief has a proof, proofs *)
(* and derived beliefs are exactly what the rules give of the graph.         *)
(***************************************************************************)
LEMMA RestIsSaturated ==
  ASSUME Typed, ProofsHold, BeliefsOK, RestOK
  PROVE  RulesSaturated
<1> DEFINE word(p) == [atom |-> p.atom, pol |-> "+", src |-> [rule |-> TRUE, name |-> p.rule]]
           valid == {q \in ProvableNow : ValidAtom(q.atom)}
<1> SUFFICES ASSUME Settled, PlainSources
             PROVE  derivations = ProvableNow /\ beliefs \ Asserted = {word(p) : p \in valid}
  BY DEF RulesSaturated
<1>1. ASSUME NEW p \in ProvableNow
      PROVE  p \in derivations /\ (ValidAtom(p.atom) => word(p) \in beliefs)
  <2>1. PICK i \in DOMAIN rules : p \in Proofs(i)
    BY DEF ProvableNow
  <2>2. PICK d \in Derivations(rules[i], graph) :
          p = [atom |-> d.then, rule |-> rules[i].name, prem |-> d.prem]
    BY <2>1 DEF Proofs
  <2>3. Finished(i, d)
    BY <2>2 DEF RestOK, Exhausted
  <2>4. word(p) = DerivedBelief(d.then, rules[i])
    BY <2>2 DEF DerivedBelief
  <2> QED
    BY <2>2, <2>3, <2>4 DEF Finished
<1>2. derivations = ProvableNow
  BY <1>1 DEF ProofsHold, OnRecord
<1>3. ASSUME NEW p \in valid PROVE word(p) \in beliefs \ Asserted
  <2>1. word(p) \in beliefs /\ word(p).src.rule
    BY <1>1
  <2> QED
    BY <2>1 DEF Asserted
<1>4. ASSUME NEW b \in beliefs \ Asserted PROVE \E p \in valid : b = word(p)
  <2>1. b \in Belief /\ b.src.rule = TRUE /\ b.pol = "+"
    BY DEF Typed, StateType, Asserted, Belief, Source, BeliefsOK
  <2>2. PICK p \in derivations : p.atom = b.atom /\ p.rule = b.src.name
    BY DEF ProofsHold, BeliefsProved
  <2>3. b = [atom |-> b.atom, pol |-> b.pol, src |-> [rule |-> b.src.rule, name |-> b.src.name]]
    BY <2>1 DEF Belief, Source
  <2>4. ValidAtom(b.atom)
    BY <2>1, NamesAssumption DEF Belief, Atom, ValidAtom, Empty
  <2> QED
    BY <1>2, <2>1, <2>2, <2>3, <2>4
<1>5. beliefs \ Asserted = {word(p) : p \in valid}
  BY <1>3, <1>4
<1> QED
  BY <1>2, <1>5

(***************************************************************************)
(* A call that returned without an error and without running out of           *)
(* derivations has left the rules nothing to derive, whatever rules feed each  *)
(* other, and nothing derived stands that the rules do not derive now.        *)
(***************************************************************************)
THEOREM RulesRunToTheEnd == Spec => []RulesSaturated
<1>1. Init => FixpointOK
  <2>1. Init => BeliefsOK
    BY FS_EmptySet DEF Init, BeliefsOK
  <2>2. Init => RoundOK /\ RestOK
    BY DEF Init, RoundOK, InRound, RestOK
  <2> QED
    BY <2>1, <2>2 DEF FixpointOK
<1>2. Init => ProofsHold
  BY DEF Init, ProofsHold, OnRecord, BeliefsProved
<1>3. Spec => [](StateOK /\ Projection /\ ProofsHold /\ FixpointOK)
  BY <1>1, <1>2, StateHolds, InputsArePositive, InitProjection, ProjectionStep, ProofsStep,
     FixpointStep, PTL DEF Spec
<1>4. StateOK /\ ProofsHold /\ FixpointOK => RulesSaturated
  BY RestIsSaturated DEF StateOK, FixpointOK
<1> QED
  BY <1>3, <1>4, PTL
=============================================================================
