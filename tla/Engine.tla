------------------------------- MODULE Engine -------------------------------
(***************************************************************************)
(* pkg/engine: the engine that keeps a belief store, the graph of positive   *)
(* facts it projects, a semantic index, the proofs of derived facts and a    *)
(* list of rules, logs every change and rebuilds itself from the log.        *)
(*                                                                          *)
(* A call of a writing method is a run of pc from idle back to idle.  Loading *)
(* lines in bulk, replaying the log and applying rules take one step per      *)
(* line, record, rule and derivation: Evaluate and Explain may read between   *)
(* them, and the process may die.                                           *)
(***************************************************************************)
EXTENDS Rules, Ascending

CONSTANTS
  InputBeliefs,      \* what callers assert
  InputResolutions,  \* what callers resolve
  InputRules,        \* the rules callers add
  IngestBudget,      \* derivations one Ingest, AddRule or recompute may make (1000)
  BulkBudget,        \* derivations one bulk load may make (10000)
  MaxLog,            \* bound: operations the log holds
  MaxFaults          \* bound: failed log writes and restarts

Source     == [rule : BOOLEAN, name : Token]   \* rule: its text starts with rule:
Polarity   == {"+", "-"}
Belief     == [atom : Atom, pol : Polarity, src : Source]
Resolution == [atom : Atom, pol : Polarity]

ASSUME InputAssumption ==
  /\ InputBeliefs \subseteq Belief
  /\ InputResolutions \subseteq Resolution
  /\ InputRules \subseteq Rule

ASSUME BoundAssumption ==
  /\ IngestBudget \in Nat \ {0} /\ BulkBudget \in Nat \ {0}
  /\ MaxLog \in Nat /\ MaxFaults \in Nat

Record == [type : {"fact"}, data : InputBeliefs]
            \cup [type : {"resolution"}, data : InputResolutions]
            \cup [type : {"rule"}, data : InputRules]

Proof == [atom : [from : Term, pred : Term, to : Term], rule : Token, prem : Seq(Atom)]

VARIABLES
  beliefs,      \* belief.Store: the beliefs, one per atom, polarity and source
  resolutions,  \* belief.Store: at most one resolution per atom
  graph,        \* kg.MemGraph: the atoms rules may use as premises
  semantic,     \* SemanticIndex: the atoms it holds a vector of
  derivations,  \* the proofs of every derived atom
  rules,        \* the active rules, in the order they were added
  audit,        \* ilpAudit: what Ingest has shown the inducer
  log,          \* the records a replay reads
  pc,           \* where the running call is
  remaining,    \* ApplyRules: the derivations it may still make
  edges,        \* ApplyRules: the edges this round evaluates rules on
  next,         \* the rule, or the record to replay, that comes next
  todo,         \* ApplyRules: derivations of the current rule still to add
  added,        \* ApplyRules: whether this round has added a belief
  lapses,       \* history: what has been cut short and not made good since
  faults        \* history: failed log writes and restarts

memory == <<beliefs, resolutions, graph, semantic, derivations, rules, audit>>
frame  == <<remaining, edges, next, todo, added>>
vars   == <<memory, log, pc, frame, lapses, faults>>

(***************************************************************************)
(* lapses names the ways a call can end without doing all it stands for.     *)
(*   log         memory and log were not written together                    *)
(*   rules       a change was kept in memory and rules not applied after it   *)
(*   resolution  a resolution was kept in memory and the graph not rebuilt    *)
(*   replay      a replay is running, or has failed half way                  *)
(*   cut         an evaluation was cut short by the derivations still allowed *)
(*   budget      ApplyRules returned because no derivation was left           *)
(***************************************************************************)
Lapse == {"log", "rules", "resolution", "replay", "cut", "budget"}

\* All variables but the log.
StateType ==
  /\ beliefs \subseteq Belief /\ resolutions \subseteq Resolution
  /\ graph \subseteq Atom /\ semantic \subseteq Atom
  /\ derivations \subseteq Proof
  /\ rules \in Seq(InputRules) /\ audit \in Seq(InputBeliefs)
  /\ pc \in {"idle", "bulk", "round", "rule", "derive", "replay"}
  /\ remaining \in Nat /\ edges \subseteq Atom /\ next \in Nat /\ added \in BOOLEAN
  /\ lapses \subseteq Lapse /\ faults \in Nat

TypeOK == StateType /\ log \in Seq(Record)

-----------------------------------------------------------------------------
(* What the stores compute.                                                 *)

ResolvedFalse(res) == {r.atom : r \in {s \in res : s.pol = "-"}}

\* Faulty: the first resolution of an atom stays.
FirstResolutionStays(res, r) ==
  IF \E s \in res : s.atom = r.atom THEN res ELSE res \cup {r}

SetResolution(res, r) == {s \in res : s.atom # r.atom} \cup {r}

\* Faulty: resolutions are not consulted.
ProjectedThoughFalse(bs, res) == {b.atom : b \in {c \in bs : c.pol = "+"}}

\* The atoms ingesting these beliefs puts into the graph.
Projected(bs, res) ==
  {b.atom : b \in {c \in bs : c.pol = "+" /\ c.atom \notin ResolvedFalse(res)}}

\* Faulty: derived facts pass for asserted ones.
BaseAndDerived(bs) == bs

\* What recompute keeps: the beliefs whose source does not start with rule:.
Base(bs) == {b \in bs : ~b.src.rule}

DerivedBelief(a, r) == [atom |-> a, pol |-> "+", src |-> [rule |-> TRUE, name |-> r.name]]

\* ApplyRules handles the derivations of a rule in order.
IsFirst(d, ds) == d \in ds /\ \A e \in ds : e = d \/ DerivationLess(d, e)

\* decodeRule cannot read a conclusion whose last field is empty.
Decodable(r) == r.then.to # Empty

Believed(a, pol) == \E b \in beliefs : b.atom = a /\ b.pol = pol

\* A resolution silences the beliefs about its atom.
Evidence(a) == IF \E r \in resolutions : r.atom = a
                 THEN {r.pol : r \in {s \in resolutions : s.atom = a}}
                 ELSE {b.pol : b \in {c \in beliefs : c.atom = a}}

\* Evaluate.
Truth(a) == CASE Evidence(a) = {}         -> "unknown"
              [] Evidence(a) = {"+"}      -> "true"
              [] Evidence(a) = {"-"}      -> "false"
              [] Evidence(a) = {"+", "-"} -> "both"

-----------------------------------------------------------------------------
Init ==
  /\ beliefs = {} /\ resolutions = {} /\ graph = {} /\ semantic = {}
  /\ derivations = {} /\ rules = << >> /\ audit = << >> /\ log = << >>
  /\ pc = "idle" /\ remaining = 0 /\ edges = {} /\ next = 0 /\ todo = {}
  /\ added = FALSE /\ lapses = {} /\ faults = 0

ClearFrame == remaining' = 0 /\ edges' = {} /\ next' = 0 /\ todo' = {} /\ added' = FALSE

Return == pc' = "idle" /\ ClearFrame

StartApplyRules(budget) ==
  /\ pc' = "round"
  /\ remaining' = budget /\ edges' = {} /\ next' = 0 /\ todo' = {} /\ added' = FALSE

IngestNoLog(b) ==
  /\ beliefs' = beliefs \cup {b}
  /\ graph' = graph \cup Projected({b}, resolutions)
  /\ semantic' = semantic \cup Projected({b}, resolutions)

Logged(type, data) == log' = Append(log, [type |-> type, data |-> data])

\* A write that reports an error may have left the whole record behind.
AppendFails(type, data) ==
  /\ faults < MaxFaults /\ faults' = faults + 1
  /\ log' = log \/ Logged(type, data)

CanCall == pc = "idle" /\ Len(log) < MaxLog

Ingest(b) ==
  /\ CanCall
  /\ IngestNoLog(b)
  /\ Logged("fact", b)
  /\ audit' = Append(audit, b)
  /\ StartApplyRules(IngestBudget)
  /\ UNCHANGED <<resolutions, derivations, rules, lapses, faults>>

IngestUnlogged(b) ==
  /\ CanCall
  /\ IngestNoLog(b)
  /\ AppendFails("fact", b)
  /\ lapses' = lapses \cup {"log", "rules"}
  /\ UNCHANGED <<resolutions, derivations, rules, audit, pc, frame>>

\* Base facts and resolutions are kept; all else is built again from them.
Recompute(bs, res) ==
  /\ beliefs' = Base(bs)
  /\ resolutions' = res
  /\ graph' = Projected(Base(bs), res)
  /\ semantic' = graph'
  /\ derivations' = {}
  /\ StartApplyRules(IngestBudget)

Resolve(r) ==
  /\ CanCall
  /\ Logged("resolution", r)
  /\ Recompute(beliefs, SetResolution(resolutions, r))
  /\ lapses' = lapses \ {"resolution"}
  /\ UNCHANGED <<rules, audit, faults>>

ResolveUnlogged(r) ==
  /\ CanCall
  /\ resolutions' = SetResolution(resolutions, r)
  /\ AppendFails("resolution", r)
  /\ lapses' = lapses \cup {"log", "resolution"}
  /\ UNCHANGED <<beliefs, graph, semantic, derivations, rules, audit, pc, frame>>

AddRule(r) ==
  /\ CanCall
  /\ rules' = Append(rules, r)
  /\ Logged("rule", r)
  /\ StartApplyRules(IngestBudget)
  /\ UNCHANGED <<beliefs, resolutions, graph, semantic, derivations, audit, lapses, faults>>

AddRuleUnlogged(r) ==
  /\ CanCall
  /\ rules' = Append(rules, r)
  /\ AppendFails("rule", r)
  /\ lapses' = lapses \cup {"log", "rules"}
  /\ UNCHANGED <<beliefs, resolutions, graph, semantic, derivations, audit, pc, frame>>

(***************************************************************************)
(* BulkIngest: one step per line that parses and is valid; the others change *)
(* nothing.  An error of the log is ignored.                                *)
(***************************************************************************)
BulkLine(b) ==
  /\ pc \in {"idle", "bulk"} /\ Len(log) < MaxLog
  /\ IngestNoLog(b)
  /\ pc' = "bulk"
  /\ \/ Logged("fact", b) /\ UNCHANGED <<lapses, faults>>
     \/ AppendFails("fact", b) /\ lapses' = lapses \cup {"log"}
  /\ UNCHANGED <<resolutions, derivations, rules, audit, frame>>

\* The end of the input; of an empty input, when pc is still idle.
BulkEnd ==
  /\ pc \in {"idle", "bulk"}
  /\ StartApplyRules(BulkBudget)
  /\ UNCHANGED <<memory, log, lapses, faults>>

-----------------------------------------------------------------------------
(* ApplyRules.                                                              *)

StartRound ==
  /\ pc = "round"
  /\ pc' = "rule" /\ edges' = graph /\ next' = 1 /\ added' = FALSE
  /\ lapses' = lapses \ {"rules", "cut", "budget"}
  /\ UNCHANGED <<memory, log, remaining, todo, faults>>

EvaluateNextRule ==
  /\ pc = "rule" /\ next \in DOMAIN rules
  /\ pc' = "derive"
  /\ todo' = EvaluateRule(rules[next], edges, remaining)
  /\ lapses' = IF todo' = Derivations(rules[next], edges)
                 THEN lapses ELSE lapses \cup {"cut"}
  /\ UNCHANGED <<memory, log, remaining, edges, next, added, faults>>

\* Faulty: an empty field is let through.
AnyAtom(a) == TRUE

ValidAtom(a) == a.from # Empty /\ a.pred # Empty /\ a.to # Empty

AddDerivation(a, r, d) ==
  derivations' = derivations \cup {[atom |-> a, rule |-> r.name, prem |-> d.prem]}

\* Whether beliefs.Count() grows.
CountGrows == Cardinality(beliefs') > Cardinality(beliefs)

\* The proof is recorded whatever becomes of the atom.
Derive(d) ==
  /\ pc = "derive" /\ IsFirst(d, todo)
  /\ AddDerivation(d.then, rules[next], d)
  /\ IF ValidAtom(d.then)
       THEN IngestNoLog(DerivedBelief(d.then, rules[next]))
       ELSE UNCHANGED <<beliefs, graph, semantic>>
  /\ \/ /\ CountGrows /\ remaining = 1
        /\ Return
        /\ lapses' = lapses \cup {"budget"}
     \/ /\ CountGrows /\ remaining # 1
        /\ remaining' = remaining - 1 /\ added' = TRUE /\ todo' = todo \ {d}
        /\ UNCHANGED <<pc, edges, next, lapses>>
     \/ /\ ~CountGrows
        /\ todo' = todo \ {d}
        /\ UNCHANGED <<pc, remaining, edges, next, added, lapses>>
  /\ UNCHANGED <<resolutions, rules, audit, log, faults>>

RuleDone ==
  /\ pc = "derive" /\ todo = {}
  /\ pc' = "rule" /\ next' = next + 1
  /\ UNCHANGED <<memory, log, remaining, edges, todo, added, lapses, faults>>

\* Faulty: rules are applied once; rounds go on while anything is derivable.
OneRound == FALSE
WhileDerivable == derivations # {}

RoundAgain == added

RoundDone ==
  /\ pc = "rule" /\ next \notin DOMAIN rules
  /\ IF RoundAgain THEN pc' = "round" /\ UNCHANGED frame ELSE Return
  /\ UNCHANGED <<memory, log, lapses, faults>>

-----------------------------------------------------------------------------
(* Replay, and the restart of a process that died at any point.             *)

\* Faulty: the rules of before are kept.
ClearAllButRules ==
  /\ beliefs' = {} /\ resolutions' = {} /\ graph' = {} /\ derivations' = {}
  /\ rules' = rules /\ audit' = << >>

ClearStores ==
  /\ beliefs' = {} /\ resolutions' = {} /\ graph' = {} /\ derivations' = {}
  /\ rules' = << >> /\ audit' = << >>

StartReplay ==
  /\ ClearStores
  /\ pc' = "replay" /\ next' = 1
  /\ remaining' = 0 /\ edges' = {} /\ todo' = {} /\ added' = FALSE
  /\ lapses' = {"replay", "resolution"}
  /\ UNCHANGED log

\* The semantic index is not reset.
ReplayFromLog == pc = "idle" /\ StartReplay /\ UNCHANGED <<semantic, faults>>

\* New, then ReplayFromLog.
Restart ==
  /\ faults < MaxFaults /\ faults' = faults + 1
  /\ StartReplay /\ semantic' = {}

ReplayRecord ==
  /\ pc = "replay" /\ next \in DOMAIN log
  /\ LET rec == log[next]
     IN  \/ /\ rec.type = "fact"
            /\ IngestNoLog(rec.data)
            /\ UNCHANGED <<resolutions, rules>>
         \/ /\ rec.type = "resolution"
            /\ resolutions' = SetResolution(resolutions, rec.data)
            /\ UNCHANGED <<beliefs, graph, semantic, rules>>
         \/ /\ rec.type = "rule" /\ Decodable(rec.data)
            /\ rules' = Append(rules, rec.data)
            /\ UNCHANGED <<beliefs, resolutions, graph, semantic>>
  /\ next' = next + 1
  /\ UNCHANGED <<derivations, audit, log, pc, remaining, edges, todo, added, lapses, faults>>

\* What was replayed so far is left as it is.
ReplayFails ==
  /\ pc = "replay" /\ next \in DOMAIN log
  /\ log[next].type = "rule" /\ ~Decodable(log[next].data)
  /\ Return
  /\ UNCHANGED <<memory, log, lapses, faults>>

\* Faulty: what the records built is taken as it is.
ReplayDoneAsIs ==
  /\ pc = "replay" /\ next \notin DOMAIN log
  /\ StartApplyRules(IngestBudget)
  /\ lapses' = {}
  /\ UNCHANGED <<memory, log, faults>>

ReplayDone ==
  /\ pc = "replay" /\ next \notin DOMAIN log
  /\ Recompute(beliefs, resolutions)
  /\ lapses' = {}
  /\ UNCHANGED <<rules, audit, log, faults>>

-----------------------------------------------------------------------------
Call == \/ \E b \in InputBeliefs : Ingest(b) \/ IngestUnlogged(b) \/ BulkLine(b)
        \/ \E r \in InputResolutions : Resolve(r) \/ ResolveUnlogged(r)
        \/ \E r \in InputRules : AddRule(r) \/ AddRuleUnlogged(r)
        \/ ReplayFromLog

ApplyRules == \/ StartRound \/ EvaluateNextRule \/ RuleDone \/ RoundDone
              \/ \E d \in todo : Derive(d)

Replay == ReplayRecord \/ ReplayFails \/ ReplayDone

Next == Call \/ BulkEnd \/ ApplyRules \/ Replay \/ Restart

(***************************************************************************)
(* The engine's own steps are fair: nothing in a call waits.  The input of a *)
(* bulk load ends.  No caller has to call and no process has to die.         *)
(***************************************************************************)
Spec == Init /\ [][Next]_vars /\ WF_vars(ApplyRules \/ Replay \/ (pc = "bulk" /\ BulkEnd))

-----------------------------------------------------------------------------
(* Properties.                                                              *)

DataIn(l, type) == {l[i].data : i \in {j \in DOMAIN l : l[j].type = type}}

RulesAt(l) == {i \in DOMAIN l : l[i].type = "rule"}

\* The rules of these records, in their order.
RulesIn(l) == LET at == InOrder(RulesAt(l)) IN [n \in DOMAIN at |-> l[at[n]].data]

\* The last resolution these records hold of each atom.
ResolutionsIn(l) ==
  {l[i].data : i \in {j \in DOMAIN l :
     /\ l[j].type = "resolution"
     /\ \A k \in j + 1 .. Len(l) :
          l[k].type = "resolution" => l[k].data.atom # l[j].data.atom}}

Data(type)     == DataIn(log, type)
LogRules       == RulesIn(log)
LogResolutions == ResolutionsIn(log)

\* The sources callers use do not pass for the engine's own.
PlainSources == \A b \in InputBeliefs : ~b.src.rule

Asserted == {b \in beliefs : ~b.src.rule}

\* No resolution waits for the graph to be rebuilt.
UpToDate == "resolution" \notin lapses

\* Between calls, when the last one did all it stands for.
Settled == pc = "idle" /\ lapses \subseteq {"log"}

\* What the rules derive from the graph in one step.
Proofs(i) == {[atom |-> d.then, rule |-> rules[i].name, prem |-> d.prem] :
                d \in Derivations(rules[i], graph)}

ProvableNow == UNION {Proofs(i) : i \in DOMAIN rules}

(***************************************************************************)
(* "Never invents a fact" (README): every atom of the graph has a finite      *)
(* chain of rule applications from facts callers asserted.  A set that holds  *)
(* the asserted atoms of the graph and is closed under the rules within it    *)
(* is the graph, so no atom stands on itself.  Recompute has to forget all    *)
(* derived facts for this, those of rules that lost a premise included.       *)
(***************************************************************************)
NoInventedFacts ==
  PlainSources =>
    \A T \in SUBSET graph :
      /\ \A b \in Asserted : b.pol = "+" /\ b.atom \in graph => b.atom \in T
      /\ \A i \in DOMAIN rules : \A d \in Derivations(rules[i], T) :
           d.then \in graph => d.then \in T
      => T = graph

(***************************************************************************)
(* The graph and the semantic index are the projection of current truth, in  *)
(* the middle of every call too: an atom resolved false is in neither, and no *)
(* positive belief is missing.                                              *)
(***************************************************************************)
GraphIsProjection ==
  UpToDate =>
    /\ graph = {a \in {b.atom : b \in beliefs} : Believed(a, "+") /\ Truth(a) # "false"}
    /\ semantic = graph

(***************************************************************************)
(* Every proof on record applies an active rule to premises that are true    *)
(* now, and every derived fact has a proof: Evaluate never answers with a     *)
(* derivation that rests on a premise resolved false since.                  *)
(***************************************************************************)
ProofsAreSound ==
  /\ derivations \subseteq ProvableNow
  /\ UpToDate => \A p \in derivations : \A i \in DOMAIN p.prem :
                   Truth(p.prem[i]) \in {"true", "both"}
  /\ PlainSources => \A b \in beliefs \ Asserted :
                       \E p \in derivations : p.atom = b.atom /\ p.rule = b.src.name

(***************************************************************************)
(* Between calls the rules have nothing left to derive: every conclusion of   *)
(* the graph is believed on the word of its rule and all its proofs are on    *)
(* record, and nothing else is.                                             *)
(***************************************************************************)
RulesSaturated ==
  Settled /\ PlainSources =>
    /\ derivations = ProvableNow
    /\ beliefs \ Asserted =
         {[atom |-> p.atom, pol |-> "+", src |-> [rule |-> TRUE, name |-> p.rule]] :
            p \in {q \in ProvableNow : ValidAtom(q.atom)}}

(***************************************************************************)
(* Memory holds what the log holds, whatever calls, failed replays and        *)
(* restarts came before.  With the properties above this makes the settled    *)
(* state a function of the log: a restart loses nothing.                     *)
(***************************************************************************)
MemoryMatchesLog ==
  PlainSources /\ lapses \cap {"log", "replay"} = {} =>
    /\ Asserted = Data("fact")
    /\ resolutions = LogResolutions
    /\ rules = LogRules

(***************************************************************************)
(* Every call returns: rounds that feed each other stop when they add no new  *)
(* belief or the budget is used up.                                         *)
(***************************************************************************)
CallsReturn == pc # "idle" ~> pc = "idle"

-----------------------------------------------------------------------------
(* What the documentation says and the code does not do.                    *)

(***************************************************************************)
(* README, Truth: unknown means that no fact and no rule reaches the atom.    *)
(* Here for calls that did not use up their budget.                          *)
(***************************************************************************)
UnknownMeansUnreached ==
  pc = "idle" /\ lapses \subseteq {"cut"} =>
    \A p \in ProvableNow : ValidAtom(p.atom) => Truth(p.atom) # "unknown"

(***************************************************************************)
(* engine.go: an atom resolved false must never enter the graph, or a rule    *)
(* could derive from a premise the store holds to be false.                  *)
(***************************************************************************)
FalsePremiseKeptOut ==
  pc = "idle" /\ "replay" \notin lapses => graph \cap ResolvedFalse(resolutions) = {}

(***************************************************************************)
(* README: ReplayFromLog rebuilds the engine, so a restart loses nothing.     *)
(***************************************************************************)
ReplaySucceeds == pc = "idle" => "replay" \notin lapses

(***************************************************************************)
(* engine.go: the prefix rule: marks a belief the engine wrote itself and     *)
(* everything else is a base fact a caller asserted.                         *)
(***************************************************************************)
CallersFactsKept == pc = "idle" /\ lapses = {} => Data("fact") \subseteq beliefs
=============================================================================
