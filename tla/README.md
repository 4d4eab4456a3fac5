# A TLA+ model of nan-core

nan-core is a Go library that keeps facts and rules, derives what follows from
them and answers whether an atom is true, false, both or unknown, with a proof.
This directory holds TLA+ modules that model its core, TLC configurations that
check them on small instances, and proofs, checked by TLAPS, of what holds for
all of them. Paths below are relative to `src/pkg/`; `PROJECT.json` maps each
definition to the lines it stands for.

## The system

| component | state | operations | used by |
| --- | --- | --- | --- |
| `engine` (engine.go, rules.go) | pointers to the stores below, the rules in order, the proofs of each derived atom, an audit list, the log | `Ingest`, `Resolve`, `AddRule`, `ApplyRules`, `ReplayFromLog`, internally `recompute` | the application |
| `engine` bulk loaders (bulk.go) | none | `BulkIngestTriples`, `…CSV`, `…JSON`: ingest line by line, apply rules once | the application |
| `engine` queries (query.go, explain.go) | none | `Evaluate`, `ExplainGraph` | the application |
| `engine` codecs (codec.go, codec_rules.go) | none | beliefs, resolutions and rules to bytes and back | engine, compaction |
| `engine` compaction (compact.go, canonical.go) | none | `CompactToWAL` writes a snapshot as a new log | the application |
| `engine` metrics, semantic index | counters and a bounded trace; a vector per atom | `Record`; `Index`, `Similar` | engine |
| `belief` | beliefs by atom and polarity, one resolution per atom, a count | `Add` (reports a contradiction), `SetResolution`, `Snapshot`, `Atoms`, `Resolutions`, `Count` | engine |
| `kg` | edges in two nested maps, a count | `AddFact`, `EdgesAll` and other sorted listings | engine |
| `rules` | none | unification and three evaluators: plain, with premises, with an index by predicate | engine |
| `store` WAL | a file, a flag for deferred sync, a mutex | `Append`, `Flush`, `Replay`, `OpenWAL`, `Close` | engine through `store.Log` |
| `store` slipstream log | a key-value database with a sequence key | `Append`, `Replay` | engine through `store.Log` |
| `ilp`, `vsa` | none; a vector per name | suggest transitive rules; encode and compare vectors | engine |

Every store has a lock of its own and holds it for one operation; no lock covers
a call of the engine. So readers see a call's steps, and the models speak of one
goroutine that writes.

`Ingest` stores a belief, puts a positive one into the graph unless its atom is
resolved false, appends a record to the log and applies the rules up to a
budget. `Resolve` stores a resolution, logs it, and rebuilds graph, index,
proofs and derived facts from the base facts. A derived fact is a belief whose
source starts with `rule:`. `ReplayFromLog` empties the stores, folds the
records into them and rebuilds. The log calls the engine back for each record.

What is hard here: derived facts that outlive a premise resolved false, in
chains and in cycles; calls that change memory and then fail to log; budgets
that run out inside a rule; a crash between any two steps and a replay of what
the file then holds; torn records; a replay that reads the file while `Append`
writes it; two searches with and without an index that must find the same; readers
between two locks of a call; bulk loads whose reader fails; a compaction that
writes derived facts as facts and rules in another order.
`PROJECT.json` lists these under `hazards`, each at its line and with the
properties that watch it, or with the reason why none does yet.

What makes each part correct:

- engine: nothing is believed that does not follow from asserted facts; the graph
  is the projection of current truth; every proof on record is valid now; between
  calls the rules have nothing left to derive; memory is what the log says; every
  call returns.
- rules: the evaluators agree with each other and with the definition of a match,
  and the order of results does not depend on map iteration.
- readers: an answer was true at some moment of the call and cites the proofs there
  were; only a rebuild may show less.
- stores: the nested maps and sorted lists are sets; no order of calls shows.
- bulk loaders: every row is stored as what it says or counted as refused, but for rows
  with blanks where the loaders do not trim them; contradictions are reported; every load
  returns.
- logs: a replay returns records that were written, whole, in order, and all of
  those that were promised; both backends are the same log to the engine.
- compaction: a restart from the compacted file comes back to the same beliefs and
  proofs.

## The modules

| module | models | lines up with the code |
| --- | --- | --- |
| `Ascending` | a set of numbers in their order; what `sort.Slice` leaves of a set and of a list; the members of a list that pass a test | the place of a member is the number of those before it |
| `Rules` | atoms, patterns, variables, the derivations of a rule, the sort orders | `EvaluateRule` is the result of `EvaluateRuleDerivationsIndexed`, as a set: the first `max` derivations in the order of their premises |
| `Engine` | the engine with its stores as sets, the log as a sequence | one action per call or loop turn; `pc` says where the running call is |
| `MCEngine` | names, facts, rules for TLC | |
| `Readers` | the calls of `Engine` lock by lock, and `Evaluate` and `ExplainGraph` between them | `doing` is the step the writing call has come to, `reader` the reading call |
| `MCReaders` | two nodes and facts that prove themselves | |
| `RuleEval` | the depth-first search of the three evaluators, one candidate edge per step | `path` is the stack of `dfs`, `out` the results so far |
| `Suggest` | `SuggestTransitive`, a count of chains | an operator on the edges |
| `MCRuleEval` | rules and edges for both, for TLC | |
| `StoresSpec` | what the engine takes its stores for: sets | abstract |
| `BeliefStore` | beliefs by atom and polarity in sorted lists, resolutions, the contradiction `Add` returns | one operator per method |
| `MemGraph` | the two nested indexes, the count and the listings | one operator per method |
| `BulkLoad` | the three input loops on top of these two, one row per step | `result` is the `BulkResult`, `width` what `csv.Reader` remembers; `told`, `counted` and `dropped` are history: the contradictions a caller was told of, a load counted, or nobody heard of |
| `MCBulkLoad` | twelve kinds of row, what callers did before and what a rule concludes, for TLC | |
| `LogSpec` | what a `store.Log` promises | abstract |
| `WAL` | the file, `Append` write by write, crashes, and `Replay` | `file` is a sequence of header and payload parts |
| `Slipstream` | the database, `Append` as a transaction step by step, `Replay` | keys are sequences of digits |
| `LogBackends` | either log, by name | `backend` is the name looked up |
| `Codec` | beliefs and rules as streams and back | a length, then the name |
| `Compaction` | `Engine` with `CompactToWAL` record by record, and a restart from its file | `unwritten` is what the three loops have left |
| `MCCompaction` | rules whose order by name is not the order of adding, for TLC | |
| `AscendingProofs` | lemmas about `Ascending` | |
| `EngineProofs`, `ReadersProofs`, `RuleEvalProofs`, `BulkLoadProofs`, `WALProofs`, `LogBackendsProofs`, `CompactionProofs` | theorems about the modules they are named for; `RuleEvalProofs` about `Suggest` too, `BulkLoadProofs` about the two stores, `LogBackendsProofs` about `Slipstream` | |

How they are put together:

- `Engine` EXTENDS `Rules` and takes the log as a sequence whose append may fail and
  may have left the record behind or not. `LogBackends` EXTENDS `WAL` and `Slipstream`
  and shows that either is such a log (`ChosenBackendIsALog`, a refinement of
  `LogSpec`); `RestartLosesNothing` shows where the file is not.
- `Engine` takes the stores as sets. `BulkLoad` EXTENDS `BeliefStore` and `MemGraph`, and
  refines `StoresSpec` (`StoresAreSets`).
- `Engine` takes from `EvaluateRule` a set; `RuleEval` shows that the search returns it.
- `Readers` EXTENDS `Engine`, reuses its actions where a step has one effect, takes the
  others apart, and refines it (`StepsMakeCalls`): `shown` holds what the variables of
  `Engine` were when its last step was complete.
- `Compaction` EXTENDS `Engine` and `Codec` and adds its own steps to those of `Engine`.

In `Engine` the whole of `Ingest`, `Resolve` or `AddRule` up to `ApplyRules` is
one action, because the engine has no concurrent writers and what readers see in
between is the matter of `Readers`; with a failing append it is another action, which ends
the call. `ApplyRules`, bulk loads and replay take one step per derivation, rule,
line and record, so that the invariants must hold inside them and a `Restart` may
cut them off anywhere. `Return` clears the locals of `ApplyRules`.

The variable `lapses` is history. It names what a call has left undone (a log
write that failed, rules not applied, a rebuild that did not happen, a replay
that failed, a budget that ran out), so that a property can say under which of
them it holds. The code does not read it and no guard does.

Abstractions, and why they are safe for what is checked:

- Names are integers, ordered as the strings are. A name that starts with `?` and
  is a variable is a negative one; the empty string is 0. Facts whose names look
  like variables are not entered. Keys joined with `|` and `;` are taken to be
  injective (see the hazard at `rules/eval_indexed.go:44`).
- In `Engine` beliefs carry no time stamp: two that differ in nothing else are one.
  Derived beliefs all have time stamp 0, so among them the model is exact. `BeliefStore`
  has the time stamps; they decide the order of `Snapshot` and what is a duplicate.
- In `Engine` a resolution has no source or time stamp: they are only reported.
- The semantic index is the set of atoms it holds.
- `Readers`: a reader that loaded the pointer to a store just before `recompute` replaced
  it reads what was there at that moment, so it is the reader of that moment. The kind
  of a node of `ExplainGraph` is what `Evaluate` answers and is not asked again; edges are
  a set, a proof read twice adds none. A visit that would return at once is dropped.
- `BulkLoad`: a row is the list of its fields. Names with blanks around them are names of
  their own, of which `Bare` is the one without, and `Chopped` the one without those behind,
  which is what trimming a whole line leaves of its last field. A row that is malformed or
  cut off has the fields read before that, which is what the scanner hands over of it and
  what fixes the width of a CSV file; the rest of its text is another row. Of the log
  `BulkLoad` has only that an append may fail, and of the rules that they conclude any of
  `Concluded` or none; `Engine` has what they do.
- `Slipstream`: the digits of a key are in base 2 in the run. The database commits a
  transaction whole or not at all and keeps it; a commit that reports an error may have
  been made. That is what `slipstream.go` relies on, and it is external.
- `Readers`: proofs of one atom are ordered by rule, then by their premises field by field;
  `sortDerivations` compares premises by their fields joined with `|`. Only that the order
  tells any two apart matters, and no property depends on which it is.
- `Codec`: the bytes of a name are one unit and a length is 0 or 1, which keeps the one
  case the decoders get wrong, a read of nothing at the end.

## The runs

| run | question | bounds | expected |
| --- | --- | --- | --- |
| `engine` | without failures, do the invariants hold inside and between calls, and does every call return? | 3 facts on 3 nodes of which two form a cycle, a transitive rule, resolving one premise false and true; 4 log records; budgets 3 and 8 | pass |
| `engine_faults` | and with a failing append or a crash anywhere? | 2 facts and the denial of what they imply; 2 rules, one unreadable; 3 resolutions; 3 records; 1 fault; budgets 3 and 5 | pass |
| `engine_cut` | is an atom unknown only if no rule reaches it? | 2 facts, 1 rule, budget 1 | violation |
| `engine_false_premise` | is an atom resolved false always out of the graph? | 1 fault | violation |
| `engine_replay` | can a replay fail? | 1 rule with an open conclusion | violation |
| `engine_source` | does a fact a caller asserted stay? | 1 fact with a source that starts with `rule:` | violation |
| `readers` | what can a reader see between two locks of a call? | 3 facts of which two prove themselves and the third in a circle, one of them denied; 1 resolution; 3 log records; 1 fault; explanations of depth 3 | pass |
| `rule_eval` | do the searches return the reference set, in order; does a suggested rule apply as often as was counted? | 7 shapes of rule, all 128 sets of 7 edges, limits 1 to 3 | pass |
| `log_backends` | what does a replay of either log return after failures and crashes, and next to a writer? | file: 3 records of 5 or 6 parts, 2 faults, 1 change of the handle; database: 5 transactions, 2 faults, 1 reopening | pass |
| `wal_torn` | does a restart lose nothing? | 2 records, 1 fault | violation |
| `stores` | are the stores sets, are contradictions reported, and do loads account for every row? | 2 calls, then a file of up to 3 rows of 12 kinds, in 3 formats, 4 calls and rows together; 1 conclusion | pass |
| `compaction` | does a restart from a compacted file come back to the same state? | 2 facts, 1 resolution, 2 rules, 3 records, 1 fault, 1 compaction; all rules with up to 2 premises of 4 patterns for the codecs | pass |

The bounds are small and chosen so that the interesting cases happen. In `engine`
the edges 1-2, 2-1 and 2-3 have three derived edges, 1-1, 2-2 and 1-3, and a fact that
is derived is a premise of others and of itself: with the asserted edge 1-2 resolved
false, the facts that now only prove each other must go, and they come back when it is
flipped. A call has a budget of 3, which the three new facts use up inside a rule
(`engine/rules.go:74`), or which known derivations fill (`engine/rules.go:57`), so that
calls end cut short; a bulk load has 8, completes what they left, and ends by the round
that adds nothing. (The code's 1000 and 10000 differ from these only in size;
`BulkBudget` exceeds `IngestBudget` as in the code.) In `engine_faults` one fault is
enough for memory and log to differ and for every later call and replay to work on
that; a crash may follow any step. In `log_backends` two faults of the file allow a
torn record with a crash after it, and three records allow one before, one at and
one after the tear; keys of three digits in base 2 get a second and a third digit
within five transactions. In `rule_eval` a limit of 3 is below and above the number
of derivations. In `readers` one reader is enough, since readers do not write; three
records allow a fact, the rule, and a fact or resolution that meets a read under
way, and a circle of proofs with depth 3 goes round and comes back with less depth
left. The budget is not exhausted there; `engine` has that. In `stores` the first
calls give an atom that is resolved, asserted or denied before the file or a rule asserts
it, with the report of a call returned or dropped; three rows are a first row that fixes
the width, a second that breaks, and one behind it; the kinds of row include a blank first
and a blank last field, blanks before a name and on either side of a minus sign. Two calls
leave room for two rows, one call for three. In `compaction` two facts and two rules, one over the other's conclusion,
give derived facts that the compacted file holds as facts.

Fairness. `Engine!Spec` asks for weak fairness of the engine's own steps only:
`ApplyRules` and replay are loops in one goroutine that wait for nothing, and a
bulk load is assumed to reach the end of its input. No call need be made and no
crash need happen. `BulkLoad!Spec` asks only that a load goes on, and `LoadsReturn`
names the one reader for which that is not enough, a CSV reader that fails for ever
(`engine/bulk.go:96`), so the assumption in `Engine` holds for all others.
`BackendsSpec` asks that a running `Append` and a running `Replay` of the file go on.
The other specifications need none: they are checked for safety.

What the passing runs show:

- `NoInventedFacts`: every atom of the graph is derivable from asserted facts; also
  after a premise in a cycle is gone.
- `GraphIsProjection`: graph and index hold the atoms with a positive belief that are
  not resolved false, at every step.
- `ProofsAreSound`: each proof on record is an instance of an active rule over true
  premises, and each derived fact has one.
- `RulesSaturated`: between calls, when nothing was cut short, beliefs and proofs are
  exactly what the rules derive in one more step; so a fixed point is reached and
  reached again after every flip.
- `MemoryMatchesLog`: facts, resolutions and rules in memory are those of the log,
  whatever failed replays and crashes came before. With the four properties above
  the settled state is a function of the log.
- `CallsReturn`: every call returns.
- `SearchIsReference`, `FoundInOrder`, `ResultSorted`: the three evaluators find the
  same first `max` derivations, and the result is ordered by a total order, so that
  neither Go's unstable sort nor map iteration can show.
- `SuggestionsApply`: a rule is proposed exactly when adding it would apply it as often
  as chains were counted, loops among the edges included.
- `GraphNeverAhead`: between two locks of a call an edge of the graph is a fact the
  store believes.
- `AnswersWereTrue`, `AnswersCiteProofs`: what `Evaluate` puts together from three reads was
  the truth at some moment of the call, and a derived atom is never called a caller's.
- `ExplanationsBracketed`: `ExplainGraph` returns at least what was on record when it was
  called and at most what is when it returns.
  These four except a rebuild (`recompute` or replay) that a read overlaps: then a
  reader may miss facts, or be told that an atom resolved false is true.
- `StepsMakeCalls`: taken apart, the calls do what `Engine` has them do at once. With the
  resolutions set after the base facts in `recompute` they would not.
- `WalkMeetsEachOnce`, `ListingsAgree`, `StoresAreSets`: what was added in whichever order
  and how often, beliefs are met once and in order, edges are the same by first node,
  last node and predicate, and both are the sets of `Engine`.
- `ContradictionsReported`: an atom that `Evaluate` will call `TruthBoth` was reported when
  it became one: returned by `Ingest`, or among those a load counted, which are never fewer
  than it made. Two are the exceptions, where the code drops the report: an `Ingest` whose
  record could not be logged (`engine/engine.go:182`), and a rule (`engine/rules.go:69`).
- `NothingLostSilently`: a load without errors has stored of every row what it says, no field
  in another's place and not the opposite. The exceptions: the line loader does not notice a
  reader that fails; it trims a line before it splits it, so that a line with a blank first
  field is read one field off (`engine/bulk.go:34`), and with a polarity is stored as another
  fact; and a polarity with blanks beside it is not recognised (`engine/bulk.go:47`, `:112`).
- `RowsAccounted`: each row is counted once.
- `LoadsReturn`: loads return, with the exception above.
- `OnlyWholeRecords`, `SyncedRecordsReplayed`, `ReplayReturns`: a replay of the file
  delivers whole records in the order of writing, and all that were synced as long as
  nothing was written behind a torn record. That a replay returns rests on a writer that
  comes to an end, as it does here after `MaxAppends` records: `Replay` reads without a lock
  until the end of the file, and next to a writer that never pauses it might not get there.
- `NumbersMatchRecords`, `ReplayedInOrder`: whatever transactions failed, the records of
  the database are numbered without gaps and read in that order.
- `ChosenBackendIsALog`: both are the log `LogSpec` describes, the file up to the first
  record that broke off.
- `LogStillMatches`: after compacting, also onto the log itself, memory and log agree
  again but for the order of rules; a compaction of the log that broke off is the
  exception.
- `CompactedStateReturns`, `CompactingTwiceIsOnce`: a restart from the compacted file
  gives the same beliefs and proofs, and compacts to the same file.
- `CodecsInvert`: what is encoded decodes to itself, and the rules that do not are those
  that `Engine` takes for unreadable (finding 3).

Where the code does not do what a comment or the README says, a run shows the
shortest way there; `findings` in `PROJECT.json` quotes the line:

1. `engine_cut`: derivations already known count against the limit of an evaluation. Once a
   rule has as many as a budget, every later call with that budget adds nothing and returns
   with the budget unused, although the rule reaches a new atom.
2. `engine_false_premise`: when the log refuses a resolution, `Resolve` returns with the
   resolution stored and the graph not rebuilt.
3. `engine_replay`: a rule with an empty last field is accepted and cannot be read back.
4. `engine_source`: a caller's source that starts with `rule:` makes its fact vanish.
5. `wal_torn`: what a failed write or a crash leaves of a record stays in the file and
   hides the records after it.

Every property has a mutant in `PROJECT.json`: a definition marked *Faulty* in the
module, which put in the place of the real one breaks the property.

## The proofs

Every theorem holds for all values of the constants: names, facts, rules, budgets,
sizes, numbers of calls and of faults. Each rests on an inductive invariant, given in
brackets, of which TLC checks the instances above.

`EngineProofs` (`StateOK`, then one invariant per theorem on top of it):

- `TypeCorrect`: `Spec => []TypeOK` (`StateOK`: the types; while rules are applied the
  budget is positive, the edges of the round are in the graph and the derivations to do
  come from them; one resolution per atom). The types alone are not inductive: that a
  conclusion is an atom follows only if its premises are edges of well-formed names, and
  that `remaining` stays a natural number only if it is positive while derivations are made.
- `GraphFollowsTruth`: `[]GraphIsProjection` (`Projection`: graph and index are
  `Projected(beliefs, resolutions)` whenever no rebuild is pending). Each ingest adds to
  both sides the same atoms; recompute sets both; a replayed resolution leaves it pending.
- `ProofsStaySound`: `[]ProofsAreSound` (`ProofsHold`: a proof on record is a derivation
  of an active rule from the graph). Between rebuilds rules and graph only grow and
  `DerivationsMonotone` carries a proof over; a rebuild empties the proofs.
- `NeverInvents`: `[]NoInventedFacts` (`Grounded`: the statement together with the proofs).
  An atom that enters the graph by a rule has its premises there at that moment, so any
  closed set that holds the graph of before holds it.
- `RestartLosesNothingLogged`: `[]MemoryMatchesLog` (`LogHeld`: a replay under way has come
  to what the records read so far stand for). The second part is what the end of a replay
  starts from. The lemmas say what one more record does to the facts, the last
  resolutions and the rules of a log.
- `RulesRunToTheEnd`: `[]RulesSaturated` (`FixpointOK`: the rules before `next` and the
  derivations no longer to do are finished on the edges of the round; a round that has
  added nothing so far works on the graph itself). So the round after which `ApplyRules`
  returns has finished all rules on the graph.

`StepKinds` sorts the actions by what they do to beliefs, graph and proofs (learn one
belief, derive one fact, rebuild all, drop all before a replay, keep all), so that the
arguments split on five kinds of step and not on twenty actions.

`ReadersProofs`:

- `StepsImplementCalls`: `StepsSpec => StepsMakeCalls` (`StepsOK`: for each place in a call,
  what the stores hold in terms of what they held when the last step was complete). From
  it the last step of a call is the step `Engine` makes and the others show nothing.
- `EdgesAreBelieved`: `[]GraphNeverAhead` (`NeverAhead`).
- `EvaluateWasTrue`, `DerivedAnswersCiteProofs`: `AnswersWereTrue` and `AnswersCiteProofs`, as
  properties of a step (`AnswersOK`: what the reads so far have found of the atom, and that
  until a resolution enters under the call they are still so; a belief only rules have
  has a proof, also between the lock of the proofs and that of the beliefs).
- `ExplanationsAreBracketed`: `ExplanationsBracketed`, for graphs of proofs of any shape, circles
  included, and any depth (`StoresOK`: proofs on record are finitely many and of atoms, also in
  the middle of a call; `ExplainOK`: there is a set of proofs, those of when the call began,
  that are still on record, and with them the walk under way is right from both sides). From
  above, an atom met with depth left is reached by the proofs of now in as many steps as are
  used up, and reach and edges only grow while nothing is rebuilt (`EdgesByMore`). From below,
  a visit that was made with depth left has put its edges into the graph, and each of their
  atoms has been met with one less, is still to be visited so, or was visited with more. At
  the end nothing is to be visited, so by the least distance at which this fails every atom
  the first proofs reach has been visited with what depth they leave it (`AllReached`).
  The statement that an atom is visited once is not enough: it must be visited again when
  it is met with more depth left, and the invariant says so.
  `PremisesFound` is where the sort of `derivationsFor` enters: it loses no proof, since the
  order tells any two apart. An order that compared premises only up to the shorter list did
  not, for rules of the same name, which is how the model's order was found to lack the last
  line of `sortDerivations`.

`RuleEvalProofs` (`SearchOK`): frame `i` of the path binds the variables of the premises
before it, by a match of them, and has the candidates left that the index or the edges give
in order; what was found is ascending; and every match of the rule is ahead of the path and
behind all that was found, or is found.

- `SearchesAgree`: `[]SearchIsReference`. The path is empty at the end, so all was found, or
  `max` were, all others being behind; `FoundAreFirst` counts that these are the first `max`.
  `CandidatesFor` leaves out no edge that matches.
- `SearchesGoInOrder`: `[]FoundInOrder`. Matches in the order of the path have premises in
  that order. `ResultsComeSorted`: `[]ResultSorted`, since the order is total on what was found.
- `SuggestedRulesApply`: `[]SuggestionsApply`. The chains counted and the derivations of the
  transitive rule are in bijection.

`BulkLoadProofs` (`StoreOK`, `BulkOK`, `GraphOK`, `WalkOK`; `BulkOK` also says of each disputed
atom where its report went, that the load counted as many, and of each row passed what became
of it):

- `StoresAreTheSets`: `Spec => StoresAreSets`. Inserting into a sorted list adds one member
  to a set and nested maps are the edges they hold; a belief is a duplicate exactly if it
  is stored, because time and source tell those of an atom and a polarity apart.
- `ContradictionsAreReported`: `[]ContradictionsReported`. A belief that is new and makes an
  atom disputed finds an opposite one and no resolution, so `Add` reports it (`NewsFound`); who
  gets the report depends on the step.
- `LoadsLoseNothing`: `[]NothingLostSilently`, for rows of any fields. A row that is ingested and
  not misread says the belief that was stored (`ReadAsSaid`): the fields left of a trimmed line
  whose first is not blank are those of the row, up to the last that is not blank (`LineIs`).
- `RowsAreAccounted`: `[]RowsAccounted`. Ingested and refused rows are the rows read, and the
  store gains at most one belief with each row ingested.
- `ListingsAlwaysAgree`: `[]ListingsAgree` (`GraphOK`: the two maps hold the same edges, their
  nodes are names, and the number of facts is that of the edges). Every listing is then the
  one list of some edges in the one order of all edges, also where the code sorts by two of
  the three names, since the third is the same for all it sorts (`SortedEdges`).
- `WalksMeetEachOnce`: `[]WalkMeetsEachOnce` (`WalkOK`: each list of the store ascends strictly,
  and `count` is the number of beliefs). A belief that is inserted has a time or a source of
  its own, so that there are no ties (`InsertedTimed`); the walk puts end to end lists whose
  members come one list after the other (`FlatLists`).

`WALProofs` (`WalOK`): the file is made of records that start with their first part and go on
until they are whole or break off, and what is behind was written later; a replay stands
behind a whole record, has delivered those before it, and when it has returned, what it
still owed is behind one that broke off.

- `WalTypeCorrect`, `ReplayIsWhole` (`[]OnlyWholeRecords`), `SyncedComesBack`
  (`[]SyncedRecordsReplayed`), for records of any length and with `Append`, crash, `Flush` and
  `Replay` interleaved.

`LogBackendsProofs`, of the database (`DbOK`): the keys are those of 1 up to the last number, their records in
the order of the calls; a transaction has read the number that is still the last.

- `DbTypeCorrect`, `RecordsNumbered` (`[]NumbersMatchRecords`), `DbReplaysInOrder`
  (`[]ReplayedInOrder`). `KeysAscend`: keys padded to a width sort as their numbers do, in any
  base; above the width they do not, and `DbAssumption` keeps the numbers below.

And of both: `BackendsKeepPromises`, `BackendsSpec => ChosenBackendIsALog`, from `WalOK` and
`DbOK`: each step of a backend is a write, a promise, a loss at the end or nothing to
`LogSpec`. The records of the file that count are those before the first that broke off,
so a write behind it is none, and neither is a crash that takes only such.

`CompactionProofs` (`CompactionOK`, of these parts), for any number of compactions:

- `CompactingKeepsTheLog`: `[]LogStillMatches` (`WriteOK`: while it is written, the file and
  what is left to write are the snapshot of memory, which does not change; `LogAgrees`: memory
  and log agree but for the order of rules). `CanonicalHolds` says what reading a snapshot
  gives: all beliefs, all resolutions, the rules sorted.
- `CompactionLosesNothing`: `[]CompactedStateReturns` (`KeptOK`: the file is the snapshot of
  the beliefs of before and of some resolutions and rules, that settle to them;
  `MemoryOK`: the invariants of `EngineProofs`, which hold again although the log now has
  derived facts in it, as long as these are positive). `SettledIsStable` turns a settled
  state into equations: the proofs are all that the rules give of the graph, the derived
  beliefs are their conclusions, and no closed set is smaller than the graph. `OneStable`:
  asserted facts, resolutions and the set of rules leave these equations one solution, since
  what two solutions share is closed in both. So it does not matter that derived facts
  come back as facts and rules in another order, nor whether the replay had crashed before.
- `CompactionIsCanonical`: `[]CompactingTwiceIsOnce`. The three orders are total
  (`BeliefsOrdered`, `ResolutionsOrdered`, `RulesOrdered`), so that the records are a function
  of the sets, and of the rules but for their order.
- `CodecsAreInverse`: `[]CodecsInvert`, for all names, empty fields and premise lists of any
  length. The encoders put lists end to end, and `Occurs(w, k, t)` says that `t` is in `w`
  behind `k` units; `FlatPlaces` gives the place of each pattern, `PatternRead` what three
  reads of a decoder that has come to a pattern give (the pattern, and the place behind it,
  or no place if the stream ends with an empty field), and `PremisesRead` goes from pattern
  to pattern by the least one that would be missed. A belief has a time stamp at the end and
  always decodes. That the record being written has a rule in it is part of `TypesOK`.

`CompactionLosesNothing` and `CompactionIsCanonical` ask that callers' sources do not start with `rule:` (`PlainSources`), as
`NoInventedFacts` does: a fact with such a source is in the file and is gone after a rebuild
(finding 4).

`AscendingProofs`: that a finite set and a total order have one listing, `SetSorted` for
sets, `Sorted` for lists (where a tie keeps its place), that what is listed in another order sorts the
same (`SortedAlike`) and what is sorted stays (`SortedStays`), `InOrder` for numbers, and what one more
number at the end does to it; and `Lists(s, R, S)`, that `s` lists `S` in the order `R`: there is one
such list (`OneList`), part of it lists a part (`PlacesList`), and two lists end to end list both
(`EndToEnd`); any number of lists end to end have what is in one of them (`FlatMembers`). Arguments over all sizes go by the least counterexample
(`LeastNumber`, from well-foundedness of the natural numbers).

The proofs rest on the named assumptions of the modules only, which TLC evaluates in the
runs: `NamesAssumption` (names are positive integers and variables negative ones),
`InputAssumption`, `BoundAssumption` (inputs have their types, budgets are positive),
`ReaderAssumption`, `SearchAssumption` (rules and edges have their types, the edges are
finitely many, as they are in the nested maps of the graph), `SuggestAssumption`,
`RowAssumption`, `BoundsAssumption`, `DbAssumption`, `CodecAssumption` (what is encoded has the
types of rules and beliefs; time stamps are integers).

Model-checked only: liveness, which is out of reach of the prover (`CallsReturn`,
`LoadsReturn`, `ReplayReturns`). Every other property of a passing run is a theorem.

## The plan

Done: the modules above, and proofs of all invariants, action properties and refinements
that the passing runs check.

Next: what a reader sees while stores are rebuilt, once it is decided what it should see;
two goroutines that write at once, if calls are ever allowed to overlap.

## Not modelled

- `vsa` and the vectors of the semantic index: floating point and hashes over
  pseudo-random vectors; the truth of an atom does not depend on them. `Similar` reads
  the index's map without a lock while `Ingest` writes it, which Go may answer by
  ending the process (`engine/semantic.go:24`).
- Metrics: counters nothing reads back and a bounded list of traces.
- What a reader sees while the stores are rebuilt, beyond what is said above: no
  document promises anything.
- Two goroutines that write at once: no lock covers a call, and no document or test
  says that calls may overlap.
- Names that hold `|`, `;` or that differ from the atomic values of the models, and
  fields above 65535 bytes.
- The JSON of explanations, the `Details` of proofs, the example program and CI.
