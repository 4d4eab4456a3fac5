------------------------------ MODULE BulkLoad ------------------------------
(***************************************************************************)
(* pkg/engine/bulk.go on top of the belief store and the graph: the loops      *)
(* that read a file of triples, tab separated, comma separated or JSON, one    *)
(* row per step, and what they count.                                       *)
(*                                                                          *)
(* A row is the list of its fields, as they stand in the file, and may be bad: *)
(* text the format does not allow, a read that fails in the middle of it, or a *)
(* reader that fails there and ever after.  A bad row has the fields read       *)
(* before that; the rest of its text is another row.                         *)
(*                                                                          *)
(* The log, and which derivations the rules make, are Engine's.  Here a log     *)
(* may fail, and the rules conclude any of Concluded.                         *)
(***************************************************************************)
EXTENDS BeliefStore, MemGraph

CONSTANTS
  Bare,            \* what TrimSpace leaves of a field
  Chopped,         \* what it leaves of one at the end of a line
  Hashed,          \* the fields that start with #
  Minus,           \* the field -
  Rows,            \* the rows files are made of
  FileSource,      \* the source given with a file
  Asserted,        \* what callers ingest before
  Resolved,        \* what callers have resolved before
  Concluded,       \* what rules conclude
  MaxRows,         \* bound: rows of a file
  MaxCalls,        \* bound: calls before
  MaxSteps         \* bound: calls and rows together

Name == Token \cup {Empty}

Row == [fields : Seq(Name), bad : {"no", "malformed", "cut", "dead"}]

Belief == [atom : [from : Name, pred : Name, to : Name], pol : Polarity \cup {"none"},
           src : Name, time : Int]

ASSUME RowAssumption ==
  /\ Rows \subseteq Row
  /\ Bare \in [Name -> Name] /\ Bare[Empty] = Empty
  /\ Chopped \in [Name -> Name] /\ \A name \in Name : Bare[Chopped[name]] = Bare[name]
  /\ Minus \in Name /\ Bare[Minus] = Minus /\ Minus # Empty
  /\ FileSource \in Name /\ Asserted \subseteq Belief /\ Resolved \subseteq Belief
  /\ Concluded \subseteq Belief
  /\ MaxRows \in Nat /\ MaxCalls \in Nat /\ MaxSteps \in Nat

VARIABLES
  semantic,    \* SemanticIndex: the atoms it holds a vector of
  pc,          \* idle, reading, ended (the scanner has stopped), rules, done
  format,
  input, at,   \* the file and the row that comes next
  width,       \* csv.Reader: the fields a record must have, 0 before the first
  result,      \* BulkResult
  told,        \* history: the atoms of the contradictions Ingest returned
  counted,     \* history: of those a load counted
  dropped,     \* history: of those found and neither returned nor counted
  calls

load == <<format, input, at, width, result>>
reports == <<told, counted, dropped>>
vars == <<store, memGraph, semantic, pc, load, reports, calls>>

NoResult == [total |-> 0, ingested |-> 0, contradictions |-> 0, errors |-> 0]

Init ==
  /\ StoreInit /\ GraphInit /\ semantic = {} /\ pc = "idle"
  /\ format = "none" /\ input = << >> /\ at = 1 /\ width = 0 /\ result = NoResult
  /\ told = {} /\ counted = {} /\ dropped = {} /\ calls = 0

-----------------------------------------------------------------------------
\* Faulty: resolutions are not consulted.
NeverFalse(a) == FALSE

ResolvedFalse(a) == a \in DOMAIN resolutionByAtom /\ resolutionByAtom[a].pol = "-"

IngestNoLog(b) ==
  /\ Add(b)
  /\ IF b.pol = "+" /\ ~ResolvedFalse(b.atom)
       THEN AddFact(b.atom) /\ semantic' = semantic \cup {b.atom}
       ELSE UNCHANGED <<memGraph, semantic>>

CanCall == pc = "idle" /\ calls < MaxCalls /\ calls' = calls + 1

\* Resolve, with nothing to rebuild yet.
Resolve(r) ==
  /\ CanCall /\ count = 0 /\ Valid(r)
  /\ SetResolution(r)
  /\ UNCHANGED <<memGraph, semantic, pc, load, reports>>

AtomsOf(contradictions) == {e.atom : e \in contradictions}

Ingest(b) ==
  /\ CanCall /\ Valid(b)
  /\ IngestNoLog(b)
  /\ told' = told \cup AtomsOf(Contradiction(b))
  /\ pc' = "rules"
  /\ UNCHANGED <<load, counted, dropped>>

\* The append fails: Ingest returns the error, and no contradiction with it.
IngestNotLogged(b) ==
  /\ CanCall /\ Valid(b)
  /\ IngestNoLog(b)
  /\ dropped' = dropped \cup AtomsOf(Contradiction(b))
  /\ UNCHANGED <<pc, load, told, counted>>

\* ApplyRules drops what ingestNoLog reports.  A known conclusion changes nothing.
Derive(b) ==
  /\ pc = "rules" /\ Valid(b) /\ ~IsDuplicate(b)
  /\ IngestNoLog(b)
  /\ dropped' = dropped \cup AtomsOf(Contradiction(b))
  /\ UNCHANGED <<pc, load, told, counted, calls>>

\* The call, or the load, returns.
RulesApplied ==
  /\ pc = "rules"
  /\ pc' = IF format = "none" THEN "idle" ELSE "done"
  /\ UNCHANGED <<store, memGraph, semantic, load, reports, calls>>

-----------------------------------------------------------------------------
row == input[at]

Trimmed(name) == IF format = "json" THEN name ELSE Bare[name]

\* The fields with something in them.
Solid(fields) == {i \in DOMAIN fields : Bare[fields[i]] # Empty}

\* TrimSpace of a line takes the tabs at either end, and blank fields with them.
LineTrimmed ==
  [rw \in Rows |->
     LET first == Min(Solid(rw.fields))
         last  == Max(Solid(rw.fields))
     IN  IF Solid(rw.fields) = {} THEN << >>
         ELSE [i \in 1 .. last - first + 1 |->
                 IF i = last - first + 1 THEN Chopped[rw.fields[last]]
                                         ELSE rw.fields[first + i - 1]]]

Parts(rw) == IF format = "tsv" THEN LineTrimmed[rw] ELSE rw.fields

\* An object that leaves a field out has it empty.
FieldAt(fields, i) == IF i \in DOMAIN fields THEN fields[i] ELSE Empty

BeliefIn(fields, negative) ==
  [atom |-> [from |-> Trimmed(FieldAt(fields, 1)), pred |-> Trimmed(FieldAt(fields, 2)),
             to   |-> Trimmed(FieldAt(fields, 3))],
   pol  |-> IF negative THEN "-" ELSE "+",
   src  |-> FileSource, time |-> 0]

\* The polarity is not trimmed.
BeliefOf(rw) == BeliefIn(Parts(rw), FieldAt(Parts(rw), 4) = Minus)

\* The JSON decoder takes the array as a whole.
Decodes(rows) == \A i \in DOMAIN rows : rows[i].bad = "no"

Files == BoundedSeq(Rows, MaxRows)

StartLoad(f) ==
  /\ pc = "idle"
  /\ format' = f /\ input' \in Files /\ calls + Len(input') <= MaxSteps
  /\ \/ f = "json" /\ ~Decodes(input') /\ pc' = "done" /\ result' = [NoResult EXCEPT !.errors = 1]
     \/ (f = "json" => Decodes(input')) /\ pc' = "reading" /\ result' = NoResult
  /\ UNCHANGED <<store, memGraph, semantic, at, width, reports, calls>>

Reads(rw) == pc = "reading" /\ at <= Len(input) /\ rw = row

IsComment(rw) == format = "tsv" /\ Parts(rw) # << >> /\ Bare[Parts(rw)[1]] \in Hashed

\* Faulty: a triple with an empty field is passed over like a blank line.
SkippedIfEmpty(rw) ==
  \/ format = "tsv" /\ (Parts(rw) = << >> \/ ~Valid(BeliefOf(rw)))
  \/ format = "csv" /\ rw.fields = << >> /\ rw.bad = "no"
  \/ IsComment(rw)

\* A blank line or a comment; for csv.Reader, a line with nothing at all in it.
Skipped(rw) ==
  \/ format = "tsv" /\ Parts(rw) = << >>
  \/ format = "csv" /\ rw.fields = << >> /\ rw.bad = "no"
  \/ IsComment(rw)

\* What csv.Reader returns an error for.
ReadFails(rw) ==
  /\ format = "csv"
  /\ rw.bad # "no" \/ width \notin {0, Len(rw.fields)}

TooShort(rw) == format # "json" /\ Len(Parts(rw)) < 3

\* Faulty: a read that failed is tried again.
ReadAgain(rw) ==
  /\ at' = IF format = "csv" /\ rw.bad \in {"cut", "dead"} THEN at ELSE at + 1
  /\ pc' = IF format = "tsv" /\ rw.bad \in {"cut", "dead"} THEN "ended" ELSE pc

\* The scanner hands over what it has of a row that is cut, and stops.  The
\* CSV reader goes on, behind the row or, with a reader that is dead, never.
MoveOn(rw) ==
  /\ at' = IF format = "csv" /\ rw.bad = "dead" THEN at ELSE at + 1
  /\ pc' = IF format = "tsv" /\ rw.bad \in {"cut", "dead"} THEN "ended" ELSE pc

SkipRow(rw) ==
  /\ Reads(rw) /\ Skipped(rw)
  /\ MoveOn(rw)
  /\ UNCHANGED <<store, memGraph, semantic, format, input, width, result, reports, calls>>

SeeWidth(rw) == width' = IF format = "csv" /\ width = 0 THEN Len(rw.fields) ELSE width

\* MaxRows bounds what is counted of a reader that is dead.
FailedRead(rw) ==
  /\ Reads(rw) /\ ~Skipped(rw) /\ ReadFails(rw)
  /\ result' = [result EXCEPT !.errors = IF @ > MaxRows THEN @ ELSE @ + 1]
  /\ MoveOn(rw) /\ SeeWidth(rw)
  /\ UNCHANGED <<store, memGraph, semantic, format, input, reports, calls>>

\* Faulty: the row goes on to be ingested.
RefusedAndIngested ==
  [result EXCEPT !.total = @ + 1, !.errors = @ + 1, !.ingested = @ + 1]

Refused == [result EXCEPT !.total = @ + 1, !.errors = @ + 1]

\* Too few fields, or an empty one.
RefusedRow(rw) ==
  /\ Reads(rw) /\ ~Skipped(rw) /\ ~ReadFails(rw)
  /\ TooShort(rw) \/ ~Valid(BeliefOf(rw))
  /\ result' = Refused
  /\ MoveOn(rw) /\ SeeWidth(rw)
  /\ UNCHANGED <<store, memGraph, semantic, format, input, reports, calls>>

IngestRow(rw) ==
  /\ Reads(rw) /\ ~Skipped(rw) /\ ~ReadFails(rw)
  /\ ~TooShort(rw) /\ Valid(BeliefOf(rw))
  /\ IngestNoLog(BeliefOf(rw))
  /\ result' = [result EXCEPT !.total = @ + 1, !.ingested = @ + 1,
                              !.contradictions = @ + Cardinality(Contradiction(BeliefOf(rw)))]
  /\ counted' = counted \cup AtomsOf(Contradiction(BeliefOf(rw)))
  /\ MoveOn(rw) /\ SeeWidth(rw)
  /\ UNCHANGED <<format, input, told, dropped, calls>>

EndOfInput ==
  /\ pc = "ended" \/ (pc = "reading" /\ at > Len(input))
  /\ pc' = "rules"
  /\ UNCHANGED <<store, memGraph, semantic, load, reports, calls>>

Applying == RulesApplied \/ \E b \in Concluded : Derive(b)

Loading ==
  \/ \E rw \in Rows : SkipRow(rw) \/ FailedRead(rw) \/ RefusedRow(rw) \/ IngestRow(rw)
  \/ EndOfInput \/ Applying

Done == pc = "done" /\ UNCHANGED vars

Next == \/ \E r \in Resolved : Resolve(r)
        \/ \E b \in Asserted : Ingest(b) \/ IngestNotLogged(b)
        \/ \E f \in {"tsv", "csv", "json"} : StartLoad(f)
        \/ Loading \/ Done

\* A load and the rules go on; nobody has to start a call.
Spec == Init /\ [][Next]_vars /\ WF_vars(Loading)

-----------------------------------------------------------------------------
(***************************************************************************)
(* The nested maps, sorted lists and counts of the two stores are, for the     *)
(* engine that fills them through ingestNoLog, the sets Engine takes them for. *)
(***************************************************************************)
Sets == INSTANCE StoresSpec
          WITH beliefs     <- Beliefs,
               resolutions <- Range(resolutionByAtom),
               graph       <- AllEdges

StoresAreSets == Sets!SetsSpec

(***************************************************************************)
(* Each atom that Evaluate will call a contradiction was reported when it       *)
(* became one: to the caller of Ingest, or by the count of the load that made  *)
(* it one, which counts no less than it made.  The exceptions are those that a *)
(* rule made, or an Ingest whose log failed: there the report is dropped.      *)
(***************************************************************************)
Disputed == {a \in DOMAIN beliefsByAtom \ DOMAIN resolutionByAtom :
               \A pol \in Polarity : ByPolarity(a)[pol] # << >>}

ContradictionsReported ==
  /\ Disputed \subseteq told \cup counted \cup dropped
  /\ Cardinality(counted) <= result.contradictions

\* What a row says by the place of its fields, blanks around them left aside.
Says(rw) == BeliefIn(rw.fields, Trimmed(FieldAt(rw.fields, 4)) = Minus)

\* A line whose first field is blank loses it, and the others move up; and a
\* polarity with blanks around it is not the text that negation is told by.
Misread(rw) ==
  \/ format = "tsv" /\ 1 \notin Solid(rw.fields)
  \/ Trimmed(FieldAt(rw.fields, 4)) = Minus /\ FieldAt(Parts(rw), 4) # Minus

(***************************************************************************)
(* A load that reports no error has stored of every row what the row says:     *)
(* never with a field in another's place, the opposite polarity, or a field    *)
(* missing.  The exceptions are the rows the loaders misread, and a line file  *)
(* whose reader failed: the loader does not ask the scanner.                   *)
(***************************************************************************)
NothingLostSilently ==
  pc = "done" /\ result.errors = 0 =>
    \/ /\ format = "tsv"
       /\ \E i \in DOMAIN input : input[i].bad \in {"cut", "dead"}
    \/ \A i \in DOMAIN input :
         \/ Solid(input[i].fields) = {} \/ IsComment(input[i]) \/ Misread(input[i])
         \/ Says(input[i]) \in Beliefs

(***************************************************************************)
(* The counters account for every row read, each once, and ingested is never   *)
(* below what the store has gained from the file.                           *)
(***************************************************************************)
RowsAccounted ==
  LET read    == {i \in 1 .. at - 1 : ~Skipped(input[i])}
      dead    == format = "csv" /\ \E i \in DOMAIN input : input[i].bad = "dead"
      refused == format = "json" /\ ~Decodes(input)
  IN  /\ dead \/ refused \/ result.ingested + result.errors = Cardinality(read)
      /\ format = "csv" \/ refused \/ result.total = Cardinality(read)
      /\ Cardinality(Beliefs \ (Asserted \cup Concluded)) <= result.ingested

(***************************************************************************)
(* Every load returns, whatever its rows and wherever its reader fails; the    *)
(* exception is the CSV loader with a reader that goes on failing.            *)
(***************************************************************************)
LoadsReturn ==
  pc = "reading" /\ ~(format = "csv" /\ \E i \in DOMAIN input : input[i].bad = "dead") ~> pc = "done"
=============================================================================
