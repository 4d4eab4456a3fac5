---------------------------- MODULE BeliefStore ----------------------------
(***************************************************************************)
(* pkg/belief/store.go: beliefs by atom and polarity, each list sorted by     *)
(* time and source, and at most one resolution per atom.                     *)
(***************************************************************************)
EXTENDS Rules, Ascending, SequencesExt

VARIABLES
  beliefsByAtom,      \* from the atoms seen to their beliefs, a list per polarity
  resolutionByAtom,   \* from the atoms resolved to their resolution
  count

store == <<beliefsByAtom, resolutionByAtom, count>>

Polarity == {"-", "+"}

Opposite(pol) == IF pol = "+" THEN "-" ELSE "+"

StoreInit == beliefsByAtom = << >> /\ resolutionByAtom = << >> /\ count = 0

\* Add and SetResolution return an error for anything else.
Valid(b) == Empty \notin {b.atom.from, b.atom.pred, b.atom.to, b.src} /\ b.pol \in Polarity

ByPolarity(a) == IF a \in DOMAIN beliefsByAtom THEN beliefsByAtom[a] ELSE [pol \in Polarity |-> << >>]

IsDuplicate(b) ==
  \E i \in DOMAIN ByPolarity(b.atom)[b.pol] :
    LET c == ByPolarity(b.atom)[b.pol][i] IN c.src = b.src /\ c.time = b.time

BeliefLess(b, c) == b.time < c.time \/ (b.time = c.time /\ b.src < c.src)

\* Faulty: the list is left as it is.
Behind(s, b) == Append(s, b)

Inserted(s, b) == Sorted(Append(s, b), BeliefLess)

Add(b) ==
  IF IsDuplicate(b)
    THEN UNCHANGED store
    ELSE /\ beliefsByAtom' =
              [a \in DOMAIN beliefsByAtom \cup {b.atom} |->
                 IF a = b.atom THEN [ByPolarity(a) EXCEPT ![b.pol] = Inserted(@, b)]
                               ELSE beliefsByAtom[a]]
         /\ count' = count + 1
         /\ UNCHANGED resolutionByAtom

\* What b is held against: the resolution of its atom or, without one, the
\* first belief of the opposite polarity.
Held(b) == IF b.atom \in DOMAIN resolutionByAtom
             THEN {resolutionByAtom[b.atom]}
             ELSE {ByPolarity(b.atom)[Opposite(b.pol)][i] :
                     i \in DOMAIN ByPolarity(b.atom)[Opposite(b.pol)] \cap {1}}

\* Faulty: only resolutions are looked at.
AgainstResolution(b) == {r \in Held(b) : b.atom \in DOMAIN resolutionByAtom /\ r.pol # b.pol}

\* The contradiction Add returns: the belief or resolution it names, or nothing.
Contradiction(b) == {e \in Held(b) : ~IsDuplicate(b) /\ e.pol # b.pol}

SetResolution(r) ==
  /\ resolutionByAtom' = [a \in DOMAIN resolutionByAtom \cup {r.atom} |->
                            IF a = r.atom THEN r ELSE resolutionByAtom[a]]
  /\ UNCHANGED <<beliefsByAtom, count>>

Snapshot(a) == ByPolarity(a)["-"] \o ByPolarity(a)["+"]

Atoms == SetSorted(DOMAIN beliefsByAtom, AtomLess)

Beliefs == UNION {Range(Snapshot(a)) : a \in DOMAIN beliefsByAtom}

\* The beliefs in the order in which recompute reads them.
Walk == LET as == Atoms IN FlattenSeq([i \in DOMAIN as |-> Snapshot(as[i])])

-----------------------------------------------------------------------------
(***************************************************************************)
(* Walking Atoms and Snapshot, as recompute and compaction do, meets every     *)
(* belief exactly once and as many as Count says, in an order that does not    *)
(* depend on the order of the calls.                                        *)
(***************************************************************************)
WalkMeetsEachOnce ==
  LET walk == Walk
  IN  /\ Len(walk) = count
      /\ \A i, j \in DOMAIN walk : i < j =>
           LET b == walk[i]  c == walk[j]
           IN  \/ AtomLess(b.atom, c.atom)
               \/ b.atom = c.atom /\ b.pol = "-" /\ c.pol = "+"
               \/ b.atom = c.atom /\ b.pol = c.pol /\ BeliefLess(b, c)
=============================================================================
