----------------------------- MODULE StoresSpec -----------------------------
(***************************************************************************)
(* What the engine takes its stores for: sets that beliefs and resolutions    *)
(* go into, and the projection of the positive beliefs that are not resolved   *)
(* false when they come.                                                    *)
(***************************************************************************)
VARIABLES beliefs, resolutions, graph, semantic

sets == <<beliefs, resolutions, graph, semantic>>

SetsInit == beliefs = {} /\ resolutions = {} /\ graph = {} /\ semantic = {}

ResolvedFalse(a) == \E r \in resolutions : r.atom = a /\ r.pol = "-"

Projected(b) == IF b.pol = "+" /\ ~ResolvedFalse(b.atom) THEN {b.atom} ELSE {}

Learn(b) ==
  /\ beliefs' = beliefs \cup {b}
  /\ graph' = graph \cup Projected(b) /\ semantic' = semantic \cup Projected(b)
  /\ UNCHANGED resolutions

Settle(r) ==
  /\ resolutions' = {s \in resolutions : s.atom # r.atom} \cup {r}
  /\ UNCHANGED <<beliefs, graph, semantic>>

SetsNext == \/ \E b \in beliefs' : Learn(b)
            \/ \E r \in resolutions' : Settle(r)

SetsSpec == SetsInit /\ [][SetsNext]_sets
=============================================================================
