----------------------------- MODULE Ascending -----------------------------
(***************************************************************************)
(* Numbers in ascending order: the records of a log that have something in    *)
(* common, in the order they were written.  And lists and sets in an order    *)
(* of their own, as sort.Slice leaves them.                                 *)
(***************************************************************************)
EXTENDS Naturals, FiniteSets

\* The number with n - 1 of these before it.
Nth(S, n) == {i \in S : Cardinality({j \in S : j <= i}) = n}

InOrder(S) == [n \in 1 .. Cardinality(S) |-> CHOOSE i \in Nth(S, n) : TRUE]

-----------------------------------------------------------------------------
(* Any order, as a set of pairs.                                            *)

OrderOn(S, Less(_, _)) == {p \in S \X S : Less(p[1], p[2])}

Below(R, S, x) == {y \in S : <<y, x>> \in R}

\* The member that comes first, the one that comes next, and so on.
RankedBy(R, S) ==
  [n \in 1 .. Cardinality(S) |-> CHOOSE x \in S : Cardinality(Below(R, S, x)) = n - 1]

\* The list in this order; what it does not tell apart stays as it was.
PlacesBy(R, s) ==
  {p \in (DOMAIN s) \X (DOMAIN s) :
     \/ <<s[p[1]], s[p[2]]>> \in R
     \/ <<s[p[2]], s[p[1]]>> \notin R /\ p[1] < p[2]}

ListBy(R, s) == [n \in DOMAIN s |-> s[RankedBy(PlacesBy(R, s), DOMAIN s)[n]]]

\* A set and a list as sort.Slice leaves them.
SetSorted(S, Less(_, _)) == RankedBy(OrderOn(S, Less), S)
Sorted(s, Less(_, _)) == ListBy(OrderOn({s[i] : i \in DOMAIN s}, Less), s)

\* The members of a list at these places, and those that pass a test.
AtPlaces(s, P) == LET at == InOrder(P) IN [n \in DOMAIN at |-> s[at[n]]]
Filtered(s, Passes(_)) == AtPlaces(s, {i \in DOMAIN s : Passes(s[i])})
=============================================================================
