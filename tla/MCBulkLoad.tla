----------------------------- MODULE MCBulkLoad -----------------------------
(***************************************************************************)
(* An instance of BulkLoad for TLC: one atom asserted and denied by a file and *)
(* by callers and a rule at different times, a second atom, and rows of every   *)
(* kind.                                                                    *)
(***************************************************************************)
EXTENDS BulkLoad

MCToken == 1 .. 14
MCVar   == {-1}

likes == 5
knows == 6

\* 3 is 1 with a blank before it, and 4 is blank; 10 is a minus sign, 11 has a
\* blank before it and 12 one behind it; 13 starts with a #.
MCBare    == [n \in MCToken \cup {Empty} |-> CASE n = 3           -> 1
                                              [] n = 4           -> Empty
                                              [] n \in {11, 12}  -> 10
                                              [] OTHER           -> n]
MCChopped == [n \in MCToken \cup {Empty} |-> CASE n = 4 -> Empty [] n = 12 -> 10 [] OTHER -> n]

line(fields, bad) == [fields |-> fields, bad |-> bad]

MCRows == {line(<<1, likes, 2>>, "no"), line(<<3, likes, 2, 10>>, "no"), line(<<1, likes, 2, 11>>, "no"),
           line(<<1, knows, 2, 12>>, "no"), line(<<4, likes, 2, 10>>, "no"), line(<<1, likes, 4>>, "no"),
           line(<<1, likes>>, "no"), line(<<13>>, "no"), line(<< >>, "no"),
           line(<<1, likes>>, "malformed"), line(<<1, knows, 2>>, "cut"), line(<<1, likes, 2, 10>>, "dead")}

said(x, y, pol, src, time) ==
  [atom |-> [from |-> x, pred |-> likes, to |-> y], pol |-> pol, src |-> src, time |-> time]

MCAsserted == {said(1, 2, "+", 7, 2), said(1, 2, "+", 6, 2), said(1, 2, "-", 6, 1), said(2, 1, "+", 6, 1)}
MCResolved == {said(1, 2, "-", 8, 0)}

\* By a rule.
MCConcluded == {said(1, 2, "+", 14, 0)}
=============================================================================
