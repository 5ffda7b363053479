---------------------------- MODULE MCFuzzyMatch ----------------------------
(***************************************************************************)
(* Seven words for a query of three letters: the query, one that extends   *)
(* it, and others at the distances 1, 2 and 3.  Three slots, so that the   *)
(* limit falls as they fill and words are replaced.  The distances are     *)
(* those CalEditDistance gives for the word cut to the query's length.     *)
(***************************************************************************)
EXTENDS FuzzyMatch, EditDistance

Query == <<1, 2, 3>>
Spelling == << <<1, 1, 3>>, <<1, 3, 1>>, <<1, 2>>, <<1, 2, 3>>,
               <<1, 3, 2>>, <<1, 2, 3, 3>>, <<3, 1, 1>> >>
Cut(s) == IF Len(s) > Len(Query) THEN SubSeq(s, 1, Len(Query)) ELSE s

MCLenDiff == [w \in Candidates |-> Len(Spelling[w]) - Len(Query)]
MCDist    == [w \in Candidates |-> CalEditDistance(Cut(Spelling[w]), Query, 3)]

\* DistanceExact speaks of no variable: one state is enough to look at it.
CalEditDistanceExact == visits = <<>> => DistanceExact
=============================================================================
