--------------------------- MODULE MCResultLookup ---------------------------
(***************************************************************************)
(* An instance of ResultLookup over the tables of MCLanguages.             *)
(***************************************************************************)
EXTENDS MCLanguages, ResultLookup

CONSTANTS urlA, urlB

Symmetry == Permutations({urlA, urlB})
MCCount == [v \in DOMAIN MCWords |-> Len(MCWords[v])]
MCDirOf == [u \in Urls |-> u]
=============================================================================
