----------------------------- MODULE RuleSearch -----------------------------
(***************************************************************************)
(* The search for words by a pattern or a regular expression: Dict::       *)
(* LookupWithRule and LookupWithRuleSynonym collect the first matches of   *)
(* one dictionary, Libs::LookupWithRule (lib/stddict.cpp) those of all,    *)
(* and Library::LookupWithRule (libwrapper.cpp) lists them.  The same code *)
(* is there for regular expressions.  What matches is up to GLib.          *)
(*                                                                         *)
(* Words are numbers in the order of stardict_strcmp.  A dictionary is     *)
(* [words, syns, ...]: its two indexes.                                    *)
(***************************************************************************)
EXTENDS Naturals, Sequences, FiniteSets, SequencesExt

CONSTANTS
    MAX_MATCH_ITEM_PER_LIB,   \* 100
    Matching                  \* Matching[pattern]: the words that match it

ASSUME MaxMatchAssumption == MAX_MATCH_ITEM_PER_LIB \in Nat \ {0}

\* Dict::LookupWithRule and LookupWithRuleSynonym fill a buffer of iBuffLen places,
\* the last of which is for the -1 that ends them; hits[k] is what is in it when k
\* words have been looked at.
FirstMatches(pattern, index, iBuffLen) ==
    LET hits[k \in 0..Len(index)] ==
            IF k = 0 THEN <<>>
            ELSE IF Len(hits[k - 1]) < iBuffLen - 1 /\ index[k] \in Matching[pattern]
                 THEN Append(hits[k - 1], index[k])
                 ELSE hits[k - 1]
    IN  hits[Len(index)]

\* The words that are not in the list yet are added at its end.
\* Mutant of AddNew: a word is added even if it is there.
AddAll(list, new) == list \o new

AddNew(list, new) ==
    LET added[k \in 0..Len(new)] ==
            IF k = 0 THEN list
            ELSE IF Contains(added[k - 1], new[k]) THEN added[k - 1]
                 ELSE Append(added[k - 1], new[k])
    IN  added[Len(new)]

\* ppMatchWord when all dictionaries have been asked, first for words, then for synonyms.
Matches(pattern, dictmask) ==
    LET matched[k \in 0..Len(dictmask)] ==
            IF k = 0 THEN <<>>
            ELSE AddNew(AddNew(matched[k - 1], FirstMatches(pattern, dictmask[k].words,
                                                          MAX_MATCH_ITEM_PER_LIB + 1)),
                        FirstMatches(pattern, dictmask[k].syns, MAX_MATCH_ITEM_PER_LIB + 1))
    IN  matched[Len(dictmask)]

\* std::sort: at place k is the word that fewer than k words of the list come before,
\* and k or more do not come behind.
Sorted(list) ==
    [k \in DOMAIN list |->
        CHOOSE w \in ToSet(list) :
            /\ Cardinality({j \in DOMAIN list : list[j] < w}) < k
            /\ Cardinality({j \in DOMAIN list : list[j] <= w}) >= k]

LookupWithRule(pattern, dictmask) == Sorted(Matches(pattern, dictmask))
LookupWithRegex(regex, dictmask) == Sorted(Matches(regex, dictmask))

\* The list ppMatchWord has room for this many.
Room(dictmask) == MAX_MATCH_ITEM_PER_LIB * Len(dictmask)
=============================================================================
