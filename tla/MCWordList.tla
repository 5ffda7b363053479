----------------------------- MODULE MCWordList -----------------------------
(***************************************************************************)
(* Two dictionaries, the first of which may have synonyms.  Lists of up to *)
(* two pages with words that come twice, in one list or in several, and    *)
(* room for fewer words than there are.                                    *)
(***************************************************************************)
EXTENDS WordList

MCSources == <<"idx1", "idx2", "syn1">>
=============================================================================
