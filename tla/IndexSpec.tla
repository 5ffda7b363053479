----------------------------- MODULE IndexSpec -----------------------------
(***************************************************************************)
(* What idxsyn_file::lookup (lib/stddict.hpp) promises to the code that    *)
(* searches a word list, whichever class implements it: every lookup gets  *)
(* a correct outcome, at once or after a while, and the list stays as it is.*)
(***************************************************************************)
EXTENDS SortedWords

CONSTANTS Words, NoWord

VARIABLES
    keys,   \* the words of the list
    str,    \* the word being looked up, NoWord between lookups
    answer  \* <<bFound, idx>>, or <<>> while there is no answer

vars == <<keys, str, answer>>

Init ==
    /\ keys \in Seq(Words) /\ keys # <<>> /\ Sorted(keys)
    /\ str = NoWord /\ answer = <<>>

Ask ==
    /\ str = NoWord
    /\ str' \in Words
    /\ answer' \in {<<>>} \cup Outcomes(keys, str')
    /\ UNCHANGED keys

Reply ==
    /\ str # NoWord /\ answer = <<>>
    /\ answer' \in Outcomes(keys, str)
    /\ UNCHANGED <<keys, str>>

Return ==
    /\ answer # <<>>
    /\ str' = NoWord /\ answer' = <<>>
    /\ UNCHANGED keys

Next == Ask \/ Reply \/ Return

Spec == Init /\ [][Next]_vars /\ WF_vars(Reply)
=============================================================================
