---------------------------- MODULE SortedWords ----------------------------
(***************************************************************************)
(* Sorted lists of words as the classes derived from idxsyn_file           *)
(* (lib/stddict.hpp) see them, and what looking a word up in one promises. *)
(*                                                                         *)
(* Words are numbers in the order of stardict_strcmp, which is total and   *)
(* calls two words equal only if they are the same.  Positions are 0-based *)
(* as in the code.                                                         *)
(***************************************************************************)
EXTENDS Integers, Sequences

INVALID_INDEX == -100  \* no word of the list is as great as the one looked up
UNSET_INDEX == -1      \* the dictionary has no such list

\* stardict_strcmp
Cmp(a, b) == a - b

\* get_key, where it reads what the list holds.
KeyAt(ks, k) == ks[k + 1]

Positions(ks) == 0..Len(ks) - 1

\* The same word may come more than once.
Sorted(ks) == \A k, l \in DOMAIN ks : k < l => ks[k] <= ks[l]

\* The non-empty sorted lists of at most n words from S.
SortedLists(S, n) == {ks \in UNION {[1..m -> S] : m \in 1..n} : Sorted(ks)}

\* The correct outcomes of looking s up: whether it was found, and its position
\* or else that of the first greater word.
Outcomes(ks, s) ==
    LET Equal == {k \in Positions(ks) : KeyAt(ks, k) = s}
    IN  IF Equal # {} THEN {<<TRUE, k>> : k \in Equal}
        ELSE IF \A k \in Positions(ks) : KeyAt(ks, k) < s THEN {<<FALSE, INVALID_INDEX>>}
        ELSE {<<FALSE, k>> : k \in {p \in Positions(ks) :
                  KeyAt(ks, p) > s /\ \A q \in 0..p - 1 : KeyAt(ks, q) < s}}
=============================================================================
