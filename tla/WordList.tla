------------------------------ MODULE WordList ------------------------------
(***************************************************************************)
(* Listing the words of all loaded dictionaries from the one searched for  *)
(* on: Library::ListWords (libwrapper.cpp) and Libs::poGetCurrentWord and  *)
(* poGetNextWord (lib/stddict.cpp), which merge the sorted lists of every  *)
(* dictionary: its headwords and, if it has any, its synonyms.             *)
(*                                                                         *)
(* Words are passed around as pointers into the one page a list has in     *)
(* memory: reading another page of that list overwrites the word.  Each    *)
(* iteration of a loop is a step; sources stands for the order in which    *)
(* the code visits the lists, all headwords before all synonyms.           *)
(***************************************************************************)
EXTENDS SortedWords, SequencesExt

CONSTANTS
    sources,        \* the lists, in the order they are visited
    Synonyms,       \* those of them that hold synonyms
    Words,
    MaxCount,       \* bound on the length of a list
    ENTR_PER_PAGE,
    MAX_LIST        \* 30 in ListWords

ASSUME SourcesAssumption == sources \in Seq(ToSet(sources)) /\ IsInjective(sources)
ASSUME SynonymsAssumption == Synonyms \subseteq ToSet(sources)
ASSUME WordsAssumption == Words \subseteq Int
ASSUME PageAssumption == ENTR_PER_PAGE \in Nat \ {0}
ASSUME MaxCountAssumption == MaxCount \in Nat
ASSUME ListAssumption == MAX_LIST \in Nat \ {0}

Sources == ToSet(sources)
NULL == <<>>

VARIABLES
    keys,     \* the words of each list; a dictionary may have no synonyms
    page,     \* the page of each list in memory
    iIndex,   \* iIndex[s]: the position reached in each list
    start,    \* iIndex when ListWords was called, its iCurrent
    po,       \* poCurrentWord: the list and the position it was read from, or NULL
    pc, i,
    results   \* the words shown

vars == <<keys, page, iIndex, start, po, pc, i, results>>

PageOf(k) == k \div ENTR_PER_PAGE
Pages(s) == {PageOf(k) : k \in Positions(keys[s])}

-----------------------------------------------------------------------------
Init ==
    /\ keys \in [Sources -> SortedLists(Words, MaxCount) \cup {<<>>}]
    /\ \A s \in Sources \ Synonyms : keys[s] # <<>>
    /\ page = [s \in Sources |-> IF keys[s] = <<>> THEN UNSET_INDEX
                                 ELSE PageOf(Len(keys[s]) - 1)]
    /\ iIndex = [s \in Sources |-> UNSET_INDEX] /\ start = iIndex
    /\ po = NULL /\ pc = "idle" /\ i = 1 /\ results = <<>>

\* Where SimpleLookup leaves a list: at the first of the entries for the word, or
\* for a similar word if the list has only that, or at the next greater word.
Found(s, str, similar) ==
    LET w == IF str \in ToSet(keys[s]) THEN str
             ELSE IF similar \in ToSet(keys[s]) THEN similar ELSE str
    IN  IF keys[s] = <<>> THEN UNSET_INDEX
        ELSE CHOOSE k \in {o[2] : o \in Outcomes(keys[s], w)} :
                 \A o \in Outcomes(keys[s], w) : k <= o[2]

\* A simple query, up to the loop of poGetCurrentWord.  Which similar words the
\* lists have (LookupSimilarWord) differs from list to list.
Search(str, similar) ==
    /\ pc = "idle"
    /\ iIndex' = [s \in Sources |-> Found(s, str, similar[s])]
    /\ start' = iIndex'
    /\ page' = [s \in Sources |->
                  IF iIndex'[s] >= 0 THEN PageOf(iIndex'[s]) ELSE page[s]]
    /\ po' = NULL /\ results' = <<>>
    /\ pc' = "current" /\ i' = 1
    /\ UNCHANGED keys

\* The tests before a list is read.
Usable(s) == iIndex[s] \in Positions(keys[s])

\* poGetWord and poGetSynonymWord.
WordAt(s) == KeyAt(keys[s], iIndex[s])
PointerTo(s) == [list |-> s, at |-> iIndex[s]]

\* *poCurrentWord, as long as PointerValid holds.
Pointed == KeyAt(keys[po.list], po.at)

\* One iteration of the loops of poGetCurrentWord, and of the first loops of
\* poGetNextWord: the least word is kept, the first list it is found in counts.
Scan ==
    /\ pc \in {"current", "next"} /\ i <= Len(sources)
    /\ LET s == sources[i]
       IN  \/ /\ Usable(s)
              /\ page' = [page EXCEPT ![s] = PageOf(iIndex[s])]
              /\ po' = IF po = NULL \/ Cmp(Pointed, WordAt(s)) > 0
                       THEN PointerTo(s) ELSE po
           \/ ~Usable(s) /\ UNCHANGED <<page, po>>
    /\ i' = i + 1
    /\ UNCHANGED <<keys, iIndex, start, pc, results>>

\* poGetCurrentWord returns to ListWords, by way of poGetNextWord or not.
Insert ==
    /\ pc = "current" /\ i > Len(sources)
    /\ \/ /\ po # NULL
          /\ results' = Append(results, Pointed)
          /\ pc' = IF Len(results') < MAX_LIST THEN "next" ELSE "idle"
       \/ /\ po = NULL
          /\ pc' = "idle"
          /\ UNCHANGED results
    /\ po' = NULL /\ i' = 1
    /\ UNCHANGED <<keys, page, iIndex, start>>

\* The end of the first loops of poGetNextWord.
Picked ==
    /\ pc = "next" /\ i > Len(sources)
    /\ pc' = IF po = NULL THEN "idle" ELSE "others"
    /\ i' = 1
    /\ UNCHANGED <<keys, page, iIndex, start, po, results>>

\* GetWordNext: past all entries of the word.  It reads each entry it passes and
\* the one after them.
GetWordNext(s) ==
    LET Later == {k \in Positions(keys[s]) : k > iIndex[s] /\ KeyAt(keys[s], k) # WordAt(s)}
        Next1 == CHOOSE k \in Later : \A l \in Later : k <= l
    IN  IF Later = {}
        THEN /\ iIndex' = [iIndex EXCEPT ![s] = INVALID_INDEX]
             /\ page' = [page EXCEPT ![s] = PageOf(Len(keys[s]) - 1)]
        ELSE /\ iIndex' = [iIndex EXCEPT ![s] = Next1]
             /\ page' = [page EXCEPT ![s] = PageOf(Next1)]

\* Mutant of Others: the list the word is from is not left for the last.
OthersWithSelf ==
    /\ pc = "others" /\ i <= Len(sources)
    /\ LET s == sources[i]
       IN  \/ /\ Usable(s) /\ WordAt(s) = Pointed
              /\ GetWordNext(s)
           \/ /\ Usable(s) /\ WordAt(s) # Pointed
              /\ page' = [page EXCEPT ![s] = PageOf(iIndex[s])]
              /\ UNCHANGED iIndex
           \/ ~Usable(s) /\ UNCHANGED <<page, iIndex>>
    /\ i' = i + 1
    /\ UNCHANGED <<keys, start, po, pc, results>>

\* Mutant of Others: other lists stay at the word.
OthersKeepWord ==
    /\ pc = "others" /\ i <= Len(sources)
    /\ i' = i + 1
    /\ UNCHANGED <<keys, page, iIndex, start, po, pc, results>>

\* The loops over the other lists, which have the same word or a greater one.
Others ==
    /\ pc = "others" /\ i <= Len(sources)
    /\ LET s == sources[i]
       IN  \/ /\ s # po.list /\ Usable(s) /\ WordAt(s) = Pointed
              /\ GetWordNext(s)
           \/ /\ s # po.list /\ Usable(s) /\ WordAt(s) # Pointed
              /\ page' = [page EXCEPT ![s] = PageOf(iIndex[s])]
              /\ UNCHANGED iIndex
           \/ /\ s = po.list \/ ~Usable(s)
              /\ UNCHANGED <<page, iIndex>>
    /\ i' = i + 1
    /\ UNCHANGED <<keys, start, po, pc, results>>

\* "GetWordNext will change poCurrentWord's content, so do it at the last."
Self ==
    /\ pc = "others" /\ i > Len(sources)
    /\ GetWordNext(po.list)
    /\ po' = NULL /\ pc' = "current" /\ i' = 1
    /\ UNCHANGED <<keys, start, results>>

Step == Scan \/ Insert \/ Picked \/ Others \/ Self

Next == Step \/ \E str \in Words, similar \in [Sources -> Words] : Search(str, similar)

\* The loops run to their end before the window takes another event.
Spec == Init /\ [][Next]_vars /\ WF_vars(Step)

-----------------------------------------------------------------------------
\* poCurrentWord points into a page that is still in memory, from when it is
\* chosen until it was last compared or copied.
PointerValid == po # NULL => page[po.list] = PageOf(po.at)

Remaining(from) ==
    UNION {{KeyAt(keys[s], k) : k \in {p \in Positions(keys[s]) : 0 <= from[s] /\ from[s] <= p}} :
             s \in Sources}

\* Between two words, the places reached lose and repeat nothing: what they are
\* still to give is what was to be given and has not been shown.
PlacesConsistent ==
    pc = "current" => Remaining(iIndex) = Remaining(start) \ ToSet(results)

\* The list shows what comes at or after the places the lists were left at, in
\* order, each word once however many lists and entries have it, and stops only
\* at MAX_LIST words or when there are no more.
ListExact ==
    LET All == Remaining(start)
        Shown == ToSet(results)
    IN  /\ Len(results) <= MAX_LIST
        /\ \A k, l \in DOMAIN results : k < l => results[k] < results[l]
        /\ Shown \subseteq All
        /\ \A v \in Shown, w \in All \ Shown : v < w
        /\ pc = "idle" => Shown = All \/ Len(results) = MAX_LIST
        /\ PlacesConsistent
=============================================================================
