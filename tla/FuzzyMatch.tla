----------------------------- MODULE FuzzyMatch -----------------------------
(***************************************************************************)
(* Fuzzy queries: Libs::LookupWithFuzzy (lib/stddict.cpp) goes through the *)
(* headwords and synonyms of all dictionaries once and keeps the           *)
(* reslist_size words nearest to the query.  How near a word must be to be *)
(* looked at, iMaxDistance, falls as the slots fill up.                    *)
(*                                                                         *)
(* A word is a number, in the order of stardict_strcmp.  Two properties of *)
(* it matter: its length less that of the query, and the edit distance     *)
(* between the query and the word cut to the length of the query (both in  *)
(* lower case), which CalEditDistance returns (EditDistance).              *)
(***************************************************************************)
EXTENDS Integers, Sequences

CONSTANTS
    Candidates,
    LenDiff,            \* LenDiff[w]: iCheckWordLen - ucs4_str2_len
    Dist,               \* Dist[w]: the edit distance
    QueryLen,           \* ucs4_str2_len
    reslist_size,       \* 100 in libwrapper.cpp
    iMaxFuzzyDistance,  \* MAX_FUZZY_DISTANCE
    MaxVisits           \* bound on the number of words of all dictionaries

ASSUME CandidatesAssumption == Candidates \subseteq Nat
ASSUME LenDiffAssumption == LenDiff \in [Candidates -> Int]
ASSUME DistAssumption == Dist \in [Candidates -> Nat]
ASSUME SizeAssumption == reslist_size \in Nat \ {0}
ASSUME LimitAssumption == iMaxFuzzyDistance \in Nat \ {0} /\ QueryLen \in Nat

NULL == -1
Slots == 1..reslist_size

VARIABLES
    visits,         \* the words in the order they are visited
    i,              \* the one to be visited next
    pMatchWord,     \* oFuzzystruct[j].pMatchWord
    iMatchWordDistance,
    iMaxDistance,
    found,          \* Found
    reslist         \* the result, <<>> until the function returns

fuzzy_vars == <<visits, i, pMatchWord, iMatchWordDistance, iMaxDistance, found, reslist>>
slots == <<pMatchWord, iMatchWordDistance, iMaxDistance>>

FuzzyTypeOK ==
    /\ visits \in Seq(Candidates)
    /\ i \in 1..Len(visits) + 1
    /\ pMatchWord \in [Slots -> Candidates \cup {NULL}]
    /\ iMatchWordDistance \in [Slots -> Nat]
    /\ iMaxDistance \in 0..iMaxFuzzyDistance
    /\ found \in {"yes", "no"}
    /\ reslist \in Seq(Candidates \cup {NULL})

-----------------------------------------------------------------------------
FuzzyInit ==
    /\ visits \in UNION {[1..n -> Candidates] : n \in 0..MaxVisits}
    /\ i = 1
    /\ pMatchWord = [j \in Slots |-> NULL]
    /\ iMatchWordDistance = [j \in Slots |-> iMaxFuzzyDistance]
    /\ iMaxDistance = iMaxFuzzyDistance
    /\ found = "no"
    /\ reslist = <<>>

\* "tolower and skip too long or too short words"
Skipped(w) == LenDiff[w] >= iMaxDistance \/ -LenDiff[w] >= iMaxDistance

\* CalEditDistance stops at the limit iMaxDistance, but not below it.
Near(w) == Dist[w] < iMaxDistance /\ Dist[w] < QueryLen

AlreadyInList(w) == \E j \in Slots : pMatchWord[j] = w

\* Mutant of ReplacedSlots: the slot is not looked for.
ReplacedSlotsFirst == {1}

\* iMaxDistanceAt: the last slot at iMaxDistance, or else the first slot.
ReplacedSlots ==
    LET At == {j \in Slots : iMatchWordDistance[j] = iMaxDistance}
    IN  IF At = {} THEN {1} ELSE {j \in At : \A k \in At : k <= j}

\* "calc new iMaxDistance"
Greatest(dists) == {m \in {dists[j] : j \in Slots} : \A j \in Slots : dists[j] <= m}

\* Mutant of Replace: iMaxDistance is not calculated anew.
ReplaceKeepingLimit(w) ==
    \E j \in ReplacedSlots :
        /\ pMatchWord' = [pMatchWord EXCEPT ![j] = w]
        /\ iMatchWordDistance' = [iMatchWordDistance EXCEPT ![j] = Dist[w]]
        /\ UNCHANGED iMaxDistance

\* A word is put in place of one of the worst.
Replace(w) ==
    \E j \in ReplacedSlots :
        /\ pMatchWord' = [pMatchWord EXCEPT ![j] = w]
        /\ iMatchWordDistance' = [iMatchWordDistance EXCEPT ![j] = Dist[w]]
        /\ iMaxDistance' \in Greatest(iMatchWordDistance')

\* One iteration of the loop over the words.
Visit ==
    /\ reslist = <<>> /\ i <= Len(visits)
    /\ LET w == visits[i]
       IN  \/ /\ Skipped(w) \/ ~Near(w)
              /\ UNCHANGED <<slots, found>>
           \/ /\ ~Skipped(w) /\ Near(w)
              /\ found' = "yes"
              /\ \/ AlreadyInList(w) /\ UNCHANGED slots
                 \/ ~AlreadyInList(w) /\ Replace(w)
    /\ i' = i + 1
    /\ UNCHANGED <<visits, reslist>>

\* operator< of Fuzzystruct
Before(j, k) ==
    \/ iMatchWordDistance[j] < iMatchWordDistance[k]
    \/ /\ iMatchWordDistance[j] = iMatchWordDistance[k]
       /\ pMatchWord[j] # NULL /\ pMatchWord[k] # NULL
       /\ pMatchWord[j] < pMatchWord[k]

\* The slots are sorted, if anything was found, and returned.
Return ==
    /\ reslist = <<>> /\ i > Len(visits)
    /\ \E p \in [Slots -> Slots] :
        /\ \A j, k \in Slots : j # k => p[j] # p[k]
        /\ IF found = "yes" THEN \A j, k \in Slots : j < k => ~Before(p[k], p[j])
           ELSE p = [j \in Slots |-> j]
        /\ reslist' = [j \in Slots |-> pMatchWord[p[j]]]
    /\ UNCHANGED <<visits, i, slots, found>>

FuzzyNext == Visit \/ Return

FuzzySpec == FuzzyInit /\ [][FuzzyNext]_fuzzy_vars

-----------------------------------------------------------------------------
\* Candidates that were visited.
Visited == {visits[k] : k \in 1..i - 1}

Kept == {pMatchWord[j] : j \in Slots} \ {NULL}

\* "it will certainly be found": some slot is at iMaxDistance, none is beyond it,
\* and the free slots are among those that are replaced before any other.
SlotFound ==
    /\ \E j \in Slots : iMatchWordDistance[j] = iMaxDistance
    /\ \A j \in Slots : iMatchWordDistance[j] <= iMaxDistance
    /\ \A j \in Slots : pMatchWord[j] = NULL <=> iMatchWordDistance[j] = iMaxFuzzyDistance

\* No word is kept twice, and each with its own distance.
KeptOnce ==
    \A j, k \in Slots :
        /\ pMatchWord[j] # NULL /\ j # k => pMatchWord[j] # pMatchWord[k]
        /\ pMatchWord[j] # NULL => iMatchWordDistance[j] = Dist[pMatchWord[j]]

\* One pass with a falling limit loses nothing: a word that was visited and is
\* not kept is no nearer than any kept one, or its length rules it out.
NothingBetterLost ==
    \A w \in Visited \ Kept :
        \/ Dist[w] >= iMaxDistance \/ Dist[w] >= QueryLen
        \/ LenDiff[w] >= iMaxDistance \/ -LenDiff[w] >= iMaxDistance

\* Both: the words kept are the nearest of those seen, each once.
KeepsNearest == KeptOnce /\ NothingBetterLost
=============================================================================
