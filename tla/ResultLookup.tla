---------------------------- MODULE ResultLookup ----------------------------
(***************************************************************************)
(* Looking words up in the dictionaries of the app (libwrapper.cpp,        *)
(* mstardict.cpp, transwin.cpp and the Libs of lib/stddict.cpp): what is   *)
(* found for a word that is typed, and the articles that are shown for one *)
(* that is picked in the list.                                             *)
(*                                                                         *)
(* The app keeps its indexes in the order of their files and has no caches *)
(* made (collation level 0, CreateCacheFile FALSE), so that stardict_strcmp*)
(* orders the words.  Every dictionary may have synonyms, which name a     *)
(* position in its index.                                                  *)
(***************************************************************************)
EXTENDS CollateIndex, SimilarWords

CONSTANTS
    Synonyms,   \* of a version: a list of words with the position each stands for
    Typed       \* the words that are typed

ASSUME SynonymsAssumption ==
    \A v \in Versions : \A k \in DOMAIN Synonyms[v] : Synonyms[v][k].orig < Count[v]

UNSET_INDEX == -1
VARIABLE
    view    \* what is on the screen: a list of words, with what was found for
            \* the word in the entry, or the translation window, with the articles
            \* of every dictionary in order

allVars == <<vars, view>>
NoResult == [kind |-> "none"]

\* The dictionaries of the app are loaded.  It writes no caches and what it may
\* find is offsets of pages, on which no answer depends; to bound the states,
\* words are only looked up while there are no caches and all may be written to.
InApp == /\ session.level = 0 /\ ~session.CreateCacheFile
         /\ \A u \in Urls : open[u].version # NoVersion
         /\ disk = <<>> /\ writable = Dirs

-----------------------------------------------------------------------------
(* Words of one list, ws.                                                  *)

stardict_strcmp(s, t) ==
    IF Lower(s) # Lower(t) THEN LexCmp(Lower(s), Lower(t)) ELSE LexCmp(s, t)

LookupWord(ws, s) ==
    lookup([k \in 0..Len(ws) - 1 |-> stardict_strcmp(s, ws[k + 1])], Matches(ws, s))

\* Dict::GetWordPrev: the last position of the word before the one at idx, or
\* UNSET_INDEX if that is the first.
GetWordPrev(ws, idx) ==
    IF idx = INVALID_INDEX THEN Len(ws) - 1
    ELSE LET Other == {p \in 0..idx : ws[p + 1] # ws[idx + 1]}
         IN  IF Other = {} THEN UNSET_INDEX ELSE Max(Other)

\* Mutant of GetOrigWordCount: the words before the position are not counted.
GetOrigWordCountAfter(ws, idx) ==
    [first |-> idx,
     count |-> Cardinality({p \in idx..Len(ws) - 1 : ws[p + 1] = ws[idx + 1]})]

\* Dict::GetOrigWordCount: how often the word at idx comes, and where first.
GetOrigWordCount(ws, idx) ==
    LET Same == {p \in 0..Len(ws) - 1 : ws[p + 1] = ws[idx + 1]}
    IN  [first |-> Min(Same), count |-> Cardinality(Same)]

\* The first answer that has found its word, or the last one with the idx of the
\* answer before them.
FirstFound(answers, before) ==
    LET Hits == {k \in DOMAIN answers : answers[k].bFound}
    IN  IF before.bFound \/ answers = <<>> THEN before
        ELSE IF Hits # {} THEN answers[Min(Hits)]
        ELSE [Last(answers) EXCEPT !.idx = before.idx]

\* Unless a word has been found: the first of some others that the list has.
LookupFirst(ws, tries, before) ==
    FirstFound([k \in DOMAIN tries |-> LookupWord(ws, tries[k])], before)

\* The first of the words before idx that differ from s only in case, one after
\* the other; UNSET_INDEX if the one before is another word.
BackInCase(ws, s, idx) ==
    LET Back[n \in 0..Len(ws), p \in -2..Len(ws)] ==
            IF n = 0 \/ p < 0 \/ Lower(ws[p + 1]) # Lower(s) THEN UNSET_INDEX
            ELSE LET q == Back[n - 1, GetWordPrev(ws, p)] IN IF q < 0 THEN p ELSE q
    IN  Back[Len(ws), GetWordPrev(ws, idx)]

\* Unless a word has been found: one that differs in case, which is next to where
\* s would be, before idx or at it.
SameInCase(ws, s, before) ==
    LET back == BackInCase(ws, s, before.idx)
    IN  IF before.bFound THEN before
        ELSE IF back >= 0 THEN [before EXCEPT !.bFound = TRUE, !.idx = back]
        ELSE IF before.idx # INVALID_INDEX /\ Lower(ws[before.idx + 1]) = Lower(s)
             THEN [before EXCEPT !.bFound = TRUE]
        ELSE before

\* LookupSynonymSimilarWord
LookupCase(ws, s, before) == SameInCase(ws, s, LookupFirst(ws, CaseForms(s), before))

\* LookupSimilarWord: a word that is not found leaves idx alone, and has
\* idx_suggest of what was tried last.
LookupSimilarWord(ws, s, before) ==
    LookupFirst(ws, StemForms(s), LookupCase(ws, s, before))

\* SimpleLookupWord; to do it again, as BuildResultData does, changes nothing.
SimpleLookupWord(ws, s) == LookupSimilarWord(ws, s, LookupWord(ws, s))

\* SimpleLookupSynonymWord.  The suggestion is only replaced if a word is found.
OnlyIfFound(answer, before) == IF answer.bFound THEN answer ELSE before
SimpleLookupSynonymWord(ws, s) ==
    IF ws = <<>> THEN [bFound |-> FALSE, idx |-> UNSET_INDEX, idx_suggest |-> UNSET_INDEX]
    ELSE OnlyIfFound(LookupCase(ws, s, LookupWord(ws, s)), LookupWord(ws, s))

-----------------------------------------------------------------------------
(* One version of a dictionary.                                            *)

SynWords(v) == [k \in DOMAIN Synonyms[v] |-> Synonyms[v][k].word]
ListedWords == UNION {ToSet(Words[v]) \cup ToSet(SynWords(v)) : v \in Versions}
Asked == Typed \cup ListedWords

\* iIndex of BuildResultData, in the index and in the synonyms.
WordIndex ==
    [v \in Versions |-> [s \in Asked |-> SimpleLookupWord(Words[v], s)]]
SynonymIndex ==
    [v \in Versions |-> [s \in Asked |-> SimpleLookupSynonymWord(SynWords(v), s)]]

\* The positions of a word that was found.
Positions(same) == [k \in 1..same.count |-> same.first + k - 1]
Entries(ws, answer) ==
    IF answer.bFound THEN Positions(GetOrigWordCount(ws, answer.idx)) ELSE <<>>

\* BuildResultData: the entries of the word, then those the synonyms name; an
\* article is its position in the index.
Named(v, at) == [k \in DOMAIN at |-> Synonyms[v][at[k] + 1].orig]
BuildResultData ==
    [v \in Versions |-> [s \in Asked |->
        Entries(Words[v], WordIndex[v][s])
        \o Named(v, Entries(SynWords(v), SynonymIndex[v][s]))]]

\* What the suggestions of a dictionary are: a headword, and a synonym if it has any.
SuggestionsOf(v, s) ==
    {Words[v][WordIndex[v][s].idx_suggest + 1]} \cup
    IF Synonyms[v] = <<>> THEN {} ELSE {SynWords(v)[SynonymIndex[v][s].idx_suggest + 1]}

\* The words that share the most with s, and the first of some words in their order.
Nearest(s, ws) ==
    LET most == Max({prefix_match(s, w) : w \in ws})
    IN  {w \in ws : prefix_match(s, w) = most}
FirstOf(ws) == CHOOSE w \in ws : \A x \in ws : stardict_strcmp(w, x) <= 0

GetSuggestWord(vs, s) == FirstOf(Nearest(s, UNION {SuggestionsOf(v, s) : v \in vs}))

\* SimpleLookup over dictionaries of these versions.
SimpleLookup(vs, s) == \E v \in vs : BuildResultData[v][s] # <<>>

\* The plain query of onSearchEntryChanged, which looks for the suggestion if
\* it finds nothing.
ListShown(s, found, suggestion) ==
    [kind |-> "list", query |-> s, suggested |-> ~found, found |-> found \/ suggestion]
Searched ==
    [s \in Typed |-> [vs \in SUBSET Versions \ {{}} |->
        ListShown(s, SimpleLookup(vs, s), SimpleLookup(vs, GetSuggestWord(vs, s)))]]

-----------------------------------------------------------------------------
ResultInit == Init /\ view = NoResult

Loaded == {open[u].version : u \in Urls}

\* The words ListWords lists are those of the indexes and the synonyms.
Listed == UNION {ToSet(Words[v]) \cup ToSet(SynWords(v)) : v \in Loaded}

\* onSearchEntryChanged
Search ==
    /\ InApp /\ view.kind # "window"
    /\ \E s \in Typed : view' = Searched[s][Loaded]
    /\ UNCHANGED vars

\* onResultsViewSelectionChanged, for a word of the list, and CreateTransWindow.
Select ==
    /\ InApp /\ view.kind = "list"
    /\ \E w \in Listed :
           view' = [kind |-> "window", word |-> w,
                    articles |-> [u \in Urls |-> BuildResultData[open[u].version][w]]]
    /\ UNCHANGED vars

\* The window is closed and the entry emptied.
Clear ==
    /\ view # NoResult /\ view' = NoResult
    /\ UNCHANGED vars

\* The indexes are loaded again, or the files change, with nothing looked up.
Elsewhere == Next /\ view = NoResult /\ UNCHANGED view

ResultNext ==
    \/ Elsewhere
    \/ Search
    \/ Select
    \/ Clear

ResultSpec == ResultInit /\ [][ResultNext]_allVars

-----------------------------------------------------------------------------
\* The articles of a word in a version: those of the entries with the word, and
\* those its synonyms name.
Articles ==
    [v \in Versions |-> [w \in ListedWords |->
        LET Own == SelectSeq([k \in 1..Count[v] |-> k - 1], LAMBDA p : Words[v][p + 1] = w)
            mine == SelectSeq(Synonyms[v], LAMBDA y : y.word = w)
        IN  [own |-> Own, named |-> [k \in DOMAIN mine |-> mine[k].orig]]]]

\* A window shows, of every dictionary that has the word that was picked, each
\* article of it once and in order, and then each that a synonym names, and
\* nothing else; only a dictionary that lacks the word, or has it only as a
\* headword or only as a synonym, may add what it has for a similar one.
EveryArticle ==
    view.kind = "window" =>
        \A u \in Urls :
            LET a == Articles[open[u].version][view.word]
                got == view.articles[u]
            IN  /\ a.own # <<>> => IsPrefix(a.own, got)
                /\ a.named # <<>> => IsSuffix(a.named, got)
                /\ a.own # <<>> /\ a.named # <<>> => got = a.own \o a.named

\* The same letters in another case, or an inflected form.
Similar(w, v) == Lower(w) = Lower(v) \/ Lower(w) \in Inflected(Lower(v))

\* Whether a headword that is found has the letters of the word in another case
\* or the word is an inflected form of it, and whether a version has neither the
\* letters of the word nor a word it is a form of.
FoundIsSimilar ==
    [v \in Versions |-> [q \in Typed |->
        \A p \in ToSet(Entries(Words[v], WordIndex[v][q])) : Similar(q, Words[v][p + 1])]]
NoneSimilar ==
    [v \in Versions |-> [q \in Typed |->
        \A w \in ToSet(Words[v]) :
            /\ Lower(w) # Lower(q)
            /\ Len(w) > 1 /\ w = Lower(w) /\ q \in {Lower(q), Upper(q), Title(q)} =>
                  Lower(q) \notin Inflected(w)]]

\* What is found for a word it is a form of; and a word whose own letters a
\* dictionary has in any case, or of which it has the stem, is not said to be
\* unknown.
SimilarFound ==
    view.kind = "list" =>
        \A v \in Loaded : /\ FoundIsSimilar[v][view.query]
                          /\ view.suggested => NoneSimilar[v][view.query]
=============================================================================
