---------------------------- MODULE SearchWindow ----------------------------
(***************************************************************************)
(* The search entry and the list of results (mstardict.cpp, libwrapper.cpp)*)
(* with the full text search under them (Libs::LookupData in               *)
(* lib/stddict.cpp), which runs the main loop from its progress callback:  *)
(* while it is half way through a dictionary, the user may type, cancel    *)
(* it, close its dialog, start another search that runs on top of it, or   *)
(* choose other dictionaries.                                              *)
(*                                                                         *)
(* Dictionary[d] is [words, syns, sts, articles], with an article for each *)
(* word; query_dictmask has all those that are loaded, in their order.  A  *)
(* search is a record of the local variables of Library::LookupData and    *)
(* Libs::LookupData; the last of `searches' is the one that is running.    *)
(***************************************************************************)
EXTENDS ArticleSearch, RuleSearch

CONSTANTS
    Dictionary,
    DictLists,     \* the lists of dictionaries that may be loaded
    Texts,         \* what may be typed into the entry
    Period,        \* 10000: the articles between two calls of search_func
    MaxSearches,   \* bound on the full text searches that are started
    MaxReloads     \* bound on the changes of the dictionaries

ASSUME PeriodAssumption == Period \in Nat \ {0}

\* A dictionary without words is not loaded.
ASSUME DictionaryAssumption ==
    /\ DictLists \subseteq Seq(DOMAIN Dictionary)
    /\ \A d \in DOMAIN Dictionary : /\ Dictionary[d].words \in Seq(Nat) \ {<<>>}
                                    /\ Dictionary[d].syns \in Seq(Nat)

\* Words are bytes here; the entry is empty at first.
ASSUME TextsAssumption == Texts \subseteq Seq(Nat) /\ <<>> \in Texts

VARIABLES
    query_dictmask,
    entry,         \* what the entry holds
    results_list,
    label,         \* what is shown: NoResults, NoDictionary or Results
    searches,
    prefix,        \* whether the table of KMP, static there, is allocated
    started, reloads,
    broken         \* what was used although it is not there: Intact, or what

vars == <<query_dictmask, entry, results_list, label, searches, prefix,
          started, reloads, broken>>
bounds == <<started, reloads>>

qtSIMPLE == "simple"
qtPATTERN == "pattern"
qtREGEX == "regex"
qtFUZZY == "fuzzy"
qtDATA == "data"

Slash == 47
Colon == 58
Bar == 124
Star == 42
QuestionMark == 63

\* The state of the loop of analyse_query: what it has copied, whether the byte before
\* was a backslash, and whether there was a wildcard.
\* Mutant of AnalyseByte: an escaped wildcard is one all the same.
AnalyseByteEscaped(done, b) ==
    IF b = BackSlash /\ ~done.escape THEN [done EXCEPT !.escape = TRUE]
    ELSE [res |-> Append(done.res, b), escape |-> FALSE,
          pattern |-> done.pattern \/ b \in {Star, QuestionMark}]

AnalyseByte(done, b) ==
    IF done.escape THEN [done EXCEPT !.res = Append(@, b), !.escape = FALSE]
    ELSE IF b = BackSlash THEN [done EXCEPT !.escape = TRUE]
    ELSE [done EXCEPT !.res = Append(@, b), !.pattern = @ \/ b \in {Star, QuestionMark}]

Analysed(s) ==
    LET done[k \in 0..Len(s)] ==
            IF k = 0 THEN [res |-> <<>>, escape |-> FALSE, pattern |-> FALSE]
            ELSE AnalyseByte(done[k - 1], s[k])
    IN  done[Len(s)]

\* What is asked for, and how (lib/lib.cpp).
analyse_query(s) ==
    LET first == IF s = <<>> THEN NUL ELSE Head(s)
    IN  CASE first = Slash -> [type |-> qtFUZZY, query |-> Tail(s)]
          [] first = Colon -> [type |-> qtREGEX, query |-> Tail(s)]
          [] first = Bar -> [type |-> qtDATA, query |-> Tail(s)]
          [] OTHER -> [type |-> IF Analysed(s).pattern THEN qtPATTERN ELSE qtSIMPLE,
                       query |-> Analysed(s).res]

\* A text that analyse_query takes for a word that is text.
stardict_input_escape(text) ==
    LET res[k \in 0..Len(text)] ==
            IF k = 0
            THEN IF text # <<>> /\ Head(text) \in {Slash, Bar, Colon} THEN <<BackSlash>> ELSE <<>>
            ELSE res[k - 1] \o (IF text[k] \in {BackSlash, Star, QuestionMark}
                                THEN <<BackSlash, text[k]>> ELSE <<text[k]>>)
    IN  res[Len(text)]

Query == [text \in Texts |-> analyse_query(text)]
Queries(type) == {Query[text].query : text \in {x \in Texts : Query[x].type = type}}

\* A data query that ends in a backslash has its loop step over the end.
ASSUME QueryAssumption == \A q \in Queries(qtDATA) : q # <<>> => Last(q) # BackSlash

Intact == "intact"
Working == searches # <<>>
search == Last(searches)
dict == query_dictmask[search.i]
Words(d) == Dictionary[d].words
Searched(d) == containSearchData(Dictionary[d].sts)
Set(rec) == searches' = Append(Front(searches), rec)

Init ==
    /\ query_dictmask \in DictLists /\ entry = <<>>
    /\ results_list = <<>>
    /\ label = IF query_dictmask = <<>> THEN "NoDictionary" ELSE "NoResults"
    /\ searches = <<>> /\ prefix = FALSE
    /\ started = 0 /\ reloads = 0 /\ broken = Intact

\* The main loop runs: nothing is searched, or a search has called for it.
MainLoop == broken = Intact /\ (Working => search.at \in {"create", "update"})

ShowNoResults(bNoResults) == label' = IF bNoResults THEN "NoResults" ELSE "Results"

\* SimpleLookup and ListWords, or LookupWithFuzzy: WordList and FuzzyMatch tell which
\* words they list; if one was found it is among them.
SimpleLists(mask) ==
    {[bFound |-> FALSE, words |-> <<>>]} \cup
    {[bFound |-> b, words |-> Words(mask[1])] : b \in BOOLEAN}

RuleMatches ==
    [text \in Texts |-> [mask \in DictLists |->
        LET dicts == [k \in DOMAIN mask |-> Dictionary[mask[k]]]
        IN  CASE Query[text].type = qtPATTERN -> LookupWithRule(Query[text].query, dicts)
              [] Query[text].type = qtREGEX -> LookupWithRegex(Query[text].query, dicts)
              [] OTHER -> <<>>]]

\* onSearchEntryChanged.  The words that match a pattern or a regular expression are
\* put in a list that may be too short for them.
onSearchEntryChanged(text, mask) ==
    IF mask = <<>> THEN UNCHANGED <<results_list, label, broken>>
    ELSE IF text = <<>>
    THEN ShowNoResults(TRUE) /\ UNCHANGED <<results_list, broken>>
    ELSE \/ /\ Query[text].type = qtDATA
            /\ ShowNoResults(TRUE) /\ UNCHANGED <<results_list, broken>>
         \/ /\ Query[text].type \in {qtPATTERN, qtREGEX}
            /\ LET matches == RuleMatches[text][mask]
               IN  IF Len(matches) <= Room(mask)
                   THEN results_list' = matches /\ ShowNoResults(matches = <<>>)
                        /\ UNCHANGED broken
                   ELSE broken' = "ppMatchWord" /\ UNCHANGED <<results_list, label>>
         \/ /\ Query[text].type \in {qtSIMPLE, qtFUZZY}
            /\ \E simple \in SimpleLists(mask) :
                  results_list' = simple.words /\ ShowNoResults(~simple.bFound)
            /\ UNCHANGED broken

\* What SearchData says of each article of d, and the texts it has KMP look in.
OfArticles(Data(_, _, _)) ==
    [d \in DOMAIN Dictionary |-> [query \in Queries(qtDATA) |->
        [j \in DOMAIN Words(d) |->
            Data(ToSet(SearchWords(query)), Dictionary[d].sts,
                 Bytes(Dictionary[d].sts, Dictionary[d].articles[j]))]]]
SearchesTrue == OfArticles(SearchData)
LooksIn == OfArticles(KMPTexts)

Type ==
    /\ MainLoop
    /\ entry' \in Texts \ {entry} /\ onSearchEntryChanged(entry', query_dictmask)
    /\ UNCHANGED <<query_dictmask, searches, prefix, bounds>>

\* onDictionariesMenuItemClicked: ReLoadDictionaries, and what the entry holds is
\* looked up again.  A search under way keeps what it has counted.
Reload ==
    /\ MainLoop /\ reloads < MaxReloads
    /\ query_dictmask' \in DictLists \ {query_dictmask}
    /\ IF query_dictmask' = <<>>
       THEN label' = "NoDictionary" /\ UNCHANGED <<results_list, broken>>
       ELSE onSearchEntryChanged(entry, query_dictmask')
    /\ searches' = [k \in DOMAIN searches |-> [searches[k] EXCEPT !.reloaded = TRUE]]
    /\ reloads' = reloads + 1
    /\ UNCHANGED <<entry, prefix, started>>

-----------------------------------------------------------------------------
\* Mutant of NewSearch: only the dictionaries that are searched get a list.
NewSearchShort(query) ==
    [query |-> query, at |-> "create",
     reslist |-> [k \in 1..Len(SelectSeq(query_dictmask,
                                         Searched)) |-> <<>>],
     i |-> 0, j |-> 1, iwords |-> 0, search_count |-> 0, cancel |-> FALSE,
     dialog |-> TRUE, reloaded |-> FALSE, freed |-> FALSE]

\* The local variables, with a list of results for each dictionary; `reloaded' and
\* `freed' tell what the others have done to it meanwhile.
NewSearch(query) ==
    [query |-> query, at |-> "create",
     reslist |-> [k \in DOMAIN query_dictmask |-> <<>>],
     i |-> 0, j |-> 1, iwords |-> 0, search_count |-> 0, cancel |-> FALSE,
     dialog |-> TRUE, reloaded |-> FALSE, freed |-> FALSE]

\* SearchWord: the return key, and LookupData up to the dialog it creates.
SearchWord ==
    /\ MainLoop /\ query_dictmask # <<>> /\ Query[entry].type = qtDATA /\ started < MaxSearches
    /\ searches' = Append(searches, NewSearch(Query[entry].query))
    /\ results_list' = <<>> /\ started' = started + 1
    /\ UNCHANGED <<query_dictmask, entry, label, prefix, reloads, broken>>

\* The dialog is answered, or closed, which GTK takes for an answer before it
\* destroys it.
onLookupProgressDialogResponse ==
    /\ MainLoop
    /\ \E k \in DOMAIN searches, open \in BOOLEAN :
          /\ searches[k].dialog
          /\ searches' = [searches EXCEPT ![k].cancel = TRUE, ![k].dialog = open]
    /\ UNCHANGED <<query_dictmask, entry, results_list, label, prefix, bounds, broken>>

-----------------------------------------------------------------------------
others == <<query_dictmask, entry, bounds>>

FirstResults(reslist) ==
    reslist[CHOOSE k \in DOMAIN reslist :
                reslist[k] # <<>> /\ \A j \in 1..k - 1 : reslist[j] = <<>>]

AnyResult(reslist) == \E k \in DOMAIN reslist : reslist[k] # <<>>

\* The end of Library::LookupData: the first dictionary with results gives the list.
ShowResults ==
    LET bFound == AnyResult(search.reslist)
    IN  /\ results_list' = IF bFound THEN results_list \o FirstResults(search.reslist)
                           ELSE results_list
        /\ ShowNoResults(~bFound)
        /\ broken' = IF ~search.dialog THEN "dialog"
                     ELSE IF Len(query_dictmask) > Len(search.reslist) THEN "reslist"
                     ELSE broken
        /\ UNCHANGED others

\* KMP_end, before that: the table is freed under the searches that go on.
Finish ==
    /\ searches' = [k \in DOMAIN Front(searches) |-> [searches[k] EXCEPT !.freed = TRUE]]
    /\ prefix' = FALSE /\ ShowResults

\* Mutant of Found: a word is listed again for each of its articles.
FoundAgain(reslist, key) == Append(reslist, key)

Found(reslist, key) ==
    IF reslist # <<>> /\ Last(reslist) = key THEN reslist ELSE Append(reslist, key)

\* An article is read and searched, if it is still there, and KMP has a table for it.
Read ==
    IF search.i > Len(query_dictmask) \/ search.i > Len(search.reslist)
           \/ search.j > Len(Words(dict))
    THEN broken' = "article"
         /\ UNCHANGED <<results_list, label, searches, prefix, others>>
    ELSE IF WritesNull(prefix, LooksIn[dict][search.query][search.j])
    THEN broken' = "prefix"
         /\ UNCHANGED <<results_list, label, searches, prefix, others>>
    ELSE /\ Set([search EXCEPT
                    !.at = "loop", !.j = @ + 1, !.search_count = @ + 1,
                    !.reslist[search.i] =
                        IF SearchesTrue[dict][search.query][search.j]
                        THEN Found(@, Words(dict)[search.j]) ELSE @])
         /\ prefix' = (prefix \/ LooksIn[dict][search.query][search.j] # <<>>)
         /\ UNCHANGED <<results_list, label, broken, others>>

\* The dialog is shown; the search begins.
Created ==
    /\ search.at = "create"
    /\ IF SearchWords(search.query) = <<>>
       THEN ShowResults /\ searches' = Front(searches) /\ UNCHANGED prefix
       ELSE /\ Set([search EXCEPT !.at = "loop"])
            /\ UNCHANGED <<results_list, label, broken, prefix, others>>

\* The loop over the dictionaries goes on to the next, or is over.
NextDict ==
    /\ search.at = "loop" /\ search.j > search.iwords
    /\ LET next == SelectInSubSeq(query_dictmask, search.i + 1, Len(query_dictmask),
                                  Searched)
       IN  IF next = 0 THEN Finish
           ELSE /\ Set([search EXCEPT !.i = next, !.j = 1,
                                      !.iwords = Len(Words(query_dictmask[next]))])
                /\ UNCHANGED <<results_list, label, broken, prefix, others>>

\* The loop over the articles.
NextArticle ==
    /\ search.at = "loop" /\ search.j <= search.iwords
    /\ IF search.cancel THEN Finish
       ELSE IF search.search_count % Period = 0
       THEN Set([search EXCEPT !.at = "update"])
            /\ UNCHANGED <<results_list, label, broken, prefix, others>>
       ELSE Read

\* search_func returns; whether it was cancelled is only looked at for the next
\* article.
Updated == search.at = "update" /\ Read

LookupData == broken = Intact /\ Working /\ (Created \/ NextDict \/ NextArticle \/ Updated)

Next == Type \/ Reload \/ SearchWord \/ onLookupProgressDialogResponse \/ LookupData

Spec == Init /\ [][Next]_vars

-----------------------------------------------------------------------------
\* LookupData reads articles and fills lists that are there, unless the user has changed
\* the dictionaries under it; a list of matches is only too short for dictionaries with
\* synonyms.
ListsThere ==
    /\ broken \in {"article", "reslist"} => reloads > 0
    /\ broken = "ppMatchWord" =>
           \E k \in DOMAIN query_dictmask : Dictionary[query_dictmask[k]].syns # <<>>

\* Whether KMP has looked in a text of the articles before the one s is at.
Looked(s, mask) ==
    \E k \in DOMAIN mask : \E j \in DOMAIN Words(mask[k]) :
        /\ Searched(mask[k]) /\ (k < s.i \/ (k = s.i /\ j < s.j))
        /\ LooksIn[mask[k]][s.query][j] # <<>>

\* A search whose dictionaries have not changed is only without the table of KMP in the
\* first text it looks in, or because another search, that it was interrupted by, has
\* freed it.
TableThere ==
    broken = "prefix" => search.reloaded \/ search.freed \/ ~Looked(search, query_dictmask)

\* What LookupData uses is there, but for that.
SearchSafe == ListsThere /\ TableThere

\* The words of d whose articles are about the words of the query.
Expected(query, d) ==
    LET words == ToSet(SearchWords(query))
        listed[k \in 0..Len(Words(d))] ==
            IF k = 0 THEN <<>>
            ELSE IF Searched(d) /\ About(words, Dictionary[d].sts, Dictionary[d].articles[k])
                 THEN Found(listed[k - 1], Words(d)[k]) ELSE listed[k - 1]
    IN  listed[Len(Words(d))]

\* A search that comes to its end, is not cancelled and has its dictionaries not changed
\* has found the words whose articles have all the words of the query, whatever was typed and
\* searched in the meantime.  Blocks between texts lead SearchData astray, and so do
\* words of more than two letters KMP: neither is among the dictionaries and queries.
\* Whether a search comes to its end is not said: see SearchSafe.
Ended == Len(searches') < Len(searches) /\ ~search.cancel /\ ~search.reloaded
FoundExactly ==
    [][Ended /\ SearchWords(search.query) # <<>> =>
           \A k \in DOMAIN query_dictmask :
               search.reslist[k] = Expected(search.query, query_dictmask[k])]_vars

\* When no search runs, the list is shown only with words in it, and all of them are
\* words of the dictionaries, even where one search has added to the list of another.
AllWords == [mask \in DictLists |-> UNION {ToSet(Words(mask[k]) \o Dictionary[mask[k]].syns) :
                                              k \in DOMAIN mask}]
ShownHasWords ==
    label = "Results" /\ ~Working =>
        results_list # <<>> /\ (ToSet(results_list) \subseteq AllWords[query_dictmask] \/ reloads > 0)

\* What matches a pattern is listed in order and once, and all of it is if no index has
\* more matches than are collected.
PatternListed ==
    (Query[entry].type \in {qtPATTERN, qtREGEX} /\ started = 0 /\ query_dictmask # <<>> /\ broken = Intact) =>
        /\ \A k \in 1..Len(results_list) - 1 : results_list[k] < results_list[k + 1]
        /\ (\A k \in DOMAIN query_dictmask :
                \A index \in {Words(query_dictmask[k]), Dictionary[query_dictmask[k]].syns} :
                   Cardinality({n \in DOMAIN index : index[n] \in Matching[Query[entry].query]})
                       <= MAX_MATCH_ITEM_PER_LIB)
           => ToSet(results_list) = AllWords[query_dictmask] \cap Matching[Query[entry].query]

\* Both, of what is in the list when no search runs.
ListRight == ShownHasWords /\ PatternListed

\* A word that is escaped is looked up as it is, whatever it begins with or contains.
EscapedIsLiteral ==
    analyse_query(stardict_input_escape(entry)) = [type |-> qtSIMPLE, query |-> entry]
=============================================================================
