---------------------------- MODULE IndexLookup ----------------------------
(***************************************************************************)
(* Looking a word up in the headwords of one dictionary (lib/stddict.cpp). *)
(*                                                                         *)
(* A plain .idx file and a .syn file are read a page of ENTR_PER_PAGE      *)
(* entries at a time: offset_index::lookup and synonym_file::lookup, whose *)
(* texts are the same, search the first words of the pages, then the       *)
(* entries of one page, and then walk back over the page boundary to find  *)
(* a word to suggest.  An .idx.gz file is held in memory whole and         *)
(* wordlist_index::lookup searches it directly.  Only one page is in       *)
(* memory: what page.entries[] holds depends on what was read last.        *)
(*                                                                         *)
(* A word is a number: its LETTERS digits in base BASE are its letters, so *)
(* the order of the numbers is that of the words, stardict_strcmp.  That   *)
(* order folds the case of ASCII letters only, while prefix_match folds    *)
(* the case of all: Variants has the letters which are far apart in the    *)
(* order, as those with accents are, and one letter to prefix_match.       *)
(***************************************************************************)
EXTENDS SortedWords, FiniteSets

CONSTANTS
    ENTR_PER_PAGE,
    BASE, LETTERS,
    Variants,       \* sets of letters with the same g_unichar_tolower
    MaxCount        \* bound on wordcount

ASSUME PageAssumption == ENTR_PER_PAGE \in Nat \ {0}
ASSUME LetterAssumption == BASE \in Nat \ {0, 1} /\ LETTERS \in Nat \ {0}
ASSUME VariantsAssumption ==
    /\ Variants \subseteq SUBSET (0..BASE - 1)
    /\ \A v, w \in Variants : v # w => v \cap w = {}
ASSUME MaxCountAssumption == MaxCount \in Nat \ {0}

NoWord == -1
NoPage == -1
Words == 0..BASE^LETTERS - 1

VARIABLES
    kind,        \* "paged" (offset_index, synonym_file) or "flat" (wordlist_index)
    keys,        \* the headwords in the file
    page,        \* page.idx: the page in memory
    stage, str,
    iFrom, iTo, iThisIndex, bFound, idx, idx_suggest, best

lookupVars == <<kind, keys, page, stage, str, iFrom, iTo, iThisIndex, bFound,
                idx, idx_suggest, best>>
range == <<iFrom, iTo, iThisIndex>>
result == <<bFound, idx, idx_suggest>>

wordcount == Len(keys)
npages == (wordcount - 1) \div ENTR_PER_PAGE + 2
LastPage == npages - 2
Key(k) == KeyAt(keys, k)

\* prefix_match: how many leading letters two words share, whatever their case.
Letter(w, d) == (w \div BASE^d) % BASE
SameLetter(a, b) == a = b \/ \E v \in Variants : {a, b} \subseteq v
PrefixMatch(a, b) ==
    Cardinality({d \in 0..LETTERS - 1 :
                    \A e \in d..LETTERS - 1 : SameLetter(Letter(a, e), Letter(b, e))})

\* offset_index::load_page: the number of entries of a page.
Entries(p) ==
    IF p = LastPage /\ wordcount % ENTR_PER_PAGE # 0
    THEN wordcount % ENTR_PER_PAGE ELSE ENTR_PER_PAGE

\* get_first_on_page_key, from the three cached entries or from the file.
FirstOnPage(p) == Key(p * ENTR_PER_PAGE)

\* page.entries[e] of the page in memory.
Entry(e) == Key(page * ENTR_PER_PAGE + e)

\* How the search compares: a page, an entry of the page or a word of the list.
Probe(k) ==
    CASE stage = "pages"   -> FirstOnPage(k)
      [] stage = "entries" -> Entry(k)
      [] stage = "words"   -> Key(k)

-----------------------------------------------------------------------------
\* The result variables of a lookup that is not under way.
Clear ==
    /\ iFrom = 0 /\ iTo = 0 /\ iThisIndex = 0
    /\ bFound = FALSE /\ idx = 0 /\ idx_suggest = 0 /\ best = 0

\* Dict::load chooses the class by the name of the file; a wordcount of 0 is
\* refused.
LookupInit ==
    /\ kind \in {"paged", "flat"}
    /\ keys \in SortedLists(Words, MaxCount)
    \* load reads real_last through get_key
    /\ page = IF kind = "paged" THEN LastPage ELSE NoPage
    /\ stage = "idle" /\ str = NoWord
    /\ Clear

\* get_key, from anywhere: leaves the page of the word k in memory.
GetKey(k) ==
    /\ stage = "idle" /\ kind = "paged"
    /\ page' = k \div ENTR_PER_PAGE
    /\ UNCHANGED <<kind, keys, stage, str, range, result, best>>

\* lookup up to the first loop.
Lookup(s) ==
    /\ stage = "idle"
    /\ str' = s
    /\ \/ /\ Cmp(s, Key(0)) < 0
          /\ idx' = 0 /\ idx_suggest' = 0
          /\ stage' = "done"
          /\ UNCHANGED range
       \/ /\ Cmp(s, Key(wordcount - 1)) > 0
          /\ idx' = INVALID_INDEX
          \* iTo, which is a page for offset_index and a word for wordlist_index
          /\ idx_suggest' = IF kind = "paged" THEN LastPage ELSE wordcount - 1
          /\ stage' = "done"
          /\ UNCHANGED range
       \/ /\ Cmp(s, Key(0)) >= 0 /\ Cmp(s, Key(wordcount - 1)) <= 0
          /\ iFrom' = 0 /\ iThisIndex' = 0
          /\ iTo' = IF kind = "paged" THEN LastPage ELSE wordcount - 1
          /\ stage' = IF kind = "paged" THEN "pages" ELSE "words"
          /\ UNCHANGED <<idx, idx_suggest>>
    /\ UNCHANGED <<kind, keys, page, bFound, best>>

\* One iteration of a binary search, over pages, entries or words.
Bisect ==
    /\ stage \in {"pages", "entries", "words"} /\ ~bFound /\ iFrom <= iTo
    /\ LET m == (iFrom + iTo) \div 2
           cmpint == Cmp(str, Probe(m))
       IN  /\ iThisIndex' = m
           /\ iFrom' = IF cmpint > 0 THEN m + 1 ELSE iFrom
           /\ iTo' = IF cmpint < 0 THEN m - 1 ELSE iTo
           /\ bFound' = (cmpint = 0)
    /\ UNCHANGED <<kind, keys, page, stage, str, idx, idx_suggest, best>>

\* The word is the first of a page.
PageFound ==
    /\ stage = "pages" /\ bFound
    /\ idx' = iThisIndex * ENTR_PER_PAGE /\ idx_suggest' = idx'
    /\ stage' = "done"
    /\ UNCHANGED <<kind, keys, page, str, range, bFound, best>>

\* Mutant of PageMissed: the last entry of the page is not searched.
PageMissedShort ==
    /\ stage = "pages" /\ ~bFound /\ iFrom > iTo
    /\ idx' = iTo
    /\ page' = iTo
    /\ iFrom' = 1 /\ iTo' = Entries(iTo) - 2 /\ iThisIndex' = 0
    /\ stage' = "entries"
    /\ UNCHANGED <<kind, keys, str, bFound, idx_suggest, best>>

\* It can only be inside the page before; its first word needs no look.
PageMissed ==
    /\ stage = "pages" /\ ~bFound /\ iFrom > iTo
    /\ idx' = iTo
    /\ page' = iTo
    /\ iFrom' = 1 /\ iTo' = Entries(iTo) - 1 /\ iThisIndex' = 0
    /\ stage' = "entries"
    /\ UNCHANGED <<kind, keys, str, bFound, idx_suggest, best>>

EntryFound ==
    /\ stage = "entries" /\ bFound
    /\ idx' = idx * ENTR_PER_PAGE + iThisIndex /\ idx_suggest' = idx'
    /\ stage' = "done"
    /\ UNCHANGED <<kind, keys, page, str, range, bFound, best>>

\* The word to suggest is looked for from the next greater word backwards.  best
\* is taken from the page in memory, be it the page of that word or not.
EntryMissed ==
    /\ stage = "entries" /\ ~bFound /\ iFrom > iTo
    /\ idx' = idx * ENTR_PER_PAGE + iFrom /\ idx_suggest' = idx'
    /\ best' = PrefixMatch(str, Entry(idx' % ENTR_PER_PAGE))
    /\ stage' = "suggest"
    /\ UNCHANGED <<kind, keys, page, str, range, bFound>>

WordFound ==
    /\ stage = "words" /\ bFound
    /\ idx' = iThisIndex /\ idx_suggest' = iThisIndex
    /\ stage' = "done"
    /\ UNCHANGED <<kind, keys, page, str, range, bFound, best>>

WordMissed ==
    /\ stage = "words" /\ ~bFound /\ iFrom > iTo
    /\ idx' = iFrom /\ idx_suggest' = iFrom
    /\ best' = PrefixMatch(str, Key(iFrom))
    /\ stage' = "suggest"
    /\ UNCHANGED <<kind, keys, page, str, range, bFound>>

\* Mutant of Suggest: a word that has nothing in common does not end the walk.
SuggestUnrelated ==
    /\ stage = "suggest"
    /\ iTo' = idx_suggest - 1
    /\ page' = IF kind = "paged" /\ iTo' >= 0 /\ idx_suggest % ENTR_PER_PAGE = 0
               THEN iTo' \div ENTR_PER_PAGE ELSE page
    /\ LET back == IF kind = "paged"
                   THEN PrefixMatch(str, Key(page' * ENTR_PER_PAGE + (iTo' % ENTR_PER_PAGE)))
                   ELSE PrefixMatch(str, Key(iTo'))
       IN  IF iTo' < 0 \/ back < best
           THEN stage' = "done" /\ UNCHANGED <<best, idx_suggest>>
           ELSE best' = back /\ idx_suggest' = iTo' /\ UNCHANGED stage
    /\ UNCHANGED <<kind, keys, str, iFrom, iThisIndex, bFound, idx>>

\* One iteration of the loop that walks back.
Suggest ==
    /\ stage = "suggest"
    /\ iTo' = idx_suggest - 1
    /\ page' = IF kind = "paged" /\ iTo' >= 0 /\ idx_suggest % ENTR_PER_PAGE = 0
               THEN iTo' \div ENTR_PER_PAGE ELSE page
    /\ LET back == IF kind = "paged"
                   THEN PrefixMatch(str, Key(page' * ENTR_PER_PAGE + (iTo' % ENTR_PER_PAGE)))
                   ELSE PrefixMatch(str, Key(iTo'))
       IN  IF iTo' < 0 \/ back = 0 \/ back < best
           THEN stage' = "done" /\ UNCHANGED <<best, idx_suggest>>
           ELSE best' = back /\ idx_suggest' = iTo' /\ UNCHANGED stage
    /\ UNCHANGED <<kind, keys, str, iFrom, iThisIndex, bFound, idx>>

\* The caller takes the result; the next lookup starts afresh.
Return ==
    /\ stage = "done"
    /\ stage' = "idle" /\ str' = NoWord
    /\ iFrom' = 0 /\ iTo' = 0 /\ iThisIndex' = 0
    /\ bFound' = FALSE /\ idx' = 0 /\ idx_suggest' = 0 /\ best' = 0
    /\ UNCHANGED <<kind, keys, page>>

Step == Bisect \/ PageFound \/ PageMissed \/ EntryFound \/ EntryMissed
        \/ WordFound \/ WordMissed \/ Suggest

LookupNext ==
    \/ Step \/ Return
    \/ \E s \in Words : Lookup(s)
    \/ \E k \in 0..wordcount - 1 : GetKey(k)

\* lookup is a function call: once begun it runs.
LookupSpec == LookupInit /\ [][LookupNext]_lookupVars /\ WF_lookupVars(Step)

-----------------------------------------------------------------------------
\* Both classes keep the promise of IndexSpec: they give the same answers, up to
\* which of several equal words is named, and give them after finitely many
\* steps.  This is what lets the rest of the program ignore pages.
Abstract == INSTANCE IndexSpec
                WITH answer <- IF stage = "done" THEN <<bFound, idx>> ELSE <<>>
Implements == Abstract!Spec

\* GetSuggestWord reads the suggested word without looking at the value: it is a
\* word of the list even when idx is INVALID_INDEX.
SuggestionInRange == stage = "done" => idx_suggest \in 0..wordcount - 1

Shared(k) == PrefixMatch(str, Key(k))

\* The next greater word begins a page: best was taken from the first word of the
\* page before it, which was still in memory.
StaleBest == kind = "paged" /\ idx > 0 /\ idx % ENTR_PER_PAGE = 0

\* A suggestion is a word of the list, never comes after the place where the word
\* would be, and is that place or shares a letter with the word.  It shares as many
\* as the words on either side of the place; where best is stale, as many as the
\* word before the place, unless the first word of that page shares more.
SuggestionPlausible ==
    /\ SuggestionInRange
    /\ stage = "done" /\ ~bFound /\ idx # INVALID_INDEX =>
           /\ idx_suggest <= idx
           /\ idx_suggest < idx => Shared(idx_suggest) > 0
           /\ ~StaleBest =>
                 \A k \in {idx - 1, idx} : k >= 0 => Shared(k) <= Shared(idx_suggest)
           /\ StaleBest /\ Shared(idx - ENTR_PER_PAGE) <= Shared(idx - 1) =>
                 Shared(idx - 1) <= Shared(idx_suggest)
=============================================================================
