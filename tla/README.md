# A TLA+ model of mstardict

mstardict is a dictionary reader for Maemo: a GTK program around a copy of the StarDict
library.  It runs in one thread.  What is hard in it is not parallelism but long chains
of calls over shared, cached and half rebuilt state: positions in one list used as
positions in another, pointers into page buffers, handlers that call one another, a main
loop that is run from inside a search, and loops that move through several files at
once.  These modules model those parts; the runs check them on small instances with TLC,
and the proofs establish the most important invariants for every size with TLAPS.

Paths below are relative to the repository (`src/` and `src/lib/` are its own
directories).  Positions are 1-based where the module says so and 0-based
otherwise, as in the code.

## The system

| Part | State it keeps | Operations | Who calls it | What makes it correct |
|---|---|---|---|---|
| main window, `src/mstardict.cpp` | text of the entry, which label is shown | search entry changed, clear, search word, dictionaries menu, preferences menu | GTK events | the label tells whether dictionaries are loaded and words found |
| dictionary manager, `src/dictmngr.cpp` | `query_dictmask`, `iCurrentIndex` | `LoadDictionaries`, `ReLoadDictionaries`, the dialog | `main`, the menu | mask, index array and `oLib` describe the same dictionaries; they are those of the stored list |
| settings, `src/conf.cpp` | gconf: the list of dictionaries, four speech settings | getters and setters that may fail | the two dialogs, start | survive a crash |
| library wrapper, `src/libwrapper.cpp` | none (works on `Libs`) | `SimpleLookup`, `ListWords`, `LookupWithFuzzy/Rule/Regex/Data`, `BuildResultData`, `parse_data` | main window | what is shown is what the dictionaries hold |
| translation window, `src/transwin.cpp` | the word that is shown | create, close | main window | every article of the word |
| `Libs`, `src/lib/stddict.cpp` | `oLib`, the `Dict` objects; `poCurrentWord` | `load`, `reload`, `poGetCurrentWord`, `poGetNextWord`, searches, similar words | library wrapper, manager | each `Dict` owned once; lists merged without gap or repetition; searches complete |
| index files, `offset_index`, `wordlist_index`, `synonym_file` | the page in memory | `load`, `lookup`, `get_key` | `Dict` | a lookup is a search in a sorted list |
| collation, `idxsyn_file`, `collation_file`, `src/lib/collation.cpp`, `ctype-*.cpp` | tables made once per language; sorted positions | `utf8_collate_init`, `utf8_collate`, `collate_sort`, `lookup` | index files, at a collation level above 0 | total orders that follow the alphabets |
| cache files, `cache_file` | `.oft` and `.clt` files, beside the index or in the user's cache directory | `load_cache`, `save_cache` | index files | a cache belongs to its index and version |
| article data, `src/lib/data.cpp` | ring cache of `WORDDATA_CACHE_NUM` articles | `GetWordData`, `SearchData` | `Dict` | the cache tells the truth; sizes agree with `parse_data` |
| compressed files, `src/lib/dictziplib.cpp` | cache of `DICT_CACHE_SIZE` inflated chunks, one inflation stream | `open`, `read`, `close` | article data | the bytes asked for |
| fuzzy search, `LookupWithFuzzy`, `src/lib/distance.cpp` | slots and a falling limit | one call | library wrapper | the nearest words, each once |
| full text search, `Libs::LookupData`, `src/lib/kmp.cpp`, `src/lib/lib.cpp` | results per dictionary, the progress dialog | `LookupData`, `SearchData`, `KMP`, `analyse_query` | library wrapper | finds the articles about the words, whatever the main loop runs meanwhile |
| speech, `src/tts.cpp`, `src/prefsdlg.cpp` | `Enabled`, `Engine`, voice; toggle buttons | handlers, load and save of the preferences | GTK events | one engine and one gender; what is saved is in effect |
| plugin manager, `src/lib/pluginmanager.cpp` | six lists of plugins, open modules, names of loaded files | load, list, unload, reorder | `main` | objects and modules given back once |
| parse data plugins, `stardict-plugins/` | none between articles | `parse` | `parse_data` | sound markup, links where they are shown |
| network client, `src/lib/stardict_client.cpp`, `sockets.cpp` | queue of commands, parser state, two caches | send, cache lookup, callbacks of sockets and threads | nobody in this program | in step with the server; caches fresh |
| DICT and HTTP clients, tree dictionaries, resources | | | nobody in this program | (not modelled) |

The interactions that matter:

* `main` -> `LoadDictionaries` -> `Libs::load`; the menu -> dialog ->
  `SetStringList` -> `ReLoadDictionaries` -> `Libs::reload`; then, always, a new
  search.  Searches go through `query_dictmask[iLib].index` into `oLib` and through
  `iLib` into `iCurrentIndex` and `dict_name`.
* `SimpleLookup` leaves in `iCurrentIndex` one place per list; `ListWords` merges
  the lists from there with `poGetCurrentWord`/`poGetNextWord`, which hold a pointer
  into a page that the next `get_key` of that list replaces.
* `get_word_data` -> `GetWordData` (cache) -> `dictData::read` (cache) ->
  `parse_data`, which must walk over exactly what `GetWordData` wrote.
* A button handler of the preferences may activate or click another button, whose
  handler runs before the first one returns.
* A full text search runs the main loop from its progress callback
  (`LookupProgressDialogUpdate`), so that any handler may run in the middle of it:
  typing, cancelling, closing, another search, a reload of the dictionaries.
* Indexes of one base name share the cache directory, and a cache file is mapped while
  another index may be looking for a place to save its own.
* The plugin manager is asked by `load_plugin`, by the list of plugins and by a reorder,
  which know loaded plugins by three different lists.
* The network client's users, two kinds of threads and the server act between any two
  pieces of an answer.

`PROJECT.json` lists all components, modelled or not, and the hazards, each at the
line where it bites with the properties that watch it.

## The modules

| Module | Models | State and actions |
|---|---|---|
| `DictManager` | manager, dialog, `Libs::load/reload`, search entry | `heap`, `oLib`, `mask`, `idxCap` are the memory, `disk`, `conf` survive `Stop`.  Each iteration of a loop is an action (`LoadNext`, `ReloadNext`, `MaskNext`), each handler another (`OpenDialog`, `AcceptDialog`, `SearchWord`, ...).  `Stop` (quit or crash) may come anywhere; `DiskChange` when the program waits |
| `SortedWords` | the order of words, common to all lists | operators only |
| `IndexSpec` | what a lookup promises: an abstract specification | `Ask`, `Reply`, `Return` |
| `IndexLookup` | `offset_index`, `wordlist_index`, `synonym_file` | `page` is the page in memory; a step is an iteration of one of the loops of `lookup`, or a `get_key` between lookups |
| `WordList` | the merged list of words | `page`, `iIndex` per list, `po` the pointer; `Search`, then steps `Scan`, `Insert`, `Picked`, `Others`, `Self` |
| `FuzzyMatch` | `LookupWithFuzzy` | the three arrays of the slots, the limit; `Visit` is the whole loop body, `Return` the sort |
| `EditDistance` | `CalEditDistance` | operators, with the reference definition |
| `ArticleData` | `GetWordData`, `parse_data` | the dictionary, the cache, the data byte for byte as far as sizes and types tell; `Hit`, `Miss`, `ParseText`, `ParseBlock`, `ParseEnd` |
| `DictZip` | `dictData::read` | the cache, the stream and the bytes read; `Use` is one iteration over the chunks |
| `TtsPrefs` | the preferences dialog and the speech settings | the buttons, the stack of handlers that run, the settings in gconf; `Kill` at any time |
| `ArticleSearch` | how a query is split into words, `SearchData`, `KMP` | operators; a string is a sequence of bytes |
| `RuleSearch` | `LookupWithRule`, `LookupWithRegex` of `Dict` and `Libs` | operators |
| `SearchWindow` | search entry, list of results, `LookupData` under the main loop | `searches` is the stack of the calls of `LookupData` with their local variables; `prefix` tells whether the table of `KMP` is there; `LookupData` is an iteration of a loop of the last of them, `Type`, `Reload`, `SearchWord`, `onLookupProgressDialogResponse` come at its callbacks or between searches |
| `Languages` | the tailoring rules of the 18 languages, as `ctype-uca.cpp` has them | operators |
| `Collation` | how rules are scanned (`my_coll_rule_parse`), worked into the tables and compared by; `utf8_bin`, `utf8_general_ci` | operators |
| `CacheFile` | `load_cache`, `save_cache`, the chains of names | `disk`, the files with what they were made of |
| `CollateIndex` | loading an index at level 0, 1 or 2, sorting it, lookups in it | `open`, what each index has in memory and which cache it has mapped; files are replaced, rights change and saves are cut short between the steps |
| `SimilarWords` | the case forms and English stems that are tried | operators |
| `ResultLookup` | a word typed, a word picked: `SimpleLookup`, similar words, `BuildResultData`, the translation window | `view` is what is on the screen; runs on top of `CollateIndex` |
| `PluginList` | one list of plugins (six classes with one code) | operators over `oPlugins`, `heap`; instantiated six times |
| `PluginManager` | `StarDictPlugins` | `load` (a file at a time), `load_plugin`, `get_plugin_list`, `unload_plugin`, `reorder`, `destroy`; any step of opening a module may fail |
| `StarDictClient` | the StarDict protocol, with its socket threads | `cmdlist`, the state of the parser, the pools of cached answers; `requests`, `wire` and `session` are the server's side.  `parse` takes one piece of an answer |
| `Markup`, `HtmlParse`, `XdxfParse`, `PowerwordParse` | three parse data plugins | the article is a sequence of tokens, the markup one of units; a step is a token |
| `WikiLines`, `WikiTags` | the wiki plugin: lines, lists and tables; HTML tags | a line per step; a character, then a tag, per step |
| `ParseData` | the plugins together | one of them works on the article, by its letter |
| `DictionaryProofs`, `WordListProofs`, `SearchProofs`, `ArticleDataProofs`, `DataFilesProofs`, `PluginsAndSpeechProofs`, `StarDictClientProofs`, `ParseDataProofs` | | the proofs |
| `MC...` | | instances for TLC; where constants are plain values, the `.cfg` file instantiates the module itself |

`IndexLookup` composes with `WordList` through `IndexSpec`: `WordList` takes the place
a lookup gives as any place `SortedWords!Outcomes` allows, which is what `IndexLookup`
is shown to implement.  `ResultLookup` extends `CollateIndex`, which extends `Collation` and
`CacheFile`; `SearchWindow` extends `ArticleSearch` and `RuleSearch`; `PluginManager` has
six instances of `PluginList`, `ParseData` one of each plugin.

### Abstractions

* Words are numbers in order (`WordList`, `IndexLookup`, where the digits are letters and
  `Variants` tells which of them differ in case only) or short tuples of letters
  (`EditDistance`); an article is a sequence of sections with a type and a length,
  laid out in bytes that are types, lengths, characters or terminators.
* A byte of a compressed text is its position; a chunk is its number.
* A dictionary is its `.ifo` file in one of the states absent, unparsable, without
  loadable data, or good.
* Undefined behaviour is a choice: a chunk outside the table gives no data and may
  break the stream (`DictZip!Inflated`).
* A character of the plugins is a token: one for each way the code treats characters.
* A weight table is given for the letters that the languages use; where two letters share
  a default weight, they do so in the instance.
* A search whose objects were deleted, or that writes to a table that was never there or
  was freed, stops (`broken`): what happens next is undefined.
* Left out everywhere: layout, translation of messages, logging.

Some states are excluded from the initial states, since the code gives them no
meaning: index files that are not sorted or are cut off, articles with a block under
sametypesequence, unless it is their last section and less than 256 bytes long (its size
is read in the other byte order than it is written), full text queries that end in
a backslash, files named twice in a list of plugins.  The hazards with a note name them.

## The runs

| Run | Bounds | Properties | What it shows |
|---|---|---|---|
| `dict_manager` | three files, two with one bookname; three addresses; any disk | `HeapOwned`, `SearchAligned`, `LoadedFollowsConf`, `LabelTruthful`, `LoadedPreselected`, `LoadEnds` | ownership of objects; the mask leads to live objects and right names; what is loaded is what is stored, also after a crash; the label; preselection; every load ends |
| `index_lookup` | pages of two, up to five keys of two letters out of three, two of which are one letter in another case, all sorted lists with repetitions | `SuggestionPlausible`, `Implements` | both kinds of lookup implement `IndexSpec`; a suggestion is a word of the list, not behind the place looked for, and shares as many letters as the words beside that place, but for the entry of the wrong page |
| `word_list` | two dictionaries and a synonym file, lists of up to three of three words, pages of two, at most two results | `PointerValid`, `ListExact` | the list is the merged list, every list stands behind it, the pointer stays valid |
| `fuzzy_match` | seven words, three slots, distances below 3, five visits in every order | `SlotFound`, `KeepsNearest`, `CalEditDistanceExact` | nothing is kept twice or lost; the edit distance is exact for all pairs of words of up to five letters out of two and limits up to 3 |
| `article_data` | three articles, a cache of two, one or two sections, lengths 0 and 2 | `CacheCoherent`, `InStep`, `TextsShown` | the cache, the walk of `parse_data` |
| `tts_prefs` | two languages; gconf may refuse any write | `InEffect`, `ButtonsTruthful` | the pairs of buttons, handlers within handlers, what is in effect |
| `dict_zip` | texts of 5, 6 and 7 bytes, chunks of 2, a cache of 2, at most 12 uses of chunks | `TableSuffices`, `BytesExact`, `ChunksKept` | exact reads, least recently used replacement, whole middle chunks; that only the end of the text of 6 leads beyond the table, and what it spoils |
| `stardict_client` | two servers, two users, two masks; three sends of two commands each, at most five commands waiting when others are sent, one switch of server or user; pools of one and two | `InStep`, `AnswersExact`, `CacheFresh`, `ComesToRest` | parser and server agree on every piece; answers go to their command; caches are fresh; connections end |
| `plugin_manager` | two plugins of one type, one of another, one unknown; four orders, two disable lists | `PluginsHeld`, `PluginsRun` | nothing is deleted twice or leaked; a loaded plugin runs once, in its list |
| `parse_data` | all articles of one or two tokens, and of up to four (wiki: five) of those that interact | `LinksInPlace`, `MarkupSound`, `WikiSound` | places of links, nesting of markup, lists, tables and tags |
| `search` | four dictionaries, some texts empty, two searches, one of them may nest in the other, one reload, a callback every two articles, two matches per index | `SearchSafe`, `ListRight`, `EscapedIsLiteral`, `FoundExactly` | the searches under the main loop, and the table of `KMP` they share; the list; the query syntax |
| `results` | two indexes of one base name in three versions, two changes of files, rights or saves, a clock of three times; 18 languages | `CachesSound`, `LookupExact`, `OrdersSound`, `EveryArticle`, `SimilarFound`, `MappedIntact` | cache files, collated lookups, the orders, results, similar words |

The type invariants `TypeOK` of the modules with proofs are proved, not run.

Why the bounds suffice.  Two equal booknames and one other, and as many addresses as
files, give every way two dictionaries can be confused and every reuse of an object.
Three pages with the last full or not give both sides of each page boundary and equal
words across one.  Three lists give a current list, one with the same word and one with
another.  Three slots let the limit fall more than once and leave several slots at the
limit to choose from.  A cache of two with three articles, or with four chunks,
replaces, finds and refills every slot.  Five letters are enough for a common beginning
and end with an exchange and a deletion between them.  Two sends and a switch let a
command overtake, follow or meet QUIT, and an answer arrive for the server before; the
third one is the one that goes over a connection left behind by the first two.  A
pool of one is replaced, one of two is searched.  Two indexes in three places share a
chain, and two changes are a cache that became old and one that was cut short.  Two
searches give one on top of another.  Two plugins of a type can be reordered, one of
them dropped.  Named bounds: `MaxCount`, `MAX_LIST`, `MaxVisits`, `MaxLetters`,
`MaxLimit`, `MaxSections`, `MaxStamp`, `MaxSends`, `MaxQueue`, `MaxSwitches`, `MaxWords`,
`MaxSearches`, `MaxReloads`, `MaxTime`, `MaxChanges`.  `Period` and
`MAX_MATCH_ITEM_PER_LIB` are constants of the code (10000 and 100), as are the sizes of
pages, caches and pools.

Deadlock is checked where the system goes on for ever: in `dict_manager`,
`index_lookup`, `word_list`, `article_data`, `tts_prefs` and `dict_zip`.  The others
stop: a call returns (`fuzzy_match`), an article ends (`parse_data`), the manager is
destroyed (`plugin_manager`), a bound on what users and files do is reached, or
something undefined was done (`search`, `stardict_client`, `results`).

Symmetry.  The two indexes of `results` differ in nothing but their directories, which
are named after them; all its properties are invariants or properties of single steps.

Fairness.  There is one thread, so a loop that was entered goes on: `WF_vars(Run)` in
`DictManager`, `WF_lookupVars(Step)` in `IndexLookup`, `WF_vars(Step)` in `WordList`.  In `StarDictClient`,
`WF_vars(~crossed /\ System)`: threads return, the main loop takes what has arrived, and the
server answers what it is asked; nothing is assumed of the users, and the
connection may fail at any time.  Nothing is assumed of the user, the disk or the end of the
process anywhere.  `LoadEnds`, `ComesToRest` and the liveness part of
`IndexSpec` need it.

Each property has a mutant, an operator with a plausible mistake that stands before the
definition it would replace ("Mutant of ..."): with it, TLC finds the property violated.

## What disagrees with its comments

1. `src/dictmngr.cpp:149` selects rows by bookname, the comment at 140 speaks of the
   loaded dictionaries.  A dictionary that is not loaded is preselected when its name is
   that of one that is; `LoadedPreselected` therefore says that what is loaded is
   selected, and no more.
2. `src/lib/stddict.cpp:833` compares an entry of the page in memory, not of the page of
   `idx_suggest`; `wordlist_index::lookup` does it right.  Since `prefix_match` folds the
   case of all letters and `stardict_strcmp` that of ASCII letters, that entry may share
   more with the word than all the others the loop looks at: with a page from "aÉ" to
   "aÊ" and the next page from "b", a lookup of "aéz" suggests "b", which shares nothing
   with it.  `SuggestionPlausible` says what is promised all the same: as much as the
   word before the place, unless the first word of the page before shares more.
3. `src/lib/kmp.cpp:27` has no fallback, and the table is made of the text, not of the
   word; `data.cpp:218` takes it for a faster `strstr`.  `FoundExactly` has words of up
   to two letters, for which both agree.  For an empty text, `prefix[0]` is written
   without room for it (`kmp.cpp:19`): through NULL, if no text was searched before or if a
   search that ran from the progress callback has ended and its `KMP_end` has freed the
   table (`kmp.cpp:58`).  The run `search` has empty texts and comes to all of this
   (`broken = "prefix"`); `SearchSafe` says that it happens in no other way, and
   `FoundExactly` speaks of the searches that come to their end.
4. `src/libwrapper.cpp:55` counts from the size field, `data.cpp:64` no longer counts
   it: a last section of less than four bytes is not shown.  `TextsShown` excepts it.
5. `src/lib/dictziplib.cpp:409` uses a chunk that does not exist at the end of a text
   whose length is a multiple of the chunk length, after which the assertion at 489 may
   fail.  `dict_zip` has such a text.  `TableSuffices` says that nothing else leads beyond
   the table or spoils the stream, `BytesExact` and `ChunksKept` what is left of their
   promises once it is spoiled.

## What the models show besides

Behaviour that no comment promises otherwise; the properties name it as an exception, or
the initial states leave it out.

* Search.  Closing the progress dialog destroys it, and `LookupData` destroys it again
  (`mstardict.cpp:339`).  Choosing other dictionaries during a search leads its loop to
  articles and lists that are not there (`libwrapper.cpp:442`).  The list of matches is
  too short for dictionaries with synonyms (`libwrapper.cpp:372`).  A search on top of
  another adds to one list of results. `SearchData` reads the sizes of blocks without
  `g_ntohl` (`data.cpp:238`) and counts the type letter in (`data.cpp:287`).
* Plugins.  A file that failed to load stays listed as loaded (`pluginmanager.cpp:229`),
  as does one that a reorder dropped (`:938`), and cannot be loaded again.  Listing the
  plugins runs the init of a live module a second time and never its exit (`:179`).
* Network client.  A server or user named while commands wait or are under way leaves
  answers of the old one in the caches (`stardict_client.cpp:450`), as does a connection
  lost before a mask is confirmed.  Commands added after QUIT was sent are dropped at
  its answer; those of a connection that failed stay in the queue.  Two connections made
  at once may both succeed.  If the first is cut off, with all that was waiting, before
  the second is up, the second has no command to send; it stays, and commands sent later
  go over it without the login that is only put in front of them when there is no
  connection (`stardict_client.cpp:556`), so that what the server answers an anonymous
  user is kept in the caches for the user that was named.  The proof of `CacheFresh`
  failed at this place, where two sends had not been enough for TLC to get to; the
  history variable `orphaned` tells of it.
* Parse data.  Hexadecimal references are read as 0 and dropped but counted (HTML);
  numeric references are counted by their characters (XDXF), an apostrophe as five
  (PowerWord).  A table behind a list prefix breaks the nesting (`WIKI2XML.cpp:212`),
  `|}` without a table uses the top of an empty stack (`:515`), and `remove_evil_html`
  leaves "<" in what it replaces (`:493`).
* Results.  What a failed lookup of a stem leaves in `idx_suggest` replaces the
  suggestion of the word. `GetOrigWordCount` compares uncollated keys, and
  `FreeResultData` frees nothing.
* Collation.  The Persian rules give U+0622 and U+0625 the weights of letters of other
  scripts (`ctype-uca.cpp:6682`); `utf8_general_ci` is not transitive for words that are
  not UTF-8.  All other tailorings order their alphabet as its speakers do.
* Cache files.  A cache is taken for one of the present index if its size and url fit
  and it is not older, so an index replaced by one of the same size with an older date
  keeps the old cache; a damaged file in front of a chain hides all that follow.

## What is proved

All theorems hold for every value of the constants under the named assumptions of the
modules, given below.  A property that a run checks and its theorem proves has the same
definition in both.

| Module | Theorems | Property of a run |
|---|---|---|
| `DictionaryProofs` | `TypeCorrect`, `Alignment`, `NamesCorrect`, `SearchesSafe`; `Ownership`, `SearchesAligned`, `LoadedCorrect`, `LabelCorrect`, `PreselectionCorrect`; and of lookups `SearchesCorrect`, `RefinesSafely`; `SuggestionsCorrect` | `HeapOwned`, `SearchAligned`, `LoadedFollowsConf`, `LabelTruthful`, `LoadedPreselected`; `SuggestionPlausible` |
| `WordListProofs` | `MergeCorrect`; `PointerCorrect`, `ListCorrect` | `PointerValid`, `ListExact` |
| `SearchProofs` | `SearchInvariant`, `SearchHears`; `SearchUsesWhatIsThere`, `ListIsRight`, `EscapedIsLookedUp`, `SearchFindsExactly`; and of the fuzzy search `TypeCorrect`, `KeptInvariant`, `NoDuplicates`, `NearestKept`; `SlotAlwaysFound`, `KeptAreNearest` | `SearchSafe`, `ListRight`, `EscapedIsLiteral`, `FoundExactly`; `SlotFound`, `KeepsNearest` |
| `ArticleDataProofs` | `CacheIsCoherent`, `WalkInStep`, `TextsAreShown` | `CacheCoherent`, `InStep`, `TextsShown` |
| `DataFilesProofs` | of compressed files `CacheIsCoherent`, `LeastRecentlyUsed`; `TableIsEnough`, `ReadsExactly`, `ChunksAreKept`; and of cache files `CachesInvariant`, `LookupsKeepCaches`; `CachesAreSound`, `MappedStaysIntact`, `LookupsStayExact`; and of the orders `WeightsOrder` | `TableSuffices`, `BytesExact`, `ChunksKept`; `CachesSound`, `MappedIntact`, `LookupExact` |
| `PluginsAndSpeechProofs` | `PluginsInvariant`; `PluginsAreHeld`, `PluginsRunOnce`; and of the speech settings `ControlCorrect`; `EffectCorrect`, `ButtonsCorrect` | `PluginsHeld`, `PluginsRun`; `InEffect`, `ButtonsTruthful` |
| `StarDictClientProofs` | `ClientCorrect`; `StepsAgree`, `AnswersCorrect`, `CachesCorrect` | `InStep`, `AnswersExact`, `CacheFresh` |
| `ParseDataProofs` | `LinksStayInPlace` | `LinksInPlace` |

### The arguments

* `DictionaryProofs`.  Type correctness; then ownership (`HeapOwned`).  `HeapOwned`
  alone is inductive only with the fact that `prev` is empty outside a reload; with it
  (`OwnedInv`), each of `LoadDict`, `Reuse` and `ReloadDone` moves an object between the
  three sets. `SearchAligned`, the conjunction of `SearchSafe` and `NamesMatch`, speaks
  of states where all loops are done, so it needs to know what the loops have done so
  far: `AlignInv` says that `oLib` follows `list` up to `i`, in order and without
  repetition (`InListOrder`), and that the mask built so far is the identity on the part
  of `oLib` that the list has reached; it needs that no list has a file twice, which
  holds since lists come from directories and rows. `Alignment` proves it, and
  `SearchesAligned` follows.  `LoadedFollowsConf` needs the other direction too: every
  element of the list that the loops have passed and that could be loaded is in `oLib`
  (`LoadedUpTo`), and the list being loaded is the one in gconf.  The label is right
  because it is rebuilt by the search that ends every reload; what is selected in the
  dialog is a function of the mask when the dialog opened, and nothing changes the mask
  while it is open.
* `DictionaryProofs`, lookups.  What each of the nested searches has excluded at each of its
  steps (`BisectInv`): all entries before `iFrom` are below the word, all behind `iTo`
  above it.  On a page (`PageInv`), the page in memory is the one searched and the word is
  not beyond it.  While a suggestion is sought (`SuggestInv`), `best` is what
  `idx_suggest` shares with the word or, before the first step back, what the entry in
  memory shares, which is of the page before if the place looked for begins a page
  (`StaleBest`): this is where the entry of the wrong page comes in, and why the property
  is as it is.  Nothing is assumed of how the order and the letters shared hang together,
  as they do not where case is folded.  At the end, the answer is one of `SortedWords!Outcomes`, from which each step is
  shown to be a step of `IndexSpec` or to leave its variables alone.
* `WordListProofs`.  `PlacesInv`: the entries the places of all lists still have to give
  (`Remaining`) are the words not shown, and the word shown last until all lists have
  been advanced past it.  `ScanInv` makes the word pointed to the least one, `OthersInv`
  keeps the list pointed into for the last, which is why the pointer stays valid.  That
  there is a least word to show, and a next place with another word, is the least number
  principle, taken from the library's theorem on well founded relations.
* `SearchProofs`.  The loops of this code are recursive functions on the number of
  iterations.  `LoopExists` is an induction on numbers (the least number principle) that
  gives the values of any such loop; an instance for each of them (`HitSteps`,
  `AddSteps`, `MatchSteps`, `AnalyseSteps`, `EscapeSteps`, `ExpectedSteps`) lets the rest
  be proved of one iteration at a time: `MatchesFacts`, that the matches of all
  dictionaries are collected once each, all if no index has too many, and have room if
  there are no synonyms; `SortedFacts`, that sorting keeps the words and makes the list
  rise if no word is there twice; `EscapedIsRead`, that analyse_query has, after the
  bytes that stardict_input_escape wrote for a part of the text, that part, no wildcard
  and no backslash open.  `SearchInv` is the invariant of the window.  `SearchSafe` is
  not inductive: a search reads with the counters it was left with by its last callback,
  so the invariant says of each search on the stack that, until its dictionaries are
  changed, its counters are within them, it has a list for each, and what it has found
  in one are words of that one (`FitsIn`, `Within`).  The last is what `ListRight` needs
  when a search that ends adds to the list of another; that the list is empty or stale
  while a search runs is why it speaks of the time when none does.  `HeardSoFar` says
  what a search has listed: all that is expected of the dictionaries before its own, of
  its own what is expected of the articles before `j`, nothing of those behind.  It
  is inductive with `SearchInv`, under the hypothesis `SearchesAreTrue`, that `SearchData`
  says of each article of a searched dictionary whether it has all the words of the
  query.  The hypothesis is about one call on one article, and is false where blocks lie
  between texts and for some words of more than two letters, as said above; it holds for
  the dictionaries and queries of the run `search`.  What the theorem adds is that
  typing, answers to dialogs, other searches and reloads between the articles make no
  difference to a search that ends.  Whether it ends is another matter: `TableInv` says
  that a search under way which has looked in a text has a table for `KMP`, as long as no
  search that interrupted it has ended (`freed`) and no reload has come; this is the part
  of `SearchSafe` that keeps an empty text harmless, and why it goes no further.
  Of the fuzzy search, `SlotFound` and `KeepsNearest` (the conjunction of `KeptOnce` and
  `NothingBetterLost`) follow from one invariant of the slots (`KeptInvariant`): the limit
  is the greatest distance in the slots, free slots have the first limit, and whatever
  was passed over is no nearer than the limit.  The words, their distances and the number
  of slots are arbitrary.
* `ArticleDataProofs`.  `CacheCoherent` for any number of slots and articles.  It is proved
  with the contents of the cache as an opaque function of the offset, so that it does not
  depend on how an article is laid out.  For the other two theorems the layout is proved
  (`DataLayout`): with and without `sametypesequence`, `GetWordData` makes of what is in
  the file the parts of the article, one behind the other.  `WalkInv` says that some
  number of sections lies behind `parse_data`, that it stands at the end of the last of
  them, or beyond the data if that was a block read in the wrong order, and that it has
  marked the texts among them.  `Joined`, `PutHeads` and `Ends` are recursive functions on
  numbers.  What they compute is proved by counting up (`CountUp`): the induction of the
  library takes an operator, but its principle of the least element takes a set, and what
  holds after each step can be said by a set of numbers.
* `DataFilesProofs`, compressed files.  `CacheCoherent` for any text, chunk length and number of slots.
  `TableSuffices`: the last chunk is in the table, or is the one behind it, for an
  article that ends where the text and a chunk do, and then has no byte to copy
  (`LastInTable`); as nothing else spoils the stream, it is good for all other texts
  (`StreamInv`).  `BytesExact`: before each chunk, the buffer holds exactly the bytes of the
  article before that chunk, or junk where the stream was bad (`BytesInv`).
  `LeastRecentlyUsed`: `used` lists the chunks by their last use (`Foremost` moves one to
  the front), and `RecentInv` says that the first slots hold the first of them, the stamps falling
  along the list, so that the slot with the least stamp holds the last of those kept.
* `DataFilesProofs`, cache files.  The chains of names have no bound here: `Stop` looks
  through one slot more than there are files, and `StopFacts` proves, by injecting the
  slots into the files, that a chain always ends there and what is before its end.
  `FreshInv` is why times and sizes suffice for an index that is not in `doubt`: not only
  what is in memory, but every file of the index that is not older than it, is of its
  present version, and no index is newer than the clock.  `KeptInv` says of each cache that was saved where
  its file is, and that every file before it in its chain belongs to others: unlike
  `SavedIsFound`, which excuses itself while any file is broken, it still holds when the broken
  file has been written over.  It is kept since a save goes to the first end of the chain
  of its own index, which is never a whole file of another.  For the same reason a mapped
  file (`MappedInv`: it is whole, and of the index that maps it) is not written to by
  another index, and an index that has mapped a file of a name saves none of
  that name while it is open.
* `DataFilesProofs`, collated lookups.  `LookupsStayExact` has one hypothesis, that
  `stardict_collate` is a total order of the words by every function (`CollationsTotal`).
  The rest is proved: `Ranks` that every position has a rank of its own, so that what
  `collate_sort` makes is an array of all positions in order (`OffsetsSorted`);
  `HalveStep` and `SearchSteps` that after n iterations the binary search has excluded all
  words before `iFrom` and behind `iTo`, and is done or has lost n of the positions, so that
  it ends (`BisectedRight`); and that `CltIndexToOrig` gives the position in the index
  even of words that are there more than once (`LookupFinds`).  Together with `FreshInv`,
  no cache file, whoever wrote it and however it ended, leads to a wrong lookup.
  `WeightsOrder` gives the hypothesis: words compared by bytes, or by weights that are
  numbers, with `strcmp` for those that weigh the same, are in a total order, for any
  words and any tables (`LexCmpFacts`, from what the first place where two sequences differ
  is).  That leaves `utf8_general_ci`, whose comparison is
  not by weights alone; see below.
  `LookupsKeepCaches` shows that `ResultLookup` implements `CollateIndex`, so that all
  of this, and what is said of the cache files, holds of `ResultSpec`, which the run checks.
* `PluginsAndSpeechProofs`, plugins.  `PluginInv` says of the six lists together that each
  object stands in one place of one of them, that of its type, and that no two objects
  are of one file (`Placed`); and that the name of every object is on
  `loaded_plugin_list`, a module being open once for each of its objects (`Named`).  Each
  part needs the others.  `unload_plugin` looks only through the list of the type it is
  given, and only for the first plugin of a name: that it deletes every object of the
  module follows from both.  `load_plugin` puts the object into one list
  and cannot make a second one of a file, as the name of the first would be on
  `loaded_plugin_list`.  What `plugins_reorder` builds by two nested loops is a
  concatenation of sequences, whose length the library defines by recursion: `FlattenFacts`
  proves by counting up which elements it has and that it has none twice if no order
  names a file twice.  That the plugins deleted by it keep their names on
  `loaded_plugin_list` is why `Named` is an inclusion only.
* `PluginsAndSpeechProofs`, speech.  `ControlInv` says, for each point of the dialog, which handlers are
  on the stack: one alone, or on top of it the one of the other button of its pair; and
  that a pair is off balance only between a click and the first line of its handler.
  `EffectInv` follows what each of the four writes of a save has done, and which were
  refused.
* `StarDictClientProofs`.  The invariant has a part for each of the things that can go
  out of step.  `LockInv`: a connection is waiting for the banner; or its first command
  is with the server, untouched; or the wire has the rest of the answer, from the place
  the parser is at to its end, and the parser will read it (`Whole`, `Part`); all other
  commands are untouched.  `AddressInv` and `LoginInv`: connections are to the server
  named, and every command is behind a login, or sent by the user named.  `FreshInv`: what
  is in the pools, and what is on the wire to go into them, is what the server has in
  force.  `PoolInv` and `SaidInv`: each answer is the answer to its key.  Nothing is
  assumed of when threads, users and the server act, or of how many connections are
  being made; but the model, and with it the theorems, end where two of them succeed.
* `ParseDataProofs`.  A place is counted by adding the widths of units, and what a plugin
  writes is put together by `FlattenSeq` from pieces: `PlacesConcat` and `PlacesOfFlat`,
  by counting up, say that places add up, and that a span around a text adds none, so that no plugin
  has to be followed further than to the number it adds to `cur_pos`.  `Fits` says of a
  text and its links that each link is where its text is and all lie in order.  It is
  kept by anything written for no link (`WriteFits`) and by a link put behind the others
  (`LinkFits`).  `ParseInv` is the invariant: the items made so far and the one being
  written fit, and `cur_pos` is the width of what is written, `res`.  For HTML this is
  not quite so, as the text behind an opening `<ref>` that is never closed is written
  and not counted; that can only be the last thing written, and no link comes behind it,
  which is what the invariant says instead.  What is left is a lemma for each plugin, that the
  number it adds for a token is the width of what it writes (`HtmlToken`, `XdxfToken`,
  `PowerwordEscaped`).  As with the run, nothing is said of texts that are not
  `Countable`.

### What the proofs assume

Sizes and bounds are numbers, those of caches, pages and pools at least 1; any sets may be
infinite that need not be enumerated.  Besides:

* `DictManager`: files are finitely many; no book is named as a missing name is.
* `IndexLookup`: the sets of letters that are variants of one another are disjoint
  (`VariantsAssumption`).
* `ArticleData`: the sections may have any lengths, and an article any number of them up
  to `MaxSections`, which is arbitrary.  Offsets are numbers (`OffsetsAssumption`), so
  that none is -1.
* `SearchWindow`: the dictionaries that may be loaded are there, words are numbers in
  their order, and none is without words (`DictionaryAssumption`; `load_ifofile` refuses
  one); what can be typed are strings of bytes, the empty one among them
  (`TextsAssumption`).  What matches a pattern, and what the articles hold, is arbitrary.
* `CacheFile`, `CollateIndex`: the url in a foreign file is that of no index
  (`UrlAssumption`); the collation functions are finitely many, and none is called as a type of cache is
  (`FuncAssumption`: their names are numbers); 1 is a version and the value that stands
  for none is not (`VersionAssumption`).  Indexes, versions, words, directories and
  which of these are one and the same are arbitrary.
* `WordList`: words are numbers (`WordsAssumption`), no list is named twice
  (`SourcesAssumption`), the synonyms are among the lists.
* `PluginManager`: an order names no file twice (`OrdersAssumption`; the code would give
  the pointer two places, and delete it twice); a module names a type the manager knows,
  or none (`FilesAssumption`).
* `ParseData`: articles are sequences of tokens, wiki articles of lines; a tag has at least
  its two brackets, and a PowerWord section has an end (`SourcesAssumption`).  The articles
  may be of any length and infinitely many.
* `TtsPrefs`: `LanguagesAssumption`, "english" is a language, as the code takes it for
  one; no setting has the value that stands for a missing one.
* `StarDictClient`: there is a server, and users have names (`ServerAssumption`); masks
  that are set are among those of the server, and only "getdictmask" without an
  argument is sent (`SendsAssumption`); and each of the answers
  to lookups that are considered, read by itself from its beginning, is read to its
  end (`ShapesAssumption`).  The last stands for an induction over the answer, which is
  data.  TLC evaluates it for the answers of the instance, and for some 50 more in
  `MoreAssumption`; what the theorem adds is that no interleaving of anything else
  disturbs such a reading.

TLC evaluates all of them for the instances it checks.

### What is only model-checked

* Liveness: `LoadEnds`, `ComesToRest`, the fairness of `IndexSpec` in `Implements`.
  TLAPS proves nothing under fairness.
* What the edit distance computes (`CalEditDistanceExact`), and that `SearchData` finds the
  words of a query in an article (the hypothesis of `SearchFindsExactly`).  An induction
  on numbers can be given to the provers (see `SearchProofs`), one over the tables of the
  edit distance or over the failure table of `KMP` was not found.
* `OrdersSound`, `EveryArticle`, `SimilarFound`: what the tables, the comparisons and the
  lookups compute, over words and rules that are data.  Part of `OrdersSound` is
  `CollationsTotal`, the hypothesis of `LookupsStayExact`, which is proved for the byte
  order and the languages and only checked for `utf8_general_ci`; another part, that
  the scanner gives weights that are numbers, is a recursion over the bytes of a word.
* `MarkupSound` and `WikiSound` of the plugins, which are not proved yet.

## Plan

Done: first what a search dereferences (`DictManager`), then what it finds
(`IndexLookup`, `WordList`, `FuzzyMatch`, `EditDistance`), then what it shows
(`ArticleData`, `DictZip`), the preferences (`TtsPrefs`), the searches under the main
loop (`SearchWindow` with `ArticleSearch` and `RuleSearch`), collation and results
(`Languages`, `Collation`, `CacheFile`, `CollateIndex`, `SimilarWords`, `ResultLookup`),
plugins (`PluginManager`, `ParseData` and the parsers) and the network client
(`StarDictClient`).

Next, in this order:

1. `MarkupSound` of the plugins whose steps push and pop one style.
2. That `utf8_general_ci` is a total order of words in UTF-8.
3. The inline markup of the wiki plugin, and `wikixml2pango`.

## Not modelled

The DICT client is not built: its callback has not the type that `Socket::resolve`
takes.  The HTTP client serves network dictionary plugins, of which there are none; the
tree dictionaries are not used, and the resource storage looks up files by name.  Of the
wiki plugin the inline markup of a line and the translation of its XML into Pango markup
are left out, of the network client what follows when two connections succeed at once,
of `common.cpp` the keys of an `.ifo` file, of the default weights of `ctype-uca.cpp`
and the case tables of `ctype-utf8.cpp` all but the letters the languages use: those are
tables, not code.  Other encodings in `ctype-mb.cpp` are not reached.  `PROJECT.json`
gives the reason for each component.

## Running

    tlc -workers 2 -config MCDictManager.cfg MCDictManager
    tlapm DictionaryProofs.tla
