---------------------------- MODULE CollateIndex ----------------------------
(***************************************************************************)
(* An index that is kept in a collated order (idxsyn_file, collation_file  *)
(* and offset_index::load in lib/stddict.cpp): at collation level 1 it is  *)
(* sorted by one function as it is loaded, at level 2 by any function when *)
(* that is first asked for, and at level 0 only the offsets of its pages   *)
(* are cached.  What is sorted is an array of positions in the index,      *)
(* which is read from a cache file if there is one that fits and made and  *)
(* saved otherwise.                                                        *)
(***************************************************************************)
EXTENDS Collation, CacheFile

CONSTANTS
    Words,      \* the headwords of a version, in the order of the file
    Queries,    \* what is looked up
    MaxChanges, \* bound on indexes replaced, rights changed, saves cut short
    ToLower     \* g_unichar_tolower

ASSUME CountAssumption ==
    \* Dict::load_ifofile refuses a dictionary without words
    \A v \in Versions :
        Words[v] \in Seq(ToSet(Words[v])) /\ Count[v] = Len(Words[v]) /\ Count[v] > 0

INVALID_INDEX == -100
NoVersion == 0
ASSUME VersionAssumption == 1 \in Versions /\ NoVersion \notin Versions
ForeignFile == [state |-> "whole", url |-> NoUrl, func |-> NoFunc, made |-> 1, mtime |-> 0]
NoPlace == <<CacheDir, "oft", 0>>
NotLoaded == [made |-> NoVersion, from |-> NoPlace]
Closed == [version |-> NoVersion, cache |-> [n \in Names |-> NotLoaded]]

\* What a run of the program is started with.
Sessions == [level : {0}, func : {NoFunc}, CreateCacheFile : BOOLEAN]
            \cup [level : {1}, func : Funcs, CreateCacheFile : {FALSE}]
            \cup [level : {2}, func : {NoFunc}, CreateCacheFile : {FALSE}]

VARIABLES
    session,
    open,       \* the indexes in memory: the version read, the caches in use
    kept,       \* the caches whose last save went well, of an index as it is now
    doubt,      \* the indexes that were replaced in a way the times do not show
    changes

vars == <<cacheVars, session, open, kept, doubt, changes>>

-----------------------------------------------------------------------------
(* The sorted order and looking up in it.                                  *)

\* The characters of a word, given what is read at each of its bytes.
CharsFrom(read) ==
    LET next[i \in 1..Len(read) + 1] ==
            IF i > Len(read) THEN <<>>
            ELSE <<ToLower[read[i].wc]>> \o next[i + read[i].len]
    IN  next[1]
CharsOf(s) == CharsFrom([i \in DOMAIN s |-> my_utf8_uni(s, i)])

\* How many characters two words share at their beginnings, whatever the case.
SharedPrefix(a, b) ==
    Max({n \in 0..Min({Len(a), Len(b)}) : SubSeq(a, 1, n) = SubSeq(b, 1, n)})
prefix_match(s, t) == SharedPrefix(CharsOf(s), CharsOf(t))

AllWords == Queries \cup UNION {ToSet(Words[v]) : v \in Versions}

\* stardict_collate of every two words.
Collate ==
    [f \in Funcs |->
        LET cs == get_cs(f)
        IN  [s \in AllWords |-> [t \in AllWords |-> stardict_collate(cs, s, t)]]]

\* Mutant of sort_collation_index: the ties of utf8_collate are left to the
\* positions.
sort_collation_index_ties(f, ws, a, b) ==
    LET x == utf8_collate(get_cs(f), ws[a + 1], ws[b + 1])
    IN  x < 0 \/ (x = 0 /\ a < b)

\* The order of two positions.
sort_collation_index(f, ws, a, b) ==
    LET x == Collate[f][ws[a + 1]][ws[b + 1]]
    IN  x < 0 \/ (x = 0 /\ a < b)

\* The positions that come before one, and the array of positions that collate_sort
\* and collate_load make.
Preceding(f, v, a) == {b \in 0..Count[v] - 1 : sort_collation_index(f, Words[v], b, a)}
Offsets ==
    [f \in Funcs |-> [v \in Versions |->
        [k \in 1..Count[v] |->
            CHOOSE a \in 0..Count[v] - 1 : Cardinality(Preceding(f, v, a)) = k - 1]]]

\* One iteration of the binary search, if there is another one: cmp is how the word
\* compares with the one at every position.
Halve(cmp, at) ==
    LET mid == (at.iFrom + at.iTo) \div 2
    IN  IF at.bFound \/ at.iFrom > at.iTo THEN at
        ELSE IF cmp[mid] > 0 THEN [at EXCEPT !.iThisIndex = mid, !.iFrom = mid + 1]
        ELSE IF cmp[mid] < 0 THEN [at EXCEPT !.iThisIndex = mid, !.iTo = mid - 1]
        ELSE [at EXCEPT !.iThisIndex = mid, !.bFound = TRUE]

\* The search over the positions up to last, which halves them until it has found
\* the word or none is left: never more often than there are positions.
Bisected(cmp, last) ==
    LET Search[n \in 0..last + 1] ==
            IF n = 0
            THEN [bFound |-> FALSE, iFrom |-> 0, iTo |-> last, iThisIndex |-> 0]
            ELSE Halve(cmp, Search[n - 1])
    IN  Search[last + 1]

\* lookup, the same text in every class, of a word in a list that is sorted: match
\* is how many characters it shares with the word at every position.
lookup(cmp, match) ==
    LET last == Max(DOMAIN cmp)
        end == Bisected(cmp, last)
        \* over the words before that share at least as much, one after the other
        Back[k \in 0..last] ==
            IF k > 0 /\ match[k - 1] > 0 /\ match[k - 1] >= match[k] THEN Back[k - 1] ELSE k
    IN  IF cmp[0] < 0 THEN [bFound |-> FALSE, idx |-> 0, idx_suggest |-> 0]
        ELSE IF cmp[last] > 0
             THEN [bFound |-> FALSE, idx |-> INVALID_INDEX, idx_suggest |-> last]
        ELSE IF end.bFound
             THEN [bFound |-> TRUE, idx |-> end.iThisIndex, idx_suggest |-> end.iThisIndex]
        ELSE [bFound |-> FALSE, idx |-> end.iFrom, idx_suggest |-> Back[end.iFrom]]

\* How many characters a word shares with the word at every position.
Matches(ws, s) == [k \in 0..Len(ws) - 1 |-> prefix_match(s, ws[k + 1])]

\* collation_file::GetWord, over what the array says of the words in memory.
GetWords(offsets, ws) == [k \in DOMAIN offsets |-> ws[offsets[k] + 1]]

\* Libs::CltIndexToOrig of an answer.
CltIndexToOrig(offsets, answer) ==
    [bFound |-> answer.bFound,
     orig |-> IF answer.idx = INVALID_INDEX THEN INVALID_INDEX
              ELSE offsets[answer.idx + 1]]

\* idxsyn_file::Lookup in a collated order and the position of what it finds,
\* where the array was made of version m and version v is in memory.
Lookup(f, m, v, s) ==
    LET sorted == GetWords(Offsets[f][m], Words[v])
    IN  CltIndexToOrig(Offsets[f][m],
            lookup([k \in 0..Len(sorted) - 1 |-> Collate[f][s][sorted[k + 1]]],
                   Matches(sorted, s)))

\* Whether a lookup is right: it finds a word if the version has it, and
\* CltIndexToOrig makes the word's position of it.
Right(v, s, answer) == /\ answer.bFound <=> s \in ToSet(Words[v])
                       /\ answer.bFound => Words[v][answer.orig + 1] = s

\* Whether every lookup is.
Exact ==
    [f \in Funcs |-> [m \in Versions |-> [v \in Versions |->
        Count[m] = Count[v] /\ \A s \in Queries : Right(v, s, Lookup(f, m, v, s))]]]

-----------------------------------------------------------------------------
(* Loading.                                                                *)

\* The names of the cache files at a level.
NamesAt(level) == CASE level = 0 -> {"oft"} [] level = 1 -> {"clt"} [] level = 2 -> ServerFuncs

\* Libs takes the level and the function when it is made; every run of the
\* program begins and may end at any moment.
Init ==
    /\ session \in Sessions
    /\ \E dir \in {DirOf[u] : u \in Urls} :
           disk \in {<<>>, [p \in {<<dir, n, 1>> : n \in NamesAt(session.level)} |->
                             ForeignFile]}
    /\ index = [u \in Urls |-> [version |-> CHOOSE v \in Versions : TRUE, mtime |-> 0]]
    /\ writable = Dirs
    /\ now = 1
    /\ open = [u \in Urls |-> Closed]
    /\ kept = {}
    /\ doubt = {}
    /\ changes = 0

\* A cache of the type and function is found, or made and saved.
Fetch(u, type, func, version) ==
    LET name == Name(type, func)
        Cache == IF open[u].version = NoVersion THEN Closed.cache ELSE open[u].cache
        Use(made, from) ==
            open' = [open EXCEPT ![u] = [version |-> version,
                         cache |-> [Cache EXCEPT ![name] = [made |-> made, from |-> from]]]]
    IN  \/ \E p \in load_cache(u, type, func) :
               /\ Use(disk[p].made, p)
               /\ UNCHANGED <<disk, kept, changes>>
        \/ /\ load_cache(u, type, func) = {}
           /\ Use(version, NoPlace)
           /\ IF type = "oft" /\ ~session.CreateCacheFile
              THEN UNCHANGED <<disk, kept, changes>>
              ELSE \E state \in {"whole", "short", "garbage"} :
                       /\ changes' = changes + (IF state = "whole" THEN 0 ELSE 1)
                       /\ changes' <= MaxChanges
                       /\ save_cache(u, type, func, version, state)
                       /\ kept' = {k \in kept : <<k[1], k[2]>> # <<u, name>>} \cup
                                  IF /\ state = "whole" /\ SavePlaces(u, type, func) # {}
                                     /\ version = index[u].version
                                  THEN {<<u, name, func>>} ELSE {}

\* Dict::load, of the index as it is now.
Load(u) ==
    /\ open[u].version = NoVersion
    /\ CASE session.level = 0 -> Fetch(u, "oft", NoFunc, index[u].version)
         [] session.level = 1 -> Fetch(u, "clt", session.func, index[u].version)
         [] session.level = 2 ->  \* collate_save_info
                /\ open' = [open EXCEPT ![u] = [Closed EXCEPT !.version = index[u].version]]
                /\ UNCHANGED <<disk, kept, changes>>
    /\ UNCHANGED <<index, writable, now, session, doubt>>

\* idxsyn_file::collate_load, for the words that are in memory.
collate_load(u, f) ==
    /\ session.level = 2
    /\ open[u].version # NoVersion
    /\ open[u].cache[f] = NotLoaded
    /\ Fetch(u, "server_clt", f, open[u].version)
    /\ UNCHANGED <<index, writable, now, session, doubt>>

\* The program ends, in whatever way, and is started again.  The levels have
\* files of their own.
Restart(s) ==
    /\ \E u \in Urls : open[u] # Closed
    /\ s.level = session.level
    /\ session' = s
    /\ open' = [u \in Urls |-> Closed]
    /\ UNCHANGED <<cacheVars, kept, doubt, changes>>

\* The times do not show that an index was replaced if a cache file is not
\* older, or if the program has the old one in memory and may yet save it.
Replace(u, v, t) ==
    /\ changes < MaxChanges /\ changes' = changes + 1
    /\ ReplaceIndex(u, v, t)
    /\ doubt' = doubt \cup IF open[u] # Closed \/ \E p \in FilesOf(u) : disk[p].mtime >= t
                           THEN {u} ELSE {}
    /\ kept' = {k \in kept : k[1] # u}
    /\ UNCHANGED <<session, open>>

Around ==
    /\ \/ Tick /\ UNCHANGED changes
       \/ /\ changes < MaxChanges /\ changes' = changes + 1
          /\ \E dir \in Dirs : Permit(dir)
    /\ UNCHANGED <<session, open, kept, doubt>>

Next ==
    \/ \E u \in Urls : Load(u)
    \/ \E u \in Urls, f \in ServerFuncs : collate_load(u, f)
    \/ \E s \in Sessions : Restart(s)
    \/ \E u \in Urls, v \in Versions, t \in {0, now} : Replace(u, v, t)
    \/ Around

Spec == Init /\ [][Next]_vars

-----------------------------------------------------------------------------
\* The functions a session may sort by.
Collates(f) == session.level = 2 \/ session.func = f

\* The tailorings put the letters in the order of the alphabet, and the forms of
\* one letter in one place: pairs and letters of other pages of the table come
\* where the rules put them, and nothing else is moved (create_tailoring).
AlphabetOrder == \A f \in DOMAIN Alphabetic : Collates(f) => Alphabetic[f]

\* stardict_collate is a total order, as sorting an index and the binary search
\* in it need, and calls two words equal only if they are the same: among the
\* words of the sample, and among those of the indexes and those looked up.
CollationsTotal == \A f \in Funcs : TotalOn(AllWords, Collate[f])
TotalOrder == CollationsTotal /\ \A f \in DOMAIN Total : Collates(f) => Total[f]

\* Both, of every order an index may be sorted in.
OrdersSound == AlphabetOrder /\ TotalOrder

\* The caches an index uses were made of the words it has in memory, wherever
\* the files come from and whenever the program was ended while it wrote one -
\* unless the index was replaced behind the times (get_cache_loadfile compares
\* the sizes and the times, no more).
LoadedMatches ==
    \A u \in Urls \ doubt : \A n \in Names :
        open[u].cache[n] # NotLoaded => open[u].cache[n].made = open[u].version

\* A cache that was saved is found the next time, even if others of the same
\* name come and go and directories can no longer be written to; only a broken
\* file in front of it hides it (get_cache_savefile).
SavedIsFound ==
    \A k \in kept :
        \/ load_cache(k[1], IF k[2] \in Funcs THEN "server_clt" ELSE k[2], k[3]) # {}
        \/ \E p \in DOMAIN disk : disk[p].state = "garbage"

\* Both: a cache is neither used for another index nor made in vain.
CachesSound == LoadedMatches /\ SavedIsFound

\* A file that is mapped is not written to, by this index or by another one of
\* the same name (save_cache opens it with "wb").
MappedIntact ==
    [][\A u \in Urls, n \in Names :
        LET p == open[u].cache[n].from
        IN  p # NoPlace /\ open'[u] # Closed => disk'[p] = disk[p]]_vars

\* Whatever caches an index has found or made, a lookup in it finds a word if
\* the index has it and gives its position in the index (Exact).
LookupExact ==
    \A u \in Urls \ doubt, n \in Names \ {"oft"} :
        LET c == open[u].cache[n]
        IN  c # NotLoaded =>
            Exact[IF n = "clt" THEN session.func ELSE n][c.made][open[u].version]
=============================================================================
