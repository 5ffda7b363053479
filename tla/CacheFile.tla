----------------------------- MODULE CacheFile -----------------------------
(***************************************************************************)
(* The cache files of the indexes (cache_file in lib/stddict.cpp): the     *)
(* offsets of the pages of an index (.oft) and its sorted order (.clt).    *)
(*                                                                         *)
(* A cache is looked for beside the index and then in the user's cache     *)
(* directory, where indexes of the same base name meet.  A file that says  *)
(* it belongs to another index is passed over for the next of the chain    *)
(* name(2), name(3), ...  Nothing locks the files, and the program may end *)
(* while it writes one.                                                    *)
(*                                                                         *)
(* All indexes here have the same base name, and an index is its url.  The *)
(* contents of an index are a version of it; a cache file remembers of     *)
(* which version it was made, which nothing in the file tells.             *)
(***************************************************************************)
EXTENDS Integers, Sequences, SequencesExt, FiniteSetsExt

CONSTANTS
    Urls, NoUrl,
    DirOf,          \* the directory an index is in
    CacheDir,       \* g_get_user_cache_dir()/stardict
    Funcs, NoFunc,  \* the collation functions
    ServerFuncs,    \* those asked for at level 2
    Count,          \* how many entries a version has
    MaxTime         \* bound on the clock

ASSUME UrlAssumption == NoUrl \notin Urls
ASSUME FuncAssumption ==
    \* a function is a number, which no type of cache is
    /\ IsFiniteSet(Funcs) /\ ServerFuncs \subseteq Funcs
    /\ {"oft", "clt", "server_clt"} \cap Funcs = {}
ASSUME TimeAssumption == MaxTime \in Nat \ {0}

Dirs == {DirOf[u] : u \in Urls} \cup {CacheDir}
Versions == DOMAIN Count
Names == {"oft", "clt"} \cup ServerFuncs
Places == Dirs \X Names \X (Nat \ {0})

\* A name carries the function only in a cache of the type server_clt.
Name(type, func) == IF type = "server_clt" THEN func ELSE type

VARIABLES
    disk,       \* the cache files
    index,      \* the index files: their version and time of modification
    writable,   \* the directories that can be written to
    now

cacheVars == <<disk, index, writable, now>>

\* state: "garbage" (no magic or no line with the url), "short" (less than the
\* offsets) or "whole".
File == [state : {"garbage", "short", "whole"}, url : Urls \cup {NoUrl},
         func : Funcs \cup {NoFunc}, made : Versions, mtime : 0..MaxTime]
CacheTypeOK ==
    /\ DOMAIN disk \subseteq Places /\ Range(disk) \subseteq File
    /\ index \in [Urls -> [version : Versions, mtime : 0..MaxTime]]
    /\ writable \subseteq Dirs
    /\ now \in 0..MaxTime

-----------------------------------------------------------------------------
\* Mutant of Stop: the url in a file is not looked at.
StopAtFirst(u, dir, name) == 1

\* Where the chain of get_cache_loadfile and get_cache_savefile ends: at the
\* first file that is missing, cannot be read or belongs to the index.  A chain is
\* not longer than there are files.
Stop(u, dir, name) ==
    Min({s \in 1..Cardinality(DOMAIN disk) + 1 :
            \/ <<dir, name, s>> \notin DOMAIN disk
            \/ disk[<<dir, name, s>>].state = "garbage"
            \/ disk[<<dir, name, s>>].url = u})

\* Mutant of Accepted: the times are not compared.
AcceptedOld(u, type, func, f) ==
    /\ f.state = "whole"
    /\ f.url = u
    /\ type = "clt" => f.func = func
    /\ Count[f.made] = Count[index[u].version]

\* get_cache_loadfile, of the file at the end of the chain.
Accepted(u, type, func, f) ==
    /\ f.state = "whole"
    /\ f.url = u
    /\ type = "clt" => f.func = func
    /\ Count[f.made] = Count[index[u].version]
    /\ f.mtime >= index[u].mtime

PlaceIn(u, dir, type, func) ==
    <<dir, Name(type, func), Stop(u, dir, Name(type, func))>>

\* load_cache: the places it accepts a file at, of which the one beside the
\* index is taken first.
Found(u, type, func) ==
    {p \in {PlaceIn(u, dir, type, func) : dir \in {DirOf[u], CacheDir}} :
        p \in DOMAIN disk /\ Accepted(u, type, func, disk[p])}

load_cache(u, type, func) ==
    IF \E p \in Found(u, type, func) : p[1] = DirOf[u]
    THEN {p \in Found(u, type, func) : p[1] = DirOf[u]}
    ELSE Found(u, type, func)

\* save_cache: where it can open a file for writing, if anywhere.
SavePlaces(u, type, func) ==
    IF DirOf[u] \in writable THEN {PlaceIn(u, DirOf[u], type, func)}
    ELSE IF CacheDir \in writable THEN {PlaceIn(u, CacheDir, type, func)}
    ELSE {}

\* What is left of a cache that is written: nothing looks at what fwrite
\* returns, and the program may be ended before fclose.
Written(u, type, func, made, state) ==
    [state |-> state,
     url |-> IF state = "garbage" THEN NoUrl ELSE u,
     func |-> IF type = "clt" /\ state # "garbage" THEN func ELSE NoFunc,
     made |-> made, mtime |-> now]

save_cache(u, type, func, made, state) ==
    disk' = [p \in SavePlaces(u, type, func) \cup DOMAIN disk |->
                IF p \in SavePlaces(u, type, func)
                THEN Written(u, type, func, made, state) ELSE disk[p]]

\* Cache files of an index.
FilesOf(u) == {p \in DOMAIN disk : disk[p].url = u}

-----------------------------------------------------------------------------
(* What goes on around the program.                                        *)

Tick ==
    /\ now < MaxTime
    /\ now' = now + 1
    /\ UNCHANGED <<disk, index, writable>>

\* Another version of a dictionary is installed, with the time of this moment
\* or, by a program that keeps times, with that of its making.
ReplaceIndex(u, v, t) ==
    /\ v # index[u].version
    /\ t \in {0, now}
    /\ index' = [index EXCEPT ![u] = [version |-> v, mtime |-> t]]
    /\ UNCHANGED <<disk, writable, now>>

\* The right to write to a directory is given or taken.
Permit(dir) ==
    /\ writable' = IF dir \in writable THEN writable \ {dir} ELSE writable \cup {dir}
    /\ UNCHANGED <<disk, index, now>>
=============================================================================
