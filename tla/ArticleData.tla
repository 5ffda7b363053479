----------------------------- MODULE ArticleData -----------------------------
(***************************************************************************)
(* The text of an article on its way from the .dict file to the window.    *)
(*                                                                         *)
(* An article is a sequence of sections, each a letter for its type and a  *)
(* text that ends in NUL or a block that begins with its size.  If all     *)
(* articles have the same types, the file leaves out the types, and the    *)
(* NUL or the size of the last section: DictBase::GetWordData              *)
(* (lib/data.cpp) puts them back and keeps the last articles it made, and  *)
(* parse_data (libwrapper.cpp) takes the article apart.                    *)
(*                                                                         *)
(* A buffer is a sequence of bytes.  What a byte of text is does not       *)
(* matter, only that it is not NUL; blocks are made of NULs to be as       *)
(* misleading as they can.  A size takes four bytes, the first of which    *)
(* holds the number here and its byte order: the files are in network      *)
(* order, and the host is little-endian, as the devices are.               *)
(***************************************************************************)
EXTENDS Integers, Sequences, FiniteSets, SequencesExt

CONSTANTS
    Offsets,             \* where articles begin in the .dict file
    WORDDATA_CACHE_NUM,  \* 10
    MaxSections,         \* bound on the number of sections of an article
    Lens                 \* the lengths of texts and blocks

ASSUME CacheAssumption == WORDDATA_CACHE_NUM \in Nat \ {0}
ASSUME OffsetsAssumption == Offsets \subseteq Nat
ASSUME BoundAssumption == MaxSections \in Nat \ {0} /\ Lens \subseteq Nat

Types == {"m", "W"}  \* any type of text, any type of block
SizeOf == 4          \* sizeof(guint32)
Slots == 0..WORDDATA_CACHE_NUM - 1
Empty == <<>>

NUL == <<"nul">>
Char == <<"char">>
Type(t) == <<"type", t>>
Guint32(n, order) == <<<<"size", n, order>>>> \o [k \in 1..SizeOf - 1 |-> <<"size">>]

VARIABLES
    sametypesequence,  \* the types all articles have, <<>> if they differ
    dict,              \* dict[o]: the sections of the article at o
    cache,             \* cache[i]: [offset, data], or Empty
    cache_cur,
    pc,
    word,              \* the offset of the article asked for
    data, p,           \* in parse_data
    mark               \* the lengths of the texts parse_data has shown

vars == <<sametypesequence, dict, cache, cache_cur, pc, word, data, p, mark>>

-----------------------------------------------------------------------------
\* The bytes of the file.
Content(s) == [k \in 1..s.len |-> IF s.type = "m" THEN Char ELSE NUL]
Whole(s) == IF s.type = "m" THEN Append(Content(s), NUL)
            ELSE Guint32(s.len, "network") \o Content(s)

\* Joined(parts)[k]: the first k of the parts, one behind the other.
Joined(parts) ==
    LET bytes[k \in 0..Len(parts)] == IF k = 0 THEN <<>> ELSE bytes[k - 1] \o parts[k]
    IN  bytes

Stored(types, secs) ==
    IF types = <<>>
    THEN Joined([k \in DOMAIN secs |-> <<Type(secs[k].type)>> \o Whole(secs[k])])[Len(secs)]
    ELSE Joined([k \in DOMAIN secs |-> Whole(secs[k])])[Len(secs) - 1] \o Content(Last(secs))

\* strlen at the position k of buf, and the number at k read with g_ntohl: what is
\* in host order, and takes one byte, becomes great.
StrLen(buf, k) ==
    CHOOSE n \in 0..Len(buf) - k :
        /\ \A m \in 1..n : buf[k + m] # NUL
        /\ n < Len(buf) - k => buf[k + n + 1] = NUL
NtoHL(buf, k) == IF buf[k + 1][3] = "network" THEN buf[k + 1][2] ELSE buf[k + 1][2] * 2^24

\* The type of a section is put in front of it.
PutHead(made, t) ==
    LET n == StrLen(made.rest, 0) + 1
    IN  [bytes |-> made.bytes \o <<Type(t)>> \o SubSeq(made.rest, 1, n),
         rest  |-> SubSeq(made.rest, n + 1, Len(made.rest))]

\* What is made, and what is left of the file, when the first k types are put back.
PutHeads(types, origin) ==
    LET made[k \in 0..Len(types) - 1] ==
            IF k = 0 THEN [bytes |-> <<>>, rest |-> origin] ELSE PutHead(made[k - 1], types[k])
    IN  made

\* Mutant of PutLast: the end of the last text is not marked.
PutLastUnterminated(made, t) ==
    made.bytes \o <<Type(t)>>
        \o (IF t = "m" THEN made.rest
            ELSE Guint32(Len(made.rest), "host") \o made.rest)

\* The last section also gets its NUL, or its size.
PutLast(made, t) ==
    made.bytes \o <<Type(t)>>
        \o (IF t = "m" THEN Append(made.rest, NUL)
            ELSE Guint32(Len(made.rest), "host") \o made.rest)

\* The number of bytes GetWordData expects to write.
DataSize(types, origin) ==
    IF types = <<>> THEN Len(origin)
    ELSE Len(origin) + Len(types) + IF Last(types) = "m" THEN 1 ELSE SizeOf

\* What GetWordData makes of the bytes of the file.
MakeData(types, origin) ==
    Guint32(DataSize(types, origin), "host")
        \o IF types = <<>> THEN origin
           ELSE PutLast(PutHeads(types, origin)[Len(types) - 1], Last(types))

Data(o) == MakeData(sametypesequence, Stored(sametypesequence, dict[o]))

TypeOK ==
    /\ sametypesequence \in Seq(Types)
    /\ dict \in [Offsets -> Seq([type : Types, len : Lens])]
    /\ \A i \in Slots : cache[i] # Empty => cache[i].offset \in Offsets
    /\ cache_cur \in Slots
    /\ pc \in {"idle", "parse"}
    /\ word \in Offsets \cup {-1}
    /\ p \in Nat
    /\ mark \in Seq(Lens)

-----------------------------------------------------------------------------
\* A sametypesequence with a block before its end is left out: GetWordData reads
\* the size of that block in host order and copies as many bytes.  So is a block of
\* 256 bytes or more at its end: in the wrong order, 65536 is 256.
Init ==
    /\ sametypesequence \in UNION {[1..n -> Types] : n \in 0..MaxSections}
    /\ \A k \in DOMAIN sametypesequence :
          sametypesequence[k] = "W" => k = Len(sametypesequence)
    /\ dict \in [Offsets -> UNION {[1..n -> [type : Types, len : Lens]] :
                                     n \in 1..MaxSections}]
    /\ sametypesequence # <<>> =>
          \A o \in Offsets :
             /\ [k \in DOMAIN dict[o] |-> dict[o][k].type] = sametypesequence
             /\ Last(dict[o]).type = "W" => Last(dict[o]).len < 256
    /\ cache = [i \in Slots |-> Empty] /\ cache_cur = 0
    /\ pc = "idle" /\ word = -1 /\ data = <<>> /\ p = 0 /\ mark = <<>>

\* Mutant of CachedAt: a slot is taken for a hit because it is in use.
CachedAtInUse(o) == {i \in Slots : cache[i] # Empty}

CachedAt(o) == {i \in Slots : cache[i] # Empty /\ cache[i].offset = o}

\* parse_data is called with what GetWordData returned.
Parse(o, buf) ==
    /\ pc' = "parse" /\ word' = o
    /\ data' = buf /\ p' = SizeOf /\ mark' = <<>>
    /\ UNCHANGED <<sametypesequence, dict>>

\* GetWordData finds the article in its cache.
Hit(o) ==
    /\ pc = "idle"
    /\ \E i \in CachedAt(o) : Parse(o, cache[i].data)
    /\ UNCHANGED <<cache, cache_cur>>

\* Mutant of Miss: the new data replaces the old, whose offset stays.
MissKeepingOffset(o) ==
    /\ pc = "idle" /\ CachedAt(o) = {}
    /\ LET made == Data(o)
           old == cache[cache_cur]
       IN  /\ cache' = [cache EXCEPT ![cache_cur] =
                          [offset |-> IF old = Empty THEN o ELSE old.offset, data |-> made]]
           /\ Parse(o, made)
    /\ cache_cur' = (cache_cur + 1) % WORDDATA_CACHE_NUM

\* It does not: the article is made, and replaces the oldest.
Miss(o) ==
    /\ pc = "idle" /\ CachedAt(o) = {}
    /\ LET made == Data(o)
       IN  /\ cache' = [cache EXCEPT ![cache_cur] = [offset |-> o, data |-> made]]
           /\ Parse(o, made)
    /\ cache_cur' = (cache_cur + 1) % WORDDATA_CACHE_NUM

data_size == data[1][2]

\* A section of text.
ParseText ==
    /\ pc = "parse" /\ p < data_size /\ data[p + 1] = Type("m")
    /\ LET n == StrLen(data, p + 1)
       IN  mark' = Append(mark, n) /\ p' = p + 1 + n + 1
    /\ UNCHANGED <<sametypesequence, dict, cache, cache_cur, pc, word, data>>

\* A block, which is skipped.
ParseBlock ==
    /\ pc = "parse" /\ p < data_size /\ data[p + 1] = Type("W")
    /\ p' = p + 1 + NtoHL(data, p + 1) + SizeOf
    /\ UNCHANGED <<sametypesequence, dict, cache, cache_cur, pc, word, data, mark>>

\* The loop ends: p counts from the start of data, data_size does not.
ParseEnd ==
    /\ pc = "parse" /\ p >= data_size
    /\ pc' = "idle"
    /\ UNCHANGED <<sametypesequence, dict, cache, cache_cur, word, data, p, mark>>

Next ==
    \/ \E o \in Offsets : Hit(o) \/ Miss(o)
    \/ ParseText \/ ParseBlock \/ ParseEnd

Spec == Init /\ [][Next]_vars

-----------------------------------------------------------------------------
\* The cache holds every article at most once, and under its own offset what
\* GetWordData would make of it now; parse_data is given that too, for the
\* article asked for.
CacheCoherent ==
    \A i, j \in Slots :
        /\ cache[i] # Empty => cache[i].data = Data(cache[i].offset)
        /\ cache[i] # Empty /\ cache[j] # Empty /\ i # j => cache[i].offset # cache[j].offset
        /\ word # -1 => data = Data(word)

\* GetWordData writes what it has allocated, no more and no less, and parse_data
\* finds the start of a section wherever it looks for one.
InStep ==
    /\ data # <<>> => Len(data) = data_size + SizeOf
    /\ pc = "parse" /\ p < data_size => data[p + 1] \in {Type(t) : t \in Types}

\* Where the first k sections of an article end.
SectionSize(s) == IF s.type = "m" THEN s.len + 2 ELSE s.len + 1 + SizeOf
Ends(secs) ==
    LET end[k \in 0..Len(secs)] == IF k = 0 THEN 0 ELSE end[k - 1] + SectionSize(secs[k])
    IN  end

\* The lengths in m are those of the sections at these places, in their order.
Marks(m, secs, places) ==
    \E at \in [DOMAIN m -> places] :
        /\ \A i, j \in DOMAIN m : i < j => at[i] < at[j]
        /\ \A k \in places : \E i \in DOMAIN m : at[i] = k
        /\ \A i \in DOMAIN m : m[i] = secs[at[i]].len

\* The texts of the article asked for are shown in their order, all but those in
\* its last four bytes.
TextsShown ==
    word # -1 /\ pc = "idle" =>
        LET secs == dict[word]
            end == Ends(secs)
            places == {k \in DOMAIN secs : /\ secs[k].type = "m"
                                           /\ end[Len(secs)] - end[k - 1] > SizeOf}
        IN  Marks(mark, secs, places)
=============================================================================
