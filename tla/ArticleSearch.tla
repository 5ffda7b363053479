--------------------------- MODULE ArticleSearch ---------------------------
(***************************************************************************)
(* What a full text search looks for and where: how Libs::LookupData       *)
(* (lib/stddict.cpp) splits the query into words, DictBase::SearchData     *)
(* (lib/data.cpp), which looks for them in the sections of one article,    *)
(* and KMP (lib/kmp.cpp), with which it looks in a text.                   *)
(*                                                                         *)
(* A string is a sequence of bytes, as numbers: the type of a section, the *)
(* letters of its text and the bytes of a size are told apart by the place *)
(* where they are read alone.                                              *)
(***************************************************************************)
EXTENDS Integers, Sequences, FiniteSets, SequencesExt

NUL == 0
Tab == 9
Newline == 10
Space == 32
BackSlash == 92
Letter_t == 116
Letter_n == 110
\* The types whose text is searched; those of blocks are capital letters.
TextTypes == {109, 116, 121, 108, 103, 120, 107, 119, 104}
IsUpper(b) == b \in 65..90

-----------------------------------------------------------------------------
\* What a byte after a backslash stands for.
Escaped(b) == IF b = Letter_t THEN Tab ELSE IF b = Letter_n THEN Newline ELSE b

Complete(split) ==
    IF split.word = <<>> THEN split
    ELSE [split EXCEPT !.words = Append(@, split.word), !.word = <<>>]

\* A query that ends in a backslash is stepped over; see QueryAssumption.
SplitByte(split, b) ==
    IF split.escape
    THEN [split EXCEPT !.word = Append(@, Escaped(b)), !.escape = FALSE]
    ELSE IF b = BackSlash THEN [split EXCEPT !.escape = TRUE]
    ELSE IF b = Space THEN Complete(split)
    ELSE [split EXCEPT !.word = Append(@, b)]

SearchWords(query) ==
    Complete(FoldLeft(SplitByte, [words |-> <<>>, word |-> <<>>, escape |-> FALSE],
                      query)).words

-----------------------------------------------------------------------------
\* GetPrefixValue fills its table from the text, not from the word.
GetPrefixValue(text) ==
    LET prefix[i \in 0..Len(text) - 1] ==
            IF i = 0 THEN 0
            ELSE IF text[i + 1] = text[prefix[i - 1] + 1] THEN prefix[i - 1] + 1 ELSE 0
    IN  prefix

\* KMPStringMatch: whether the word is found; the byte after it is its NUL.  For an
\* empty text see WritesNull.
KMP(text, word) ==
    LET prefix == GetPrefixValue(text)
        FallBack[b \in {text[k] : k \in DOMAIN text}, j \in 0..Len(word)] ==
            IF j > 0 /\ b # word[j + 1] THEN FallBack[b, prefix[j - 1]] ELSE j
        hits[i \in 0..Len(text)] ==
            IF i = 0 THEN 0
            ELSE IF hits[i - 1] = Len(word) THEN Len(word)
            ELSE LET j == FallBack[text[i], hits[i - 1]]
                 IN  IF text[i] = word[j + 1] THEN j + 1 ELSE j
    IN  text # <<>> /\ hits[Len(text)] = Len(word)

\* strstr, in the C library.
Occurs(word, text) ==
    \E k \in 0..Len(text) - Len(word) : SubSeq(text, k + 1, k + Len(word)) = word

-----------------------------------------------------------------------------
\* strlen at p; a text that no NUL ends runs to the end of the buffer and on.
StrLen(bytes, p) ==
    SelectInSubSeq(bytes, p + 1, Len(bytes), LAMBDA b : b = NUL) - (p + 1)
Ends(bytes, p) == SelectInSubSeq(bytes, p + 1, Len(bytes), LAMBDA b : b = NUL) # 0
Text(bytes, p) == SubSeq(bytes, p + 1, p + StrLen(bytes, p))

\* get_uint32 on a little-endian host: the files have network order.
get_uint32(bytes, p) ==
    bytes[p + 1] + 2^8 * bytes[p + 2] + 2^16 * bytes[p + 3] + 2^24 * bytes[p + 4]

\* Where the next section is thought to begin, -1 if to tell it takes bytes that
\* are not there.
Step(bytes, p, type) ==
    IF IsUpper(type)
    THEN IF p + 4 > Len(bytes) THEN -1 ELSE p + get_uint32(bytes, p) + 4
    ELSE IF Ends(bytes, p) THEN p + StrLen(bytes, p) + 1 ELSE -1

\* The articles of a dictionary with a sametypesequence: the words that are found, and
\* the texts KMP looks in for them, up to the one in which the last of them is.
SameTypeSections(words, sts, bytes) ==
    LET Look(at, text) == [at EXCEPT !.found = @ \cup {w \in words : KMP(text, w)},
                                     !.texts = Append(@, text)]
        Section(at, type) ==
            IF at.p < 0 \/ at.found = words THEN at
            ELSE [(IF type \in TextTypes /\ Ends(bytes, at.p)
                   THEN Look(at, Text(bytes, at.p)) ELSE at)
                  EXCEPT !.p = Step(bytes, at.p, type)]
        last == FoldLeft(Section, [p |-> 0, found |-> {}, texts |-> <<>>], Front(sts))
    IN  IF last.p < 0 \/ last.found = words \/ Last(sts) \notin TextTypes THEN last
        ELSE Look(last, SubSeq(bytes, last.p + 1, Len(bytes)))

SearchSameType(words, sts, bytes) == SameTypeSections(words, sts, bytes).found
KMPTexts(words, sts, bytes) ==
    IF sts = <<>> THEN <<>> ELSE SameTypeSections(words, sts, bytes).texts

\* GetPrefixValue writes the first entry of its table, but takes no room for an empty
\* text: there has to be a table already, of a text before.
WritesNull(prefix, texts) == ~prefix /\ texts # <<>> /\ Head(texts) = <<>>

\* Articles that name their types: the type is looked at, never stepped over, so
\* that a text is searched with its type in front.
SearchTyped(words, bytes) ==
    LET at[p \in Nat] ==
            IF p >= Len(bytes) THEN {}
            ELSE (IF bytes[p + 1] \in TextTypes
                  THEN {w \in words : Occurs(w, Text(bytes, p))} ELSE {})
                 \cup (IF Step(bytes, p, bytes[p + 1]) < 0 THEN {}
                       ELSE at[Step(bytes, p, bytes[p + 1])])
    IN  at[0]

\* Mutant of SearchData: one word is enough.
SearchDataAny(words, sts, bytes) ==
    {} # IF sts = <<>> THEN SearchTyped(words, bytes)
         ELSE SearchSameType(words, sts, bytes)

SearchData(words, sts, bytes) ==
    words = IF sts = <<>> THEN SearchTyped(words, bytes)
            ELSE SearchSameType(words, sts, bytes)

containSearchData(sts) == sts = <<>> \/ \E k \in DOMAIN sts : sts[k] \in TextTypes

-----------------------------------------------------------------------------
\* An article as its author wrote it, a sequence of [type, text], and the bytes of it.
Network(n) == <<0, 0, 0, n>>
Content(sec) ==
    IF IsUpper(sec.type) THEN Network(Len(sec.text)) \o sec.text ELSE Append(sec.text, NUL)
Bytes(sts, secs) ==
    IF sts = <<>>
    THEN FlattenSeq([k \in DOMAIN secs |-> <<secs[k].type>> \o Content(secs[k])])
    ELSE FlattenSeq([k \in DOMAIN Front(secs) |-> Content(secs[k])]) \o Last(secs).text

\* Whether the article is about all the words: each occurs in one of its texts, or
\* goes on from its type into it.
About(words, sts, secs) ==
    \A w \in words : \E k \in DOMAIN secs :
        /\ secs[k].type \in TextTypes
        /\ Occurs(w, IF sts = <<>> THEN <<secs[k].type>> \o secs[k].text ELSE secs[k].text)
=============================================================================
