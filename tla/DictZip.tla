------------------------------ MODULE DictZip ------------------------------
(***************************************************************************)
(* Reading from a compressed .dict.dz file: dictData::read                 *)
(* (lib/dictziplib.cpp).  The file is compressed in chunks of chunkLength  *)
(* bytes, of which the last DICT_CACHE_SIZE that were used stay inflated.  *)
(* One inflation stream serves all chunks: input that is no chunk leaves   *)
(* it in an error state, after which it inflates nothing any more.         *)
(*                                                                         *)
(* A byte of the text is its position in it.  Each iteration of the loop   *)
(* over the chunks is a step.                                              *)
(***************************************************************************)
EXTENDS Integers, Sequences

CONSTANTS
    Lengths,          \* the lengths a text may have
    chunkLength,
    DICT_CACHE_SIZE,  \* 5
    MaxStamp          \* bound on stamp, so on the number of chunks used

ASSUME LengthsAssumption == Lengths \subseteq Nat \ {0}
ASSUME ChunkAssumption == chunkLength \in Nat \ {0}
ASSUME SizeAssumption == DICT_CACHE_SIZE \in Nat \ {0}
ASSUME StampAssumption == MaxStamp \in Nat

Slots == 1..DICT_CACHE_SIZE
NoChunk == -1
Junk == -1    \* what a buffer holds that no chunk was inflated into

VARIABLES
    length,     \* the length of the text
    chunk, inBuffer, count, stamps,  \* cache[j].chunk, .inBuffer, .count, .stamp
    stamp,
    zStream,    \* "ok" or "bad"
    pc,
    start, end, \* what is read, from start up to end
    i,          \* the chunk used next
    lastCount,  \* count of the chunk used last
    buffer,     \* the bytes read
    used        \* the chunks used, the last one first (history)

cache == <<chunk, inBuffer, count, stamps>>
zip_vars == <<length, cache, stamp, zStream, pc, start, end, i, lastCount, buffer, used>>

chunkCount == (length + chunkLength - 1) \div chunkLength
firstChunk == start \div chunkLength
firstOffset == start % chunkLength

\* Mutant of lastChunk: the end is rounded up.
lastChunkRoundedUp == (end + chunkLength - 1) \div chunkLength

lastChunk == end \div chunkLength

lastOffset == end % chunkLength

\* The number of bytes in a chunk: the last one may be shorter.
Size(c) == IF length - c * chunkLength < chunkLength
           THEN length - c * chunkLength ELSE chunkLength

\* The chunks the table chunks[] has an entry for.
InTable(c) == c < chunkCount

TypeOK ==
    /\ length \in Lengths
    /\ chunk \in [Slots -> Nat \cup {NoChunk}]
    /\ inBuffer \in [Slots -> Nat \cup {Junk}]
    /\ count \in [Slots -> 0..chunkLength]
    /\ stamps \in [Slots -> -1..stamp]
    /\ stamp \in Nat
    /\ zStream \in {"ok", "bad"}
    /\ pc \in {"idle", "read"}
    /\ start \in Nat /\ end \in Nat /\ i \in Nat
    /\ lastCount \in 0..chunkLength
    /\ buffer \in Seq(Nat \cup {Junk})
    /\ used \in Seq(Nat)

-----------------------------------------------------------------------------
\* dictData::open, of a file as dictzip writes it.
ZipInit ==
    /\ length \in Lengths
    /\ chunk = [j \in Slots |-> NoChunk] /\ inBuffer = [j \in Slots |-> Junk]
    /\ count = [j \in Slots |-> 0] /\ stamps = [j \in Slots |-> -1]
    /\ stamp = 0 /\ zStream = "ok"
    /\ pc = "idle" /\ start = 0 /\ end = 0 /\ i = 0 /\ lastCount = 0
    /\ buffer = <<>> /\ used = <<>>

\* The program ends, and opens the file again in its next run.
Reopen ==
    /\ pc = "idle" /\ stamp > 0
    /\ chunk' = [j \in Slots |-> NoChunk] /\ inBuffer' = [j \in Slots |-> Junk]
    /\ count' = [j \in Slots |-> 0] /\ stamps' = [j \in Slots |-> -1]
    /\ stamp' = 0 /\ zStream' = "ok"
    /\ start' = 0 /\ end' = 0 /\ i' = 0 /\ lastCount' = 0
    /\ buffer' = <<>> /\ used' = <<>>
    /\ UNCHANGED <<length, pc>>

\* A chunk of another file is used: stamp is shared by all files.
UseOther ==
    /\ pc = "idle" /\ stamp < MaxStamp
    /\ stamp' = stamp + 1
    /\ UNCHANGED <<length, cache, zStream, pc, start, end, i, lastCount, buffer, used>>

\* read, up to the loop: the article lies in the text.
Read ==
    /\ pc = "idle"
    /\ start' \in 0..length - 1 /\ end' \in 0..length /\ start' <= end'
    /\ stamp + chunkCount < MaxStamp
    /\ i' = start' \div chunkLength
    /\ buffer' = <<>>
    /\ pc' = "read"
    /\ UNCHANGED <<length, cache, stamp, zStream, lastCount, used>>

\* Mutant of Copied: every chunk is copied from the offset in the first one.
CopiedFromOffset(c) ==
    LET upto == IF i = lastChunk THEN lastOffset ELSE chunkLength
    IN  [k \in 1..upto - firstOffset |->
            IF c = Junk THEN Junk ELSE c * chunkLength + firstOffset + k - 1]

\* The copy at the end of an iteration, from a buffer that holds the chunk c.
Copied(c) ==
    LET from == IF i = firstChunk THEN firstOffset ELSE 0
        upto == IF i = lastChunk THEN lastOffset ELSE chunkLength
    IN  [k \in 1..upto - from |-> IF c = Junk THEN Junk ELSE c * chunkLength + from + k - 1]

\* Chunk c comes first among the chunks used: it was at place p, or is new.
Foremost(c) ==
    \E p \in 1..Len(used) + 1 :
        /\ \A k \in 1..Len(used) : used[k] = c <=> k = p
        /\ used' = [k \in 1..(IF p > Len(used) THEN p ELSE Len(used)) |->
                      IF k = 1 THEN c ELSE IF k <= p THEN used[k - 1] ELSE used[k]]

\* Mutant of Stamped: a chunk found in the cache keeps its stamp.
StampedOnce(j) ==
    /\ stamp' = stamp + 1
    /\ stamps' = IF chunk[j] = i THEN stamps ELSE [stamps EXCEPT ![j] = stamp + 1]
    /\ Foremost(i)

Stamped(j) ==
    /\ stamp' = stamp + 1
    /\ stamps' = [stamps EXCEPT ![j] = stamp + 1]
    /\ Foremost(i)

\* Slots that hold the chunk, and the slot that was not used for the longest time.
CachedAt(c) == {j \in Slots : chunk[j] = c}
Oldest ==
    {j \in Slots : \A k \in Slots : stamps[j] <= stamps[k] /\ (k < j => stamps[j] < stamps[k])}

\* An iteration that finds the chunk in the cache.
Hit(j) ==
    /\ lastCount' = count[j]
    /\ buffer' = buffer \o Copied(inBuffer[j])
    /\ UNCHANGED <<chunk, inBuffer, count, zStream>>

\* What inflating chunk c into a buffer may leave: what the buffer holds, its
\* size, and the state of the stream.  Beyond the table, both the place of the
\* input and its size are whatever lies there.
Inflated(c) ==
    IF zStream = "bad" THEN {<<Junk, 0, "bad">>}
    ELSE IF InTable(c) THEN {<<c, Size(c), "ok">>}
    ELSE {<<Junk, 0, "ok">>, <<Junk, 0, "bad">>}

\* An iteration that inflates the chunk.
Miss(j) ==
    \E made \in Inflated(i) :
        /\ chunk' = [chunk EXCEPT ![j] = i]
        /\ inBuffer' = [inBuffer EXCEPT ![j] = made[1]]
        /\ count' = [count EXCEPT ![j] = made[2]]
        /\ zStream' = made[3]
        /\ lastCount' = made[2]
        /\ buffer' = buffer \o Copied(made[1])

Use ==
    /\ pc = "read" /\ i <= lastChunk
    /\ \/ \E j \in CachedAt(i) : Hit(j) /\ Stamped(j)
       \/ CachedAt(i) = {} /\ \E j \in Oldest : Miss(j) /\ Stamped(j)
    /\ i' = i + 1
    /\ UNCHANGED <<length, pc, start, end>>

Return ==
    /\ pc = "read" /\ i > lastChunk
    /\ pc' = "idle"
    /\ UNCHANGED <<length, cache, stamp, zStream, start, end, i, lastCount, buffer, used>>

ZipNext == Read \/ Use \/ Return \/ UseOther \/ Reopen

ZipSpec == ZipInit /\ [][ZipNext]_zip_vars

-----------------------------------------------------------------------------
\* A slot holds the chunk it says it holds, whole, and no two hold the same one.
CacheCoherent ==
    \A j, k \in Slots :
        /\ chunk[j] # NoChunk /\ InTable(chunk[j]) /\ zStream = "ok" =>
              inBuffer[j] = chunk[j] /\ count[j] = Size(chunk[j])
        /\ chunk[j] # NoChunk /\ j # k => chunk[j] # chunk[k]

\* An article that ends where the text does, at the end of a chunk, and it alone
\* leads beyond the table: its last iteration, which has no byte to copy, uses an
\* entry that is not there.  Nothing else can spoil the stream.
TextEndsWithChunk == length % chunkLength = 0
TableSuffices ==
    /\ pc = "read" /\ i <= lastChunk /\ ~InTable(i) =>
          TextEndsWithChunk /\ end = length /\ i = lastChunk
    /\ zStream = "bad" => TextEndsWithChunk

\* read returns the bytes asked for, no more and no less; but a spoiled stream
\* leaves junk in place of some of them.
BytesExact ==
    pc = "read" /\ i > lastChunk =>
        /\ Len(buffer) = end - start
        /\ \A k \in 1..end - start :
              buffer[k] = start + k - 1 \/ (buffer[k] = Junk /\ zStream = "bad")

\* The chunks used last are the ones in the cache.
RecentKept ==
    LET n == IF Len(used) < DICT_CACHE_SIZE THEN Len(used) ELSE DICT_CACHE_SIZE
    IN  {chunk[j] : j \in Slots} \ {NoChunk} = {used[k] : k \in 1..n}

\* Chunks between the first and the last of an article are whole, wherever they
\* come from: assert( count == this->chunkLength ).  A spoiled stream breaks it.
MiddleWhole ==
    pc = "read" /\ firstChunk < i - 1 /\ i - 1 < lastChunk =>
        lastCount = chunkLength \/ zStream = "bad"

\* Both, of the chunks that are taken from the cache.
ChunksKept == RecentKept /\ MiddleWhole
=============================================================================
