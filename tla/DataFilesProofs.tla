-------------------------- MODULE DataFilesProofs --------------------------
(***************************************************************************)
(* Proofs about the files dictionaries are read from.  Of DictZip, for     *)
(* every text, chunk length and cache size: the cache tells the truth      *)
(* about what it holds, the bytes asked for are the bytes read, and only   *)
(* an article that ends where the text and a chunk do leads beyond the     *)
(* table of chunks and may spoil what is read after it.  Of CollateIndex   *)
(* and CacheFile, for any indexes, versions and functions: no cache is     *)
(* used for another index, or made in vain, no file is written to while it *)
(* is mapped, and if the comparison is a total order every lookup finds    *)
(* what there is.                                                          *)
(***************************************************************************)
EXTENDS DictZip, ResultLookup, FiniteSetTheorems, WellFoundedInduction, TLAPS

-----------------------------------------------------------------------------
(* Chunks and positions.                                                   *)

LEMMA DivNat ==
    ASSUME NEW a \in Nat, NEW b \in Nat \ {0}
    PROVE  a \div b \in Nat /\ b * (a \div b) <= a /\ a < b * (a \div b) + b
           /\ (a % b = 0 <=> b * (a \div b) = a)
OBVIOUS

LEMMA ModNat ==
    ASSUME NEW a \in Nat, NEW b \in Nat \ {0}
    PROVE  a % b \in Nat /\ a % b < b /\ a = b * (a \div b) + (a % b)
<1>1. a % b \in 0..b - 1
  OBVIOUS
<1>2. a = b * (a \div b) + (a % b)
  OBVIOUS
<1>3. QED BY <1>1, <1>2

LEMMA DivLess ==
    ASSUME NEW b \in Nat \ {0}, NEW q \in Nat, NEW c \in Nat, b * q < b * c
    PROVE  q < c
OBVIOUS

LEMMA DivMono ==
    ASSUME NEW a \in Nat, NEW e \in Nat, a <= e, NEW b \in Nat \ {0}
    PROVE  a \div b <= e \div b
<1> DEFINE f == a \div b
           l == e \div b
<1>1. f \in Nat /\ b * f <= a /\ l \in Nat /\ e < b * l + b
  BY DivNat
<1> HIDE DEF f, l
<1>2. b * f < b * (l + 1)
  BY <1>1
<1>3. f < l + 1
  BY <1>1, <1>2, DivLess
<1>4. QED BY <1>1, <1>3 DEF f, l

-----------------------------------------------------------------------------
\* What the cache holds, and the types that reasoning about it needs.
CacheInv ==
    /\ chunk \in [Slots -> Nat \cup {NoChunk}]
    /\ inBuffer \in [Slots -> Nat \cup {Junk}]
    /\ count \in [Slots -> Int]
    /\ zStream \in {"ok", "bad"}
    /\ i \in Nat
    /\ \A j \in Slots : inBuffer[j] = chunk[j] \/ inBuffer[j] = Junk
    /\ CacheCoherent

LEMMA CacheInit == ZipInit => CacheInv
BY DEF ZipInit, CacheInv, CacheCoherent, Slots, NoChunk, Junk

LEMMA MissCoherent ==
    ASSUME CacheInv, NEW j \in Slots, CachedAt(i) = {}, Miss(j), UNCHANGED length, i' = i + 1,
           i \in Nat, Size(i) \in Int
    PROVE  CacheInv'
<1>1. PICK made \in Inflated(i) :
          /\ chunk' = [chunk EXCEPT ![j] = i]
          /\ inBuffer' = [inBuffer EXCEPT ![j] = made[1]]
          /\ count' = [count EXCEPT ![j] = made[2]]
          /\ zStream' = made[3]
  BY DEF Miss
<1>2. /\ made[1] \in Nat \cup {Junk} /\ made[2] \in Int /\ made[3] \in {"ok", "bad"}
      /\ made[3] = "ok" => zStream = "ok"
      /\ made[1] = i \/ made[1] = Junk
      /\ made[3] = "ok" /\ InTable(i) => made[1] = i /\ made[2] = Size(i)
  BY <1>1 DEF Inflated, CacheInv
<1>3. \A k \in Slots : chunk[k] # i
  BY DEF CachedAt
<1>4. /\ chunk' \in [Slots -> Nat \cup {NoChunk}] /\ inBuffer' \in [Slots -> Nat \cup {Junk}]
      /\ count' \in [Slots -> Int] /\ zStream' \in {"ok", "bad"} /\ i' \in Nat
  BY <1>1, <1>2 DEF CacheInv
<1>5. \A c : InTable(c)' <=> InTable(c)
  BY DEF InTable, chunkCount
<1>6. \A c : Size(c)' = Size(c)
  BY DEF Size
<1>7. ASSUME NEW k \in Slots, chunk'[k] # NoChunk, InTable(chunk[k])', zStream' = "ok"
      PROVE  inBuffer'[k] = chunk'[k] /\ count'[k] = Size(chunk[k])'
  <2>1. CASE k = j
    BY <1>1, <1>2, <1>5, <1>6, <1>7, <2>1 DEF CacheInv, InTable, chunkCount, Size
  <2>2. CASE k # j
    BY <1>1, <1>2, <1>5, <1>6, <1>7, <2>2 DEF CacheInv, CacheCoherent, InTable, chunkCount, Size
  <2>3. QED BY <2>1, <2>2
<1>8. ASSUME NEW k \in Slots, NEW l \in Slots, chunk'[k] # NoChunk, k # l
      PROVE  chunk'[k] # chunk'[l]
  BY <1>1, <1>3, <1>8 DEF CacheInv, CacheCoherent
<1>9. \A k \in Slots : inBuffer'[k] = chunk'[k] \/ inBuffer'[k] = Junk
  BY <1>1, <1>2 DEF CacheInv
<1>10. QED
  BY <1>4, <1>7, <1>8, <1>9 DEF CacheInv, CacheCoherent

LEMMA CacheStep == CacheInv /\ length \in Nat \ {0} /\ [ZipNext]_zip_vars => CacheInv'
<1> SUFFICES ASSUME CacheInv, length \in Nat \ {0}, [ZipNext]_zip_vars PROVE CacheInv'
  OBVIOUS
<1> USE ChunkAssumption
<1>1. CASE Read
  <2>1. start' \in Nat
    BY <1>1 DEF Read
  <2>2. i' \in Nat
    BY <1>1, <2>1, DivNat DEF Read
  <2>3. QED
    BY <1>1, <2>2 DEF Read, CacheInv, CacheCoherent, cache, InTable, chunkCount, Size
<1>2. CASE Use
  <2>1. i \in Nat /\ Size(i) \in Int
    BY DEF CacheInv, Size
  <2>2. CASE \E j \in CachedAt(i) : Hit(j) /\ Stamped(j)
    BY <1>2, <2>1, <2>2 DEF Use, Hit, CacheInv, CacheCoherent, InTable, chunkCount, Size
  <2>3. CASE CachedAt(i) = {} /\ \E j \in Oldest : Miss(j) /\ Stamped(j)
    BY <1>2, <2>1, <2>3, MissCoherent DEF Use, Oldest
  <2>4. QED BY <1>2, <2>2, <2>3 DEF Use
<1>3. CASE Return \/ UseOther
  BY <1>3 DEF Return, UseOther, CacheInv, CacheCoherent, cache, InTable, chunkCount, Size
<1>4. CASE Reopen
  BY <1>4 DEF Reopen, CacheInv, CacheCoherent, Slots, NoChunk, Junk
<1>5. CASE UNCHANGED zip_vars
  BY <1>5 DEF zip_vars, CacheInv, CacheCoherent, cache, InTable, chunkCount, Size
<1>6. QED BY <1>1, <1>2, <1>3, <1>4, <1>5 DEF ZipNext

\* What is read lies in the text, whose length does not change.
RangeInv ==
    /\ length \in Lengths
    /\ start \in 0..length /\ end \in 0..length /\ start <= end

LEMMA RangeCorrect == ZipSpec => []RangeInv
<1>1. ZipInit => RangeInv
  BY LengthsAssumption DEF ZipInit, RangeInv
<1>2. RangeInv /\ [ZipNext]_zip_vars => RangeInv'
  <2> SUFFICES ASSUME RangeInv, [ZipNext]_zip_vars PROVE RangeInv'
    OBVIOUS
  <2> USE LengthsAssumption
  <2>1. CASE Read
    BY <2>1 DEF Read, RangeInv
  <2>2. CASE Use \/ Return \/ UseOther \/ UNCHANGED zip_vars
    BY <2>2 DEF Use, Return, UseOther, zip_vars, RangeInv
  <2>3. CASE Reopen
    BY <2>3 DEF Reopen, RangeInv
  <2>4. QED BY <2>1, <2>2, <2>3 DEF ZipNext
<1>3. QED BY <1>1, <1>2, PTL DEF ZipSpec

\* The cache of inflated chunks never gives one chunk for another: dictData::read
\* finds in a slot what the slot says it holds.
THEOREM CacheIsCoherent == ZipSpec => []CacheCoherent
<1>1. RangeInv => length \in Nat \ {0}
  BY LengthsAssumption DEF RangeInv
<1>2. CacheInv => CacheCoherent
  BY DEF CacheInv
<1>3. QED BY CacheInit, CacheStep, RangeCorrect, <1>1, <1>2, PTL DEF ZipSpec

-----------------------------------------------------------------------------
\* Only the last iteration for an article that ends where the text and a chunk end
\* is beyond the table chunks[], and none of the bytes it has is copied.
Beyond == TextEndsWithChunk /\ end = length /\ lastOffset = 0

LEMMA LastInTable ==
    ASSUME RangeInv
    PROVE  /\ firstChunk \in Nat /\ lastChunk \in Nat /\ chunkCount \in Nat
           /\ firstChunk <= lastChunk
           /\ lastChunk < chunkCount \/ (lastChunk = chunkCount /\ Beyond)
<1> USE LengthsAssumption, ChunkAssumption
<1> DEFINE q == end \div chunkLength
           c == (length + chunkLength - 1) \div chunkLength
<1>1. length \in Nat \ {0} /\ start \in Nat /\ end \in Nat /\ end <= length /\ start <= end
  BY DEF RangeInv
<1>2. length + chunkLength - 1 \in Nat
  BY <1>1
<1>3. q \in Nat /\ chunkLength * q <= end /\ (end % chunkLength = 0 <=> chunkLength * q = end)
  BY <1>1, DivNat
<1>4. c \in Nat /\ length + chunkLength - 1 < chunkLength * c + chunkLength
  BY <1>2, DivNat
<1>5. chunkLength * q < chunkLength * (c + 1)
  <2>1. chunkLength * (c + 1) = chunkLength * c + chunkLength
    BY <1>4
  <2> HIDE DEF q, c
  <2> QED BY <1>1, <1>3, <1>4, <2>1
<1>6. q < c \/ q = c
  <2> HIDE DEF q, c
  <2>1. c + 1 \in Nat
    BY <1>4
  <2>2. q < c + 1
    BY <1>3, <1>5, <2>1, DivLess
  <2> QED BY <1>3, <1>4, <2>2
<1>7. ASSUME q = c PROVE Beyond
  <2>1. chunkLength * q = end /\ end = length
    <3> HIDE DEF q, c
    <3> QED BY <1>1, <1>3, <1>4, <1>7
  <2>2. end % chunkLength = 0
    <3> HIDE DEF q
    <3> QED BY <1>3, <2>1
  <2>3. QED BY <2>1, <2>2 DEF Beyond, TextEndsWithChunk, lastOffset
<1>8. firstChunk \in Nat /\ firstChunk <= lastChunk
  BY <1>1, DivNat, DivMono DEF firstChunk, lastChunk
<1>9. lastChunk = q /\ chunkCount = c
  BY DEF lastChunk, chunkCount
<1> HIDE DEF q, c
<1>10. QED
  BY <1>3, <1>4, <1>6, <1>7, <1>8, <1>9

\* Nothing but a chunk beyond the table spoils the stream.
StreamInv == zStream = "bad" => TextEndsWithChunk

LEMMA StreamStep == RangeInv /\ CacheInv /\ StreamInv /\ [ZipNext]_zip_vars => StreamInv'
<1> SUFFICES ASSUME RangeInv, CacheInv, StreamInv, [ZipNext]_zip_vars PROVE StreamInv'
  OBVIOUS
<1>1. CASE Use
  <2>1. TextEndsWithChunk' = TextEndsWithChunk
    BY <1>1 DEF Use, TextEndsWithChunk
  <2>2. CASE InTable(i)
    <3>1. zStream' = zStream
      BY <1>1, <2>2 DEF Use, Hit, Miss, Inflated, CacheInv
    <3>2. QED BY <2>1, <3>1 DEF StreamInv
  <2>3. CASE ~InTable(i)
    <3>1. TextEndsWithChunk
      BY <1>1, <2>3, LastInTable DEF Use, InTable, CacheInv, Beyond
    <3>2. QED BY <2>1, <3>1 DEF StreamInv
  <2>4. QED BY <2>2, <2>3
<1>2. CASE Read \/ Return \/ UseOther \/ UNCHANGED zip_vars
  BY <1>2 DEF Read, Return, UseOther, zip_vars, StreamInv, TextEndsWithChunk
<1>3. CASE Reopen
  BY <1>3 DEF Reopen, StreamInv
<1>4. QED BY <1>1, <1>2, <1>3 DEF ZipNext

\* dictData::read uses no chunk beyond the table, except when the article ends where
\* the text and a chunk do, and then in its last iteration only; the stream stays
\* good unless the text ends where a chunk does.
THEOREM TableIsEnough == ZipSpec => []TableSuffices
<1>1. RangeInv /\ CacheInv /\ StreamInv => TableSuffices
  BY LastInTable DEF TableSuffices, InTable, CacheInv, StreamInv, Beyond
<1>2. RangeInv => length \in Nat \ {0}
  BY LengthsAssumption DEF RangeInv
<1>3. ZipInit => StreamInv
  BY DEF ZipInit, StreamInv
<1>4. QED
  BY <1>1, <1>2, <1>3, CacheInit, CacheStep, StreamStep, RangeCorrect, PTL DEF ZipSpec

-----------------------------------------------------------------------------
\* How many bytes of the article from s up to e were read before chunk c, and that b
\* holds the n bytes from s on, or junk if the stream is spoiled.
Before(s, e, c) == IF c <= s \div chunkLength THEN 0
                   ELSE IF c <= e \div chunkLength THEN chunkLength * c - s ELSE e - s

Holds(b, s, n, z) ==
    /\ b \in Seq(Int) /\ Len(b) = n
    /\ \A k \in 1..n : b[k] = s + k - 1 \/ (b[k] = Junk /\ z = "bad")

LEMMA Concatenated ==
    ASSUME NEW a \in Nat, NEW n \in Nat, NEW s \in Nat, NEW b, NEW d, NEW y, NEW z,
           Holds(b, s, a, y), Holds(d, s + a, n, z), y = "bad" => z = "bad"
    PROVE  Holds(b \o d, s, a + n, z)
<1>1. b \in Seq(Int) /\ d \in Seq(Int) /\ Len(b) = a /\ Len(d) = n
  BY DEF Holds
<1>2. b \o d \in Seq(Int) /\ Len(b \o d) = a + n
  BY <1>1
<1>3. ASSUME NEW k \in 1..a + n
      PROVE  (b \o d)[k] = s + k - 1 \/ ((b \o d)[k] = Junk /\ z = "bad")
  <2>1. CASE k <= a
    <3>1. k \in 1..a /\ (b \o d)[k] = b[k]
      BY <1>1, <2>1
    <3>2. QED BY <3>1 DEF Holds
  <2>2. CASE k > a
    <3>1. k - a \in 1..n /\ (b \o d)[k] = d[k - a]
      BY <1>1, <2>2
    <3>2. s + a + (k - a) - 1 = s + k - 1
      OBVIOUS
    <3>3. QED BY <3>1, <3>2 DEF Holds
  <2>3. k <= a \/ k > a
    OBVIOUS
  <2>4. QED BY <2>1, <2>2, <2>3
<1>4. QED BY <1>2, <1>3 DEF Holds

\* One iteration copies the bytes of the article that the chunk has: from a buffer
\* that holds the chunk, or junk.  Beyond the table there are none.
LEMMA CopiedBytes ==
    ASSUME RangeInv, i \in Nat, firstChunk <= i, i <= lastChunk, NEW h, NEW z,
           h = i \/ h = Junk, InTable(i) /\ z # "bad" => h = i
    PROVE  \E n \in Nat :
              /\ Holds(Copied(h), start + Before(start, end, i), n, z)
              /\ Before(start, end, i) \in Nat
              /\ Before(start, end, i + 1) = Before(start, end, i) + n
<1> USE LengthsAssumption, ChunkAssumption
<1> DEFINE from == IF i = firstChunk THEN firstOffset ELSE 0
           upto == IF i = lastChunk THEN lastOffset ELSE chunkLength
           b == Before(start, end, i)
           c == Before(start, end, i + 1)
           n == upto - from
<1>1. start \in Nat /\ end \in Nat /\ start <= end
  BY DEF RangeInv
<1>2. /\ firstChunk \in Nat /\ firstOffset \in Nat /\ firstOffset < chunkLength
      /\ start = chunkLength * firstChunk + firstOffset
      /\ lastChunk \in Nat /\ lastOffset \in Nat /\ end = chunkLength * lastChunk + lastOffset
  BY <1>1, DivNat, ModNat DEF firstChunk, firstOffset, lastChunk, lastOffset
<1>3. /\ chunkLength * (i + 1) = chunkLength * i + chunkLength
      /\ i > firstChunk => chunkLength * i >= chunkLength * firstChunk + chunkLength
      /\ chunkLength * i \in Nat
  BY <1>2
<1>4. /\ b = IF i <= firstChunk THEN 0
             ELSE IF i <= lastChunk THEN chunkLength * i - start ELSE end - start
      /\ c = IF i + 1 <= firstChunk THEN 0
             ELSE IF i + 1 <= lastChunk THEN chunkLength * (i + 1) - start ELSE end - start
  BY DEF Before, firstChunk, lastChunk
<1>5. /\ b \in Nat /\ chunkLength * i + from = start + b
      /\ n \in Nat /\ c = b + n
  <2> HIDE DEF b, c
  <2> QED BY <1>1, <1>2, <1>3, <1>4
<1>6. ASSUME ~InTable(i) PROVE n = 0
  <2>1. i = lastChunk /\ lastOffset = 0
    BY <1>6, LastInTable DEF InTable, Beyond
  <2>2. upto = 0 /\ from \in Nat
    BY <1>2, <2>1
  <2> HIDE DEF b, c, from, upto
  <2>3. QED BY <1>5, <2>2
<1>7. Copied(h) = [k \in 1..n |-> IF h = Junk THEN Junk ELSE h * chunkLength + from + k - 1]
  BY DEF Copied
<1>8. i * chunkLength = chunkLength * i /\ from \in Nat
  BY <1>2
<1>9. Holds(Copied(h), start + b, n, z)
  <2> HIDE DEF n, from, upto, b, c
  <2>1. \A k \in 1..n : Copied(h)[k] = start + b + k - 1 \/ (Copied(h)[k] = Junk /\ z = "bad")
    <3> SUFFICES ASSUME NEW k \in 1..n
                 PROVE  Copied(h)[k] = start + b + k - 1 \/ (Copied(h)[k] = Junk /\ z = "bad")
      OBVIOUS
    <3>1. InTable(i)
      BY <1>5, <1>6
    <3>2. CASE h = i
      BY <1>1, <1>5, <1>7, <1>8, <3>2 DEF Junk
    <3>3. CASE h = Junk /\ h # i
      BY <1>7, <3>1, <3>3
    <3>4. QED BY <3>2, <3>3
  <2>2. Copied(h) \in Seq(Int) /\ Len(Copied(h)) = n
    BY <1>5, <1>7, <1>8 DEF Junk
  <2>3. QED BY <2>1, <2>2 DEF Holds
<1>10. QED
  <2> HIDE DEF n, from, upto
  <2> QED BY <1>5, <1>9

\* What was read are the first bytes.
BytesInv ==
    pc = "read" => /\ firstChunk <= i /\ i <= lastChunk + 1
                   /\ Holds(buffer, start, Before(start, end, i), zStream)

LEMMA BytesInit == ZipInit => BytesInv
BY DEF ZipInit, BytesInv

LEMMA BytesStep ==
    ASSUME RangeInv, RangeInv', CacheInv, BytesInv, [ZipNext]_zip_vars
    PROVE  BytesInv'
<1> USE LengthsAssumption, ChunkAssumption
<1>1. CASE Read
  <2> DEFINE f == start' \div chunkLength
             l == end' \div chunkLength
  <2>1. start' \in Nat /\ end' \in Nat /\ start' <= end'
    BY DEF RangeInv
  <2>2. f \in Nat /\ l \in Nat /\ f <= l
    BY <2>1, DivNat, DivMono
  <2>3. i' = f /\ buffer' = <<>>
    BY <1>1 DEF Read
  <2>4. Before(start', end', i') = 0
    BY <2>2, <2>3 DEF Before
  <2>5. Holds(buffer', start', 0, zStream')
    BY <2>3 DEF Holds
  <2>6. Holds(buffer', start', Before(start', end', i'), zStream')
    BY <2>4, <2>5
  <2>7. f <= i' /\ i' <= l + 1
    <3> HIDE DEF f, l
    <3> QED BY <2>2, <2>3
  <2>8. firstChunk' = f /\ lastChunk' = l
    BY DEF firstChunk, lastChunk
  <2> HIDE DEF f, l
  <2>9. QED BY <2>6, <2>7, <2>8 DEF BytesInv
<1>2. CASE Use
  <2>1. /\ i \in Nat /\ firstChunk <= i /\ i <= lastChunk /\ start \in Nat
        /\ Holds(buffer, start, Before(start, end, i), zStream)
    BY <1>2 DEF Use, BytesInv, CacheInv, RangeInv
  <2>2. i # NoChunk
    BY <2>1 DEF NoChunk
  <2>3. PICK h : /\ h = i \/ h = Junk
                 /\ InTable(i) /\ zStream' # "bad" => h = i
                 /\ zStream = "bad" => zStream' = "bad"
                 /\ buffer' = buffer \o Copied(h)
    <3>1. ASSUME NEW j \in CachedAt(i), Hit(j)
          PROVE  /\ inBuffer[j] = i \/ inBuffer[j] = Junk
                 /\ InTable(i) /\ zStream' # "bad" => inBuffer[j] = i
                 /\ zStream' = zStream
                 /\ buffer' = buffer \o Copied(inBuffer[j])
      BY <3>1, <2>2 DEF Hit, CachedAt, CacheInv, CacheCoherent
    <3>2. ASSUME NEW j \in Oldest, Miss(j)
          PROVE  \E made \in Inflated(i) :
                     /\ made[1] = i \/ made[1] = Junk
                     /\ InTable(i) /\ zStream' # "bad" => made[1] = i
                     /\ zStream = "bad" => zStream' = "bad"
                     /\ buffer' = buffer \o Copied(made[1])
      BY <3>2 DEF Miss, Inflated, CacheInv
    <3>3. QED BY <1>2, <3>1, <3>2 DEF Use
  <2>4. PICK n \in Nat :
            /\ Holds(Copied(h), start + Before(start, end, i), n, zStream')
            /\ Before(start, end, i) \in Nat
            /\ Before(start, end, i + 1) = Before(start, end, i) + n
    BY <2>1, <2>3, CopiedBytes
  <2>5. Holds(buffer', start, Before(start, end, i + 1), zStream')
    BY <2>1, <2>3, <2>4, Concatenated
  <2>6. i' = i + 1 /\ start' = start /\ end' = end /\ pc' = pc
    BY <1>2 DEF Use
  <2>7. firstChunk' <= i' /\ i' <= lastChunk' + 1
    BY <2>1, <2>6, LastInTable DEF firstChunk, lastChunk
  <2>8. Holds(buffer', start', Before(start', end', i'), zStream')
    BY <2>5, <2>6
  <2>9. QED
    BY <2>7, <2>8 DEF BytesInv
<1>3. CASE Return \/ UseOther \/ Reopen
  BY <1>3 DEF Return, UseOther, Reopen, BytesInv, cache
<1>4. CASE UNCHANGED zip_vars
  BY <1>4 DEF zip_vars, cache, BytesInv, firstChunk, lastChunk
<1>5. QED BY <1>1, <1>2, <1>3, <1>4 DEF ZipNext

\* dictData::read gives the bytes asked for, across chunks, cached or not: as many of
\* them as were asked for, and no other byte unless the stream was spoiled.
THEOREM ReadsExactly == ZipSpec => []BytesExact
<1>1. RangeInv /\ CacheInv /\ BytesInv => BytesExact
  <2> SUFFICES ASSUME RangeInv, CacheInv, BytesInv, pc = "read", i > lastChunk
               PROVE  Holds(buffer, start, end - start, zStream)
    BY DEF BytesExact, Holds
  <2>1. firstChunk \in Nat /\ lastChunk \in Nat /\ i \in Nat /\ firstChunk <= lastChunk
        /\ Holds(buffer, start, Before(start, end, i), zStream)
    BY LastInTable DEF CacheInv, BytesInv
  <2>2. Before(start, end, i) = end - start
    BY <2>1 DEF Before, firstChunk, lastChunk
  <2>3. QED BY <2>1, <2>2
<1>2. RangeInv => length \in Nat \ {0}
  BY LengthsAssumption DEF RangeInv
<1>3. BytesInv /\ RangeInv /\ RangeInv' /\ CacheInv /\ [ZipNext]_zip_vars => BytesInv'
  BY BytesStep
<1>4. QED BY <1>1, <1>2, <1>3, CacheInit, CacheStep, BytesInit, RangeCorrect, PTL DEF ZipSpec

-----------------------------------------------------------------------------
\* How many of the chunks used last the cache keeps: as many as it has room for.
\* Its first slots hold them, each used later than the ones that follow it.
Kept == IF Len(used) < DICT_CACHE_SIZE THEN Len(used) ELSE DICT_CACHE_SIZE

UsedInv ==
    /\ used \in Seq(Nat)
    /\ \A k, m \in 1..Len(used) : used[k] = used[m] => k = m

SlotsInv ==
    /\ stamp \in Nat /\ stamps \in [Slots -> -1..stamp]
    /\ \A j \in Slots : IF j <= Kept THEN chunk[j] # NoChunk /\ stamps[j] \in Nat
                        ELSE chunk[j] = NoChunk /\ stamps[j] = -1

OrderInv ==
    /\ \A j \in 1..Kept : \E k \in 1..Kept : chunk[j] = used[k]
    /\ \A k \in 1..Kept : \E j \in 1..Kept : chunk[j] = used[k]
    /\ \A j, l, k, m \in 1..Kept :
          chunk[j] = used[k] /\ chunk[l] = used[m] /\ k < m => stamps[l] < stamps[j]

RecentInv == UsedInv /\ SlotsInv /\ OrderInv

LEMMA KeptNat ==
    ASSUME UsedInv
    PROVE  Len(used) \in Nat /\ Kept \in Nat /\ 1..Kept \subseteq Slots
           /\ Kept <= Len(used) /\ Kept <= DICT_CACHE_SIZE /\ (Kept < DICT_CACHE_SIZE => Kept = Len(used))
BY SizeAssumption DEF UsedInv, Kept, Slots

LEMMA RecentInit == ZipInit => RecentInv
<1> SUFFICES ASSUME ZipInit PROVE RecentInv
  OBVIOUS
<1>1. used = <<>> /\ Kept = 0
  BY SizeAssumption DEF ZipInit, Kept
<1>2. QED
  BY <1>1 DEF ZipInit, RecentInv, UsedInv, SlotsInv, OrderInv, Slots, NoChunk

\* Where a chunk at place k of those used goes when the one at place p comes first.
PlaceAfter(k, p) == IF k < p THEN k + 1 ELSE k

\* What comes to the front changes nothing in the order of the others.
LEMMA ShiftedOrder ==
    ASSUME NEW x \in Nat, NEW y \in Nat, NEW p \in Nat, x # p, PlaceAfter(x, p) < PlaceAfter(y, p)
    PROVE  x < y
BY DEF PlaceAfter

LEMMA ForemostFacts ==
    ASSUME UsedInv, i \in Nat, Foremost(i)
    PROVE  \E p \in 1..Len(used) + 1 :
              /\ \A k \in 1..Len(used) : used[k] = i <=> k = p
              /\ UsedInv'
              /\ Len(used') = IF p > Len(used) THEN p ELSE Len(used)
              /\ used'[1] = i
              /\ \A k \in 1..Len(used) : k # p => used'[PlaceAfter(k, p)] = used[k]
<1>1. PICK p \in 1..Len(used) + 1 :
        /\ \A k \in 1..Len(used) : used[k] = i <=> k = p
        /\ used' = [k \in 1..(IF p > Len(used) THEN p ELSE Len(used)) |->
                      IF k = 1 THEN i ELSE IF k <= p THEN used[k - 1] ELSE used[k]]
  BY DEF Foremost
<1> DEFINE n == IF p > Len(used) THEN p ELSE Len(used)
<1>2. Len(used) \in Nat /\ n \in Nat \ {0} /\ used \in [1..Len(used) -> Nat]
  BY DEF UsedInv
<1>3. \A k \in 1..n : used'[k] = IF k = 1 THEN i ELSE IF k <= p THEN used[k - 1] ELSE used[k]
  BY <1>1
<1>4. used' \in Seq(Nat) /\ Len(used') = n
  <2>1. \A k \in 1..n : used'[k] \in Nat
    BY <1>2, <1>3
  <2>2. used' = [k \in 1..n |-> used'[k]]
    BY <1>1
  <2> HIDE DEF n
  <2>3. QED BY <1>2, <2>1, <2>2
<1>5. \A k \in 1..Len(used) : k # p => used'[PlaceAfter(k, p)] = used[k]
  BY <1>2, <1>3 DEF PlaceAfter
<1>6. \A k, m \in 1..n : used'[k] = used'[m] => k = m
  BY <1>1, <1>2, <1>3, SMTT(30) DEF UsedInv
<1>7. UsedInv'
  <2> HIDE DEF n
  <2> QED BY <1>4, <1>6 DEF UsedInv
<1>8. used'[1] = i
  BY <1>2, <1>3
<1>9. QED BY <1>1, <1>4, <1>5, <1>7, <1>8

LEMMA InRange ==
    ASSUME NEW n \in Nat, NEW m \in Nat, n <= m, NEW s \in 2..n
    PROVE  s \in 1..m
OBVIOUS

LEMMA KeptFacts ==
    ASSUME UsedInv, UsedInv'
    PROVE  /\ Len(used) \in Nat /\ Kept \in Nat /\ 1..Kept \subseteq Slots /\ Kept <= Len(used)
           /\ Len(used') \in Nat /\ Kept' \in Nat /\ 1..Kept' \subseteq Slots /\ Kept' <= Len(used')
<1>1. Len(used) \in Nat /\ Len(used') \in Nat
  BY DEF UsedInv
<1>2. QED BY <1>1, SizeAssumption DEF Kept, Slots

\* The step, when the chunk comes to slot j and no slot but j loses its chunk.
LEMMA OrderStep ==
    ASSUME CacheInv, RecentInv, UsedInv', i \in Nat,
           NEW p \in 1..Len(used) + 1,
           used'[1] = i, \A k \in 1..Len(used) : k # p => used'[PlaceAfter(k, p)] = used[k],
           NEW j \in Slots, j <= Kept',
           chunk' = [chunk EXCEPT ![j] = i],
           stamp' = stamp + 1, stamps' = [stamps EXCEPT ![j] = stamp + 1],
           Kept' = Kept \/ (Kept' = Kept + 1 /\ j = Kept'),
           \A l \in 1..Kept : l # j =>
               \E k \in 1..Kept : chunk[l] = used[k] /\ k # p /\ PlaceAfter(k, p) <= Kept',
           \A k \in 1..Kept : k # p /\ PlaceAfter(k, p) <= Kept' =>
               \E l \in 1..Kept : l # j /\ chunk[l] = used[k],
           \A k \in 2..Kept' : \E m \in 1..Kept : m # p /\ k = PlaceAfter(m, p)
    PROVE  RecentInv'
<1>1. /\ Len(used) \in Nat /\ Kept \in Nat /\ 1..Kept \subseteq Slots /\ Kept <= Len(used)
      /\ Len(used') \in Nat /\ Kept' \in Nat /\ 1..Kept' \subseteq Slots /\ Kept' <= Len(used')
  BY KeptFacts, Zenon DEF RecentInv
<1>2. /\ chunk \in [Slots -> Nat \cup {NoChunk}] /\ chunk'[j] = i
      /\ \A l \in Slots : l # j => chunk'[l] = chunk[l]
  BY DEF CacheInv
<1>3. /\ stamp \in Nat /\ stamps \in [Slots -> -1..stamp] /\ stamps'[j] = stamp + 1
      /\ \A l \in Slots : l # j => stamps'[l] = stamps[l] /\ stamps[l] <= stamp
  BY DEF RecentInv, SlotsInv
<1>4. SlotsInv'
  <2>1. stamp' \in Nat /\ stamps' \in [Slots -> -1..stamp']
    BY <1>3
  <2>2. ASSUME NEW l \in Slots
        PROVE  IF l <= Kept' THEN chunk'[l] # NoChunk /\ stamps'[l] \in Nat
               ELSE chunk'[l] = NoChunk /\ stamps'[l] = -1
    <3>1. CASE l = j
      BY <3>1, <1>2, <1>3 DEF NoChunk
    <3>2. CASE l # j
      BY <3>2, <1>1, <1>2, <1>3 DEF RecentInv, SlotsInv, Slots
    <3>3. QED BY <3>1, <3>2
  <2>3. Slots' = Slots /\ NoChunk' = NoChunk
    BY DEF Slots, NoChunk
  <2>4. QED BY <2>1, <2>2, <2>3 DEF SlotsInv
<1>5. ASSUME NEW l \in 1..Kept', l # j
      PROVE  l \in 1..Kept /\ \E k \in 1..Kept :
                /\ chunk'[l] = used[k] /\ k # p /\ PlaceAfter(k, p) \in 2..Kept'
                /\ used'[PlaceAfter(k, p)] = chunk'[l]
  <2>1. l \in 1..Kept
    BY <1>1, <1>5
  <2>2. PICK k \in 1..Kept : chunk[l] = used[k] /\ k # p /\ PlaceAfter(k, p) <= Kept'
    BY <2>1, <1>5
  <2>3. PlaceAfter(k, p) \in 2..Kept'
    BY <2>2, <1>1 DEF PlaceAfter
  <2>4. used'[PlaceAfter(k, p)] = used[k]
    BY <2>2, <1>1
  <2>5. chunk'[l] = used[k]
    BY <2>1, <2>2, <1>1, <1>2, <1>5
  <2>6. k # p
    BY <2>2
  <2>7. QED BY <2>1, <2>3, <2>4, <2>5, <2>6
<1>6. \A l \in 1..Kept' : \E k \in 1..Kept' : chunk'[l] = used'[k]
  <2> SUFFICES ASSUME NEW l \in 1..Kept' PROVE \E k \in 1..Kept' : chunk'[l] = used'[k]
    OBVIOUS
  <2>1. CASE l = j
    BY <2>1, <1>1, <1>2, SMTT(30)
  <2>2. CASE l # j
    <3>1. PICK k \in 1..Kept : PlaceAfter(k, p) \in 2..Kept' /\ used'[PlaceAfter(k, p)] = chunk'[l]
      BY <2>2, <1>5
    <3>2. PlaceAfter(k, p) \in 1..Kept'
      BY <3>1, <1>1
    <3>3. QED BY <3>1, <3>2
  <2>3. QED BY <2>1, <2>2
<1>7. \A k \in 1..Kept' : \E l \in 1..Kept' : chunk'[l] = used'[k]
  <2> SUFFICES ASSUME NEW k \in 1..Kept' PROVE \E l \in 1..Kept' : chunk'[l] = used'[k]
    OBVIOUS
  <2>1. CASE k = 1
    BY <2>1, <1>1, <1>2 DEF Slots
  <2>2. CASE k # 1
    <3>1. PICK m \in 1..Kept : m # p /\ k = PlaceAfter(m, p)
      BY <2>2, <1>1
    <3>2. PICK l \in 1..Kept : l # j /\ chunk[l] = used[m]
      BY <3>1, <1>1
    <3>3. l \in 1..Kept'
      BY <1>1
    <3>4. used'[k] = used[m] /\ chunk'[l] = chunk[l]
      <4>1. m \in 1..Len(used) /\ l \in Slots
        BY <1>1
      <4>2. used'[PlaceAfter(m, p)] = used[m]
        BY <4>1, <3>1
      <4>3. chunk'[l] = chunk[l]
        BY <4>1, <3>2, <1>2
      <4>4. QED BY <4>2, <4>3, <3>1
    <3>5. QED BY <3>2, <3>3, <3>4
  <2>3. QED BY <2>1, <2>2
<1>8. ASSUME NEW a \in 1..Kept', NEW b \in 1..Kept', NEW k \in 1..Kept', NEW m \in 1..Kept',
             chunk'[a] = used'[k], chunk'[b] = used'[m], k < m
      PROVE  stamps'[b] < stamps'[a]
  <2>0. k \in 1..Len(used') /\ m \in 1..Len(used') /\ 1 \in 1..Len(used') /\ k \in Nat /\ m \in Nat
    BY <1>1
  <2>1. \A x, y \in 1..Len(used') : used'[x] = used'[y] => x = y
    BY DEF UsedInv
  <2>2. b # j
    <3> SUFFICES ASSUME b = j PROVE FALSE
      OBVIOUS
    <3>1. used'[m] = used'[1]
      BY <1>2, <1>8
    <3>2. m = 1
      BY <3>1, <2>0, <2>1
    <3>3. QED BY <3>2, <1>1, <1>8
  <2>3. PICK y \in 1..Kept : /\ chunk'[b] = used[y] /\ PlaceAfter(y, p) \in 2..Kept'
                             /\ used'[PlaceAfter(y, p)] = chunk'[b] /\ y # p
    BY <2>2, <1>5
  <2>4. m = PlaceAfter(y, p)
    <3>1. used'[PlaceAfter(y, p)] = used'[m]
      BY <2>3, <1>8
    <3>2. PlaceAfter(y, p) \in 1..Len(used')
      BY <2>3, <1>1, InRange
    <3>3. QED BY <3>1, <3>2, <2>0, <2>1
  <2>5. CASE a = j
    BY <2>2, <2>5, <1>1, <1>3
  <2>6. CASE a # j
    <3>1. PICK x \in 1..Kept : /\ chunk'[a] = used[x] /\ PlaceAfter(x, p) \in 2..Kept'
                               /\ used'[PlaceAfter(x, p)] = chunk'[a] /\ x # p
      BY <2>6, <1>5
    <3>2. k = PlaceAfter(x, p)
      <4>1. used'[PlaceAfter(x, p)] = used'[k]
        BY <3>1, <1>8
      <4>2. PlaceAfter(x, p) \in 1..Len(used')
        BY <3>1, <1>1, InRange
      <4>3. QED BY <4>1, <4>2, <2>0, <2>1
    <3>3. x < y
      <4>1. x \in Nat /\ y \in Nat /\ p \in Nat /\ x # p
        BY <2>3, <3>1, <1>1
      <4>2. PlaceAfter(x, p) < PlaceAfter(y, p)
        BY <2>4, <3>2, <1>8, Zenon
      <4>3. QED BY <4>1, <4>2, ShiftedOrder
    <3>4. a \in 1..Kept /\ b \in 1..Kept /\ chunk'[a] = chunk[a] /\ chunk'[b] = chunk[b]
      BY <2>2, <2>6, <1>1, <1>2, <1>5
    <3>5. stamps[b] < stamps[a]
      BY <2>3, <3>1, <3>3, <3>4 DEF RecentInv, OrderInv
    <3>6. QED BY <2>2, <2>6, <3>5, <1>1, <1>3
  <2>7. QED BY <2>5, <2>6
<1>9. OrderInv'
  BY <1>6, <1>7, <1>8 DEF OrderInv
<1>10. QED BY <1>4, <1>9 DEF RecentInv

LEMMA HitRecent ==
    ASSUME CacheInv, RecentInv, NEW j \in CachedAt(i), Hit(j), Stamped(j)
    PROVE  RecentInv'
<1>1. i \in Nat /\ UsedInv /\ Foremost(i)
  BY DEF CacheInv, RecentInv, Stamped
<1>2. PICK p \in 1..Len(used) + 1 :
         /\ \A k \in 1..Len(used) : used[k] = i <=> k = p
         /\ UsedInv' /\ Len(used') = (IF p > Len(used) THEN p ELSE Len(used))
         /\ used'[1] = i
         /\ \A k \in 1..Len(used) : k # p => used'[PlaceAfter(k, p)] = used[k]
  BY <1>1, ForemostFacts
<1>3. Len(used) \in Nat /\ Kept \in Nat /\ 1..Kept \subseteq Slots /\ Kept <= Len(used)
  BY <1>1, KeptNat
<1>4. j \in Slots /\ chunk[j] = i /\ i # NoChunk
  BY <1>1 DEF CachedAt, NoChunk
<1>5. j \in 1..Kept
  BY <1>3, <1>4 DEF RecentInv, SlotsInv, Slots
<1>6. p \in 1..Kept
  <2>1. PICK k \in 1..Kept : chunk[j] = used[k]
    BY <1>5 DEF RecentInv, OrderInv
  <2>2. k \in 1..Len(used) /\ used[k] = i
    BY <2>1, <1>3, <1>4
  <2>3. k = p
    BY <2>2, <1>2
  <2>4. QED BY <2>1, <2>3
<1>7. Kept' = Kept
  BY <1>2, <1>3, <1>6 DEF Kept
<1>8. chunk' = [chunk EXCEPT ![j] = i]
  BY <1>4 DEF Hit, CacheInv
<1>9. \A l \in 1..Kept : l # j =>
          \E k \in 1..Kept : chunk[l] = used[k] /\ k # p /\ PlaceAfter(k, p) <= Kept'
  <2> SUFFICES ASSUME NEW l \in 1..Kept, l # j
               PROVE  \E k \in 1..Kept : chunk[l] = used[k] /\ k # p /\ PlaceAfter(k, p) <= Kept'
    OBVIOUS
  <2>1. PICK k \in 1..Kept : chunk[l] = used[k]
    BY DEF RecentInv, OrderInv
  <2>2. chunk[l] # i
    <3>1. l \in Slots
      BY <1>3
    <3>2. QED BY <3>1, <1>4 DEF CacheInv, CacheCoherent
  <2>3. k # p
    BY <2>1, <2>2, <1>2, <1>3
  <2>4. PlaceAfter(k, p) <= Kept
    BY <2>3, <1>3, <1>6 DEF PlaceAfter
  <2>5. QED BY <2>1, <2>3, <2>4, <1>7
<1>10. \A k \in 1..Kept : k # p /\ PlaceAfter(k, p) <= Kept' =>
           \E l \in 1..Kept : l # j /\ chunk[l] = used[k]
  <2> SUFFICES ASSUME NEW k \in 1..Kept, k # p
               PROVE  \E l \in 1..Kept : l # j /\ chunk[l] = used[k]
    OBVIOUS
  <2>1. PICK l \in 1..Kept : chunk[l] = used[k]
    BY DEF RecentInv, OrderInv
  <2>2. used[k] # i
    BY <1>2, <1>3
  <2>3. QED BY <2>1, <2>2, <1>4
<1>11. \A k \in 2..Kept' : \E m \in 1..Kept : m # p /\ k = PlaceAfter(m, p)
  <2> SUFFICES ASSUME NEW k \in 2..Kept PROVE \E m \in 1..Kept : m # p /\ k = PlaceAfter(m, p)
    BY <1>7
  <2>1. CASE k <= p
    <3>1. k - 1 \in 1..Kept /\ k - 1 # p /\ k = PlaceAfter(k - 1, p)
      BY <2>1, <1>3 DEF PlaceAfter
    <3>2. QED BY <3>1
  <2>2. CASE k > p
    BY <2>2, <1>3 DEF PlaceAfter
  <2>3. QED BY <2>1, <2>2, <1>3
<1>12. stamp' = stamp + 1 /\ stamps' = [stamps EXCEPT ![j] = stamp + 1]
  BY DEF Stamped
<1>13. j <= Kept'
  BY <1>5, <1>7
<1>14. QED
  BY <1>1, <1>2, <1>4, <1>7, <1>8, <1>9, <1>10, <1>11, <1>12, <1>13, OrderStep

\* The slot that was not used for the longest time is the first free one, or holds
\* the last of the chunks kept.
LEMMA OldestSlot ==
    ASSUME CacheInv, RecentInv, NEW j \in Oldest
    PROVE  IF Kept < DICT_CACHE_SIZE THEN j = Kept + 1
           ELSE j \in 1..Kept /\ chunk[j] = used[Kept]
<1>1. Len(used) \in Nat /\ Kept \in Nat /\ 1..Kept \subseteq Slots /\ Kept <= DICT_CACHE_SIZE
  BY KeptNat DEF RecentInv
<1>2. /\ j \in Slots /\ \A k \in Slots : stamps[j] <= stamps[k] /\ (k < j => stamps[j] < stamps[k])
      /\ \A k \in Slots : stamps[k] \in Int
  BY DEF Oldest, RecentInv, SlotsInv
<1>3. CASE Kept < DICT_CACHE_SIZE
  <2>1. Kept + 1 \in Slots /\ stamps[Kept + 1] = -1
    BY <1>1, <1>3, SizeAssumption DEF RecentInv, SlotsInv, Slots
  <2>2. j > Kept
    BY <1>1, <1>2, <2>1 DEF RecentInv, SlotsInv, Slots
  <2>3. stamps[j] = -1
    BY <1>1, <1>2, <2>2 DEF RecentInv, SlotsInv, Slots
  <2>4. ~ (Kept + 1 < j)
    BY <1>2, <2>1, <2>3
  <2>5. QED BY <1>1, <1>2, <1>3, <2>2, <2>4 DEF Slots
<1>4. CASE ~ (Kept < DICT_CACHE_SIZE)
  <2>1. Kept = DICT_CACHE_SIZE /\ j \in 1..Kept /\ Kept \in 1..Kept
    BY <1>1, <1>2, <1>4, SizeAssumption DEF Slots
  <2>2. PICK l \in 1..Kept : chunk[l] = used[Kept]
    BY <2>1 DEF RecentInv, OrderInv
  <2>3. PICK k \in 1..Kept : chunk[j] = used[k]
    BY <2>1 DEF RecentInv, OrderInv
  <2>4. ~ (k < Kept)
    <3> SUFFICES ASSUME k < Kept PROVE FALSE
      OBVIOUS
    <3>1. stamps[l] < stamps[j]
      BY <2>1, <2>2, <2>3 DEF RecentInv, OrderInv
    <3>2. l \in Slots
      BY <1>1
    <3>3. QED BY <3>1, <3>2, <1>2
  <2>5. k = Kept
    BY <2>1, <2>4, <1>1
  <2>6. QED BY <2>1, <2>3, <2>5, <1>4
<1>5. QED BY <1>3, <1>4

LEMMA MissRecent ==
    ASSUME CacheInv, RecentInv, CachedAt(i) = {}, NEW j \in Oldest, Miss(j), Stamped(j)
    PROVE  RecentInv'
<1>1. i \in Nat /\ UsedInv /\ Foremost(i)
  BY DEF CacheInv, RecentInv, Stamped
<1>2. PICK p \in 1..Len(used) + 1 :
         /\ \A k \in 1..Len(used) : used[k] = i <=> k = p
         /\ UsedInv' /\ Len(used') = (IF p > Len(used) THEN p ELSE Len(used))
         /\ used'[1] = i
         /\ \A k \in 1..Len(used) : k # p => used'[PlaceAfter(k, p)] = used[k]
  BY <1>1, ForemostFacts
<1>3. Len(used) \in Nat /\ Kept \in Nat /\ 1..Kept \subseteq Slots /\ Kept <= Len(used)
      /\ Kept <= DICT_CACHE_SIZE /\ (Kept < DICT_CACHE_SIZE => Kept = Len(used))
  BY <1>1, KeptNat
<1>4. j \in Slots /\ \A l \in Slots : chunk[l] # i
  BY DEF Oldest, CachedAt
<1>5. p > Kept
  <2> SUFFICES ASSUME p \in 1..Kept PROVE FALSE
    BY <1>3
  <2>1. PICK l \in 1..Kept : chunk[l] = used[p]
    BY DEF RecentInv, OrderInv
  <2>2. used[p] = i
    BY <1>2, <1>3
  <2>3. QED BY <2>1, <2>2, <1>3, <1>4
<1>6. Kept' = IF Kept < DICT_CACHE_SIZE THEN Kept + 1 ELSE Kept
  BY <1>2, <1>3, <1>5, SizeAssumption DEF Kept
<1>7. /\ Kept < DICT_CACHE_SIZE => j = Kept + 1
      /\ Kept = DICT_CACHE_SIZE => j \in 1..Kept /\ chunk[j] = used[Kept]
  BY <1>3, OldestSlot, SizeAssumption
<1>8. chunk' = [chunk EXCEPT ![j] = i]
  BY DEF Miss
<1>9. \A k \in 1..Kept : k # p /\ PlaceAfter(k, p) = k + 1
  BY <1>3, <1>5 DEF PlaceAfter
<1>10. \A l \in 1..Kept : l # j =>
          \E k \in 1..Kept : chunk[l] = used[k] /\ k # p /\ PlaceAfter(k, p) <= Kept'
  <2> SUFFICES ASSUME NEW l \in 1..Kept, l # j
               PROVE  \E k \in 1..Kept : chunk[l] = used[k] /\ k # p /\ PlaceAfter(k, p) <= Kept'
    OBVIOUS
  <2>1. PICK k \in 1..Kept : chunk[l] = used[k]
    BY DEF RecentInv, OrderInv
  <2>2. CASE Kept < DICT_CACHE_SIZE
    BY <2>1, <2>2, <1>3, <1>6, <1>9
  <2>3. CASE Kept = DICT_CACHE_SIZE
    <3>1. chunk[l] # chunk[j]
      <4>1. l \in Slots /\ chunk[l] # NoChunk
        BY <1>3 DEF RecentInv, SlotsInv, Slots
      <4>2. QED BY <4>1, <1>4 DEF CacheInv, CacheCoherent
    <3>2. k # Kept
      BY <3>1, <2>1, <2>3, <1>7
    <3>3. k + 1 <= Kept'
      BY <3>2, <2>3, <1>3, <1>6
    <3>4. QED BY <2>1, <3>3, <1>9
  <2>4. QED BY <2>2, <2>3, <1>3, SizeAssumption
<1>11. \A k \in 1..Kept : k # p /\ PlaceAfter(k, p) <= Kept' =>
           \E l \in 1..Kept : l # j /\ chunk[l] = used[k]
  <2> SUFFICES ASSUME NEW k \in 1..Kept, k + 1 <= Kept'
               PROVE  \E l \in 1..Kept : l # j /\ chunk[l] = used[k]
    BY <1>9
  <2>1. PICK l \in 1..Kept : chunk[l] = used[k]
    BY DEF RecentInv, OrderInv
  <2>2. CASE Kept < DICT_CACHE_SIZE
    <3>1. l # j
      BY <2>2, <1>3, <1>7
    <3>2. QED BY <3>1, <2>1
  <2>3. CASE Kept = DICT_CACHE_SIZE
    <3>1. k # Kept /\ k \in 1..Len(used) /\ Kept \in 1..Len(used)
      BY <2>3, <1>3, <1>6
    <3>2. used[k] # used[Kept]
      BY <3>1, <1>1 DEF UsedInv
    <3>3. QED BY <3>2, <2>1, <2>3, <1>7
  <2>4. QED BY <2>2, <2>3, <1>3, SizeAssumption
<1>12. \A k \in 2..Kept' : \E m \in 1..Kept : m # p /\ k = PlaceAfter(m, p)
  <2> SUFFICES ASSUME NEW k \in 2..Kept' PROVE \E m \in 1..Kept : m # p /\ k = PlaceAfter(m, p)
    OBVIOUS
  <2>1. k - 1 \in 1..Kept /\ k = (k - 1) + 1
    BY <1>3, <1>6
  <2>2. QED BY <2>1, <1>9
<1>13. stamp' = stamp + 1 /\ stamps' = [stamps EXCEPT ![j] = stamp + 1]
  BY DEF Stamped
<1>14. j <= Kept' /\ (Kept' = Kept \/ (Kept' = Kept + 1 /\ j = Kept'))
  BY <1>3, <1>6, <1>7, SizeAssumption
<1>15. QED
  BY <1>1, <1>2, <1>4, <1>8, <1>10, <1>11, <1>12, <1>13, <1>14, OrderStep

LEMMA RecentStep == CacheInv /\ RecentInv /\ [ZipNext]_zip_vars => RecentInv'
<1> SUFFICES ASSUME CacheInv, RecentInv, [ZipNext]_zip_vars PROVE RecentInv'
  OBVIOUS
<1>1. CASE Use
  BY <1>1, HitRecent, MissRecent DEF Use
<1>2. CASE Read \/ Return \/ UNCHANGED zip_vars
  <2>1. UNCHANGED <<chunk, stamps, stamp, used>>
    BY <1>2 DEF Read, Return, zip_vars, cache
  <2>2. Kept' = Kept /\ Slots' = Slots
    BY <2>1 DEF Kept, Slots
  <2>3. QED BY <2>1, <2>2 DEF RecentInv, UsedInv, SlotsInv, OrderInv
<1>3. CASE UseOther
  <2>1. UNCHANGED <<chunk, stamps, used>> /\ stamp' = stamp + 1
    BY <1>3 DEF UseOther, cache
  <2>2. Kept' = Kept /\ Slots' = Slots
    BY <2>1 DEF Kept, Slots
  <2>3. stamp' \in Nat /\ stamps' \in [Slots' -> -1..stamp']
    BY <2>1, <2>2 DEF RecentInv, SlotsInv
  <2>4. QED BY <2>1, <2>2, <2>3 DEF RecentInv, UsedInv, SlotsInv, OrderInv
<1>4. CASE Reopen
  <2>1. used' = <<>> /\ Kept' = 0 /\ stamp' = 0
        /\ chunk' = [j \in Slots |-> NoChunk] /\ stamps' = [j \in Slots |-> -1]
    BY <1>4, SizeAssumption DEF Reopen, Kept
  <2>2. QED
    BY <2>1 DEF RecentInv, UsedInv, SlotsInv, OrderInv, Slots, NoChunk
<1>5. QED BY <1>1, <1>2, <1>3, <1>4 DEF ZipNext

LEMMA RecentIsKept == CacheInv /\ RecentInv => RecentKept
<1> SUFFICES ASSUME CacheInv, RecentInv
             PROVE  {chunk[j] : j \in Slots} \ {NoChunk} = {used[k] : k \in 1..Kept}
  BY DEF RecentKept, Kept
<1>1. 1..Kept \subseteq Slots /\ Kept \in Nat
  BY KeptNat DEF RecentInv
<1>2. ASSUME NEW j \in Slots, chunk[j] # NoChunk
      PROVE  \E k \in 1..Kept : chunk[j] = used[k]
  <2>1. j \in 1..Kept
    BY <1>1, <1>2 DEF RecentInv, SlotsInv, Slots
  <2>2. QED BY <2>1 DEF RecentInv, OrderInv
<1>3. ASSUME NEW k \in 1..Kept
      PROVE  \E j \in Slots : chunk[j] = used[k] /\ chunk[j] # NoChunk
  <2>1. PICK j \in 1..Kept : chunk[j] = used[k]
    BY DEF RecentInv, OrderInv
  <2>2. j \in Slots /\ j <= Kept
    BY <1>1
  <2>3. QED BY <2>1, <2>2 DEF RecentInv, SlotsInv
<1>4. QED BY <1>2, <1>3

\* dictData::read throws out the chunk that was not used for the longest time: the
\* cache holds the chunks used last, whatever is read and in which order.
THEOREM LeastRecentlyUsed == ZipSpec => []RecentKept
<1>1. RangeInv => length \in Nat \ {0}
  BY LengthsAssumption DEF RangeInv
<1>2. QED
  BY <1>1, CacheInit, CacheStep, RangeCorrect, RecentInit, RecentStep, RecentIsKept, PTL DEF ZipSpec

-----------------------------------------------------------------------------
\* What the assertion count == chunkLength is about: the chunk used last was whole.
LastInv ==
    pc = "read" /\ firstChunk < i /\ InTable(i - 1) =>
        lastCount = Size(i - 1) \/ zStream = "bad"

LEMMA LastStep == RangeInv /\ CacheInv /\ LastInv /\ [ZipNext]_zip_vars => LastInv'
<1> SUFFICES ASSUME RangeInv, CacheInv, LastInv, [ZipNext]_zip_vars PROVE LastInv'
  OBVIOUS
<1>1. CASE Read
  <2>1. i' = firstChunk' /\ i' \in Nat
    <3>1. start' \in Nat
      BY <1>1 DEF Read
    <3>2. QED BY <1>1, <3>1, DivNat, ChunkAssumption DEF Read, firstChunk
  <2>2. QED BY <2>1 DEF LastInv
<1>2. CASE Use
  <2>1. i \in Nat /\ i # NoChunk
    BY DEF CacheInv, NoChunk
  <2>2. InTable(i) => lastCount' = Size(i) \/ zStream' = "bad"
    <3>1. CASE \E j \in CachedAt(i) : Hit(j) /\ Stamped(j)
      BY <3>1, <2>1 DEF Hit, CachedAt, CacheInv, CacheCoherent
    <3>2. CASE \E j \in Oldest : Miss(j) /\ Stamped(j)
      BY <3>2, <2>1 DEF Miss, Inflated, CacheInv
    <3>3. QED BY <1>2, <3>1, <3>2 DEF Use
  <2>3. i' - 1 = i /\ length' = length
    BY <1>2, <2>1 DEF Use
  <2>4. QED BY <2>2, <2>3 DEF LastInv, Size, InTable, chunkCount
<1>3. CASE Return \/ UseOther \/ Reopen
  BY <1>3 DEF Return, UseOther, Reopen, LastInv
<1>4. CASE UNCHANGED zip_vars
  BY <1>4 DEF zip_vars, LastInv, firstChunk, Size, InTable, chunkCount
<1>5. QED BY <1>1, <1>2, <1>3, <1>4 DEF ZipNext

LEMMA WholeBefore ==
    ASSUME RangeInv, NEW c \in Nat, c < lastChunk
    PROVE  Size(c) = chunkLength
<1> USE ChunkAssumption, LengthsAssumption
<1> DEFINE q == end \div chunkLength
<1>1. length \in Nat /\ end \in Nat /\ end <= length
  BY DEF RangeInv
<1>2. q \in Nat /\ chunkLength * q <= end
  BY <1>1, DivNat
<1>3. c < q
  BY DEF lastChunk
<1> HIDE DEF q
<1>4. chunkLength * (c + 1) <= chunkLength * q
  BY <1>2, <1>3
<1>5. c * chunkLength + chunkLength = chunkLength * (c + 1)
  OBVIOUS
<1>6. QED BY <1>1, <1>2, <1>4, <1>5 DEF Size

\* The chunks used last are kept, and every chunk between the first and the last of an
\* article is whole, as dictData::read asserts, unless the stream was spoiled.
THEOREM ChunksAreKept == ZipSpec => []ChunksKept
<1>1. ZipInit => LastInv
  BY DEF ZipInit, LastInv
<1>2. RangeInv /\ CacheInv /\ LastInv => MiddleWhole
  <2> SUFFICES ASSUME RangeInv, CacheInv, LastInv,
                      pc = "read", firstChunk < i - 1, i - 1 < lastChunk
               PROVE  lastCount = chunkLength \/ zStream = "bad"
    BY DEF MiddleWhole
  <2>1. firstChunk \in Nat /\ lastChunk \in Nat /\ chunkCount \in Nat /\ i \in Nat
        /\ lastChunk <= chunkCount
    BY LastInTable DEF CacheInv
  <2>2. \A f, n \in Nat : f < n - 1 => n - 1 \in Nat /\ f < n
    OBVIOUS
  <2>3. i - 1 \in Nat /\ firstChunk < i
    BY <2>1, <2>2
  <2>4. InTable(i - 1)
    BY <2>1, <2>3 DEF InTable
  <2>5. lastCount = Size(i - 1) \/ zStream = "bad"
    BY <2>3, <2>4 DEF LastInv
  <2>6. QED BY <2>3, <2>5, WholeBefore
<1>3. RangeInv => length \in Nat \ {0}
  BY LengthsAssumption DEF RangeInv
<1>4. RecentKept /\ MiddleWhole => ChunksKept
  BY DEF ChunksKept
<1>5. QED
  BY <1>1, <1>2, <1>3, <1>4, LastStep, CacheInit, CacheStep, RangeCorrect,
     LeastRecentlyUsed, PTL DEF ZipSpec

-----------------------------------------------------------------------------
(* The cache files of the indexes.                                         *)

\* A set of natural numbers has a least one.
LEMMA LeastNat ==
    ASSUME NEW T \in SUBSET Nat, T # {}
    PROVE  \E x \in T : \A y \in T : x <= y
<1> DEFINE R == OpToRel(<, Nat)
<1>1. IsWellFoundedOn(R, Nat)
  BY NatLessThanWellFounded
<1>2. \A x, y \in Nat : <<y, x>> \in R <=> y < x
  BY DEF OpToRel
<1> HIDE DEF R
<1>3. PICK x \in T : \A y \in T : ~ (<<y, x>> \in R)
  BY <1>1, WFMin
<1>4. ASSUME NEW y \in T PROVE x <= y
  <2>1. x \in Nat /\ y \in Nat
    OBVIOUS
  <2>2. ~ (y < x)
    BY <1>2, <1>3, <2>1
  <2>3. QED BY <2>1, <2>2
<1>5. QED BY <1>4

-----------------------------------------------------------------------------
(* The chains.                                                             *)

\* Whether a chain ends at a slot.
ChainEnds(u, dir, name, s) ==
    \/ <<dir, name, s>> \notin DOMAIN disk
    \/ disk[<<dir, name, s>>].state = "garbage"
    \/ disk[<<dir, name, s>>].url = u

\* A chain ends, as there are not more slots in it than files: Stop is the first
\* slot where it does.
LEMMA StopFacts ==
    ASSUME IsFiniteSet(DOMAIN disk), NEW u, NEW dir, NEW name
    PROVE  /\ Stop(u, dir, name) \in Nat \ {0}
           /\ ChainEnds(u, dir, name, Stop(u, dir, name))
           /\ \A r \in Nat \ {0} : ChainEnds(u, dir, name, r) => Stop(u, dir, name) <= r
<1> DEFINE n == Cardinality(DOMAIN disk)
           T == {s \in 1..n + 1 : ChainEnds(u, dir, name, s)}
<1>1. n \in Nat
  BY FS_CardinalityType
<1>2. T # {}
  <2> SUFFICES ASSUME T = {} PROVE FALSE
    OBVIOUS
  <2> DEFINE f == [s \in 1..n + 1 |-> <<dir, name, s>>]
  <2>1. \A s \in 1..n + 1 : f[s] \in DOMAIN disk
    BY DEF ChainEnds
  <2>2. f \in Injection(1..n + 1, DOMAIN disk)
    BY <2>1 DEF Injection, IsInjective
  <2>3. Cardinality(1..n + 1) <= n
    BY <2>2, FS_Injection
  <2>4. Cardinality(1..n + 1) = n + 1
    BY <1>1, FS_Interval
  <2>5. QED BY <1>1, <2>3, <2>4
<1>3. T \in SUBSET Nat
  BY <1>1
<1>4. \E x \in T : \A y \in T : x <= y
  BY <1>2, <1>3, LeastNat
<1>5. Stop(u, dir, name) = CHOOSE x \in T : \A y \in T : x <= y
  BY DEF Stop, Min, ChainEnds
<1>6. Stop(u, dir, name) \in T /\ \A y \in T : Stop(u, dir, name) <= y
  BY <1>4, <1>5
<1>7. ASSUME NEW r \in Nat \ {0}, ChainEnds(u, dir, name, r)
      PROVE  Stop(u, dir, name) <= r
  <2>1. CASE r <= n + 1
    BY <1>1, <1>6, <1>7, <2>1
  <2>2. CASE r > n + 1
    BY <1>1, <1>6, <2>2
  <2>3. QED BY <1>1, <2>1, <2>2
<1>8. QED BY <1>1, <1>6, <1>7
-----------------------------------------------------------------------------
(* The invariant.                                                          *)

\* The type of cache a name is one of.
Kind(name) == IF name \in Funcs THEN "server_clt" ELSE name

Opened == [version : Versions \cup {NoVersion},
           cache : [Names -> [made : Versions \cup {NoVersion},
                              from : Places \cup {NoPlace}]]]

FilesInv == IsFiniteSet(DOMAIN disk) /\ CacheTypeOK

\* An index has caches of the session's level, and none before it is loaded.
OpenInv ==
    /\ session \in Sessions
    /\ open \in [Urls -> Opened]
    /\ \A u \in Urls : open[u].version = NoVersion => open[u] = Closed
    /\ \A u \in Urls, n \in Names :
           open[u].cache[n] # NotLoaded => n \in NamesAt(session.level)

\* What is in memory of an index that was not replaced behind the times, and
\* every file of it that is not older, is of the version it has now.
FreshInv ==
    /\ \A u \in Urls : index[u].mtime <= now
    /\ \A u \in Urls \ doubt :
           /\ open[u] # Closed => open[u].version = index[u].version
           /\ \A p \in FilesOf(u) :
                  disk[p].mtime >= index[u].mtime => disk[p].made = index[u].version
           /\ \A n \in Names :
                  open[u].cache[n] # NotLoaded => open[u].cache[n].made = open[u].version

\* A cache that was saved is where its chain ends, or would if no file before it
\* were broken.
KeptAt(k, p) ==
    /\ p \in DOMAIN disk
    /\ p[1] \in {DirOf[k[1]], CacheDir} /\ p[2] = k[2]
    /\ Accepted(k[1], Kind(k[2]), k[3], disk[p])
    /\ \A r \in 1..p[3] - 1 :
           <<p[1], p[2], r>> \in DOMAIN disk /\ disk[<<p[1], p[2], r>>].url # k[1]
KeptInv ==
    \A k \in kept :
        /\ k \in Urls \X Names \X (Funcs \cup {NoFunc})
        /\ k[2] \in Funcs => k[3] = k[2]
        /\ \E p \in DOMAIN disk : KeptAt(k, p)

\* A file that is mapped is a whole one of the index that maps it.
MappedInv ==
    \A u \in Urls, n \in Names :
        LET p == open[u].cache[n].from
        IN  p # NoPlace => /\ p \in DOMAIN disk /\ p[2] = n
                           /\ disk[p].state = "whole" /\ disk[p].url = u

Inv == FilesInv /\ OpenInv /\ FreshInv /\ KeptInv /\ MappedInv

\* No step changes a file that is mapped.
MappedStep ==
    \A u \in Urls, n \in Names :
        LET p == open[u].cache[n].from
        IN  p # NoPlace /\ open'[u] # Closed => disk'[p] = disk[p]

\* What a cache is fetched for: one of the session's level that the index does
\* not have yet, for the version it has in memory or is now.
CanFetch(u, type, func, version) ==
    /\ type \in {"oft", "clt", "server_clt"}
    /\ func \in Funcs \cup {NoFunc}
    /\ type = "server_clt" => func \in ServerFuncs
    /\ Name(type, func) \in NamesAt(session.level)
    /\ open[u].cache[Name(type, func)] = NotLoaded
    /\ version \in Versions
    /\ open[u] = Closed => version = index[u].version
    /\ open[u] # Closed => version = open[u].version

\* A name tells the type of a cache, and its function if it carries it.
LEMMA NameFacts ==
    ASSUME NEW u, NEW type, NEW func, NEW version, CanFetch(u, type, func, version)
    PROVE  /\ Name(type, func) \in Names
           /\ Kind(Name(type, func)) = type
           /\ Name(type, func) \in Funcs => func = Name(type, func)
BY FuncAssumption DEF CanFetch, Name, Names, Kind

\* No slot is the place of no file.
LEMMA NoPlaceFacts == NoPlace \notin Places /\ NoPlace[2] = "oft"
BY DEF NoPlace, Places

-----------------------------------------------------------------------------
(* Looking for a cache, and saving one.                                    *)

\* What load_cache finds is a whole file of the index that is not older.
LEMMA FoundFacts ==
    ASSUME NEW u, NEW type, NEW func, NEW p \in load_cache(u, type, func)
    PROVE  /\ p \in DOMAIN disk
           /\ p[2] = Name(type, func)
           /\ Accepted(u, type, func, disk[p])
<1>1. p \in Found(u, type, func)
  BY DEF load_cache
<1>2. QED BY <1>1 DEF Found, PlaceIn

\* save_cache writes one file at most, where a chain of the name ends.
LEMMA SaveFacts ==
    ASSUME FilesInv, NEW u \in Urls, NEW type, NEW func, Name(type, func) \in Names
    PROVE  /\ \A p \in SavePlaces(u, type, func) :
                  /\ p \in Places
                  /\ p[1] \in {DirOf[u], CacheDir} /\ p[2] = Name(type, func)
                  /\ ChainEnds(u, p[1], p[2], p[3])
                  /\ \A r \in 1..p[3] - 1 : ~ ChainEnds(u, p[1], p[2], r)
           /\ \E q : SavePlaces(u, type, func) \subseteq {q}
<1> DEFINE name == Name(type, func)
<1>1. ASSUME NEW dir \in {DirOf[u], CacheDir}
      PROVE  /\ PlaceIn(u, dir, type, func) = <<dir, name, Stop(u, dir, name)>>
             /\ PlaceIn(u, dir, type, func) \in Places
             /\ ChainEnds(u, dir, name, Stop(u, dir, name))
             /\ \A r \in 1..Stop(u, dir, name) - 1 : ~ ChainEnds(u, dir, name, r)
  <2>1. /\ Stop(u, dir, name) \in Nat \ {0}
        /\ ChainEnds(u, dir, name, Stop(u, dir, name))
        /\ \A r \in Nat \ {0} : ChainEnds(u, dir, name, r) => Stop(u, dir, name) <= r
    BY StopFacts DEF FilesInv
  <2>2. dir \in Dirs
    BY DEF Dirs
  <2>3. QED BY <2>1, <2>2 DEF PlaceIn, Places
<1>2. ASSUME NEW p \in SavePlaces(u, type, func)
      PROVE  \E dir \in {DirOf[u], CacheDir} : p = PlaceIn(u, dir, type, func)
  BY <1>2 DEF SavePlaces
<1>3. ASSUME NEW p \in SavePlaces(u, type, func)
      PROVE  /\ p \in Places
             /\ p[1] \in {DirOf[u], CacheDir} /\ p[2] = name
             /\ ChainEnds(u, p[1], p[2], p[3])
             /\ \A r \in 1..p[3] - 1 : ~ ChainEnds(u, p[1], p[2], r)
  <2>1. PICK dir \in {DirOf[u], CacheDir} : p = PlaceIn(u, dir, type, func)
    BY <1>2
  <2>2. p[1] = dir /\ p[2] = name /\ p[3] = Stop(u, dir, name)
    BY <1>1, <2>1
  <2>3. QED BY <1>1, <2>1, <2>2
<1>4. \E q : SavePlaces(u, type, func) \subseteq {q}
  BY DEF SavePlaces
<1>5. QED BY <1>3, <1>4

\* A file that is saved is one, and of the index unless it is garbage.
LEMMA WrittenFacts ==
    ASSUME FilesInv, NEW u \in Urls, NEW type, NEW func \in Funcs \cup {NoFunc},
           NEW made \in Versions, NEW state \in {"whole", "short", "garbage"}
    PROVE  LET w == Written(u, type, func, made, state)
           IN  /\ w \in File
               /\ w.state = state /\ w.mtime = now /\ w.made = made
               /\ w.url = IF state = "garbage" THEN NoUrl ELSE u
               /\ w.func = IF type = "clt" /\ state # "garbage" THEN func ELSE NoFunc
BY DEF Written, File, FilesInv, CacheTypeOK

\* Saving keeps every file that is not garbage and belongs to another index or
\* has another name; only files with the name are new.
LEMMA SaveStep ==
    ASSUME FilesInv, NEW u \in Urls, NEW type, NEW func, NEW version,
           CanFetch(u, type, func, version),
           NEW state \in {"whole", "short", "garbage"},
           save_cache(u, type, func, version, state), UNCHANGED <<index, writable, now>>
    PROVE  /\ FilesInv'
           /\ DOMAIN disk \subseteq DOMAIN disk'
           /\ \A p \in SavePlaces(u, type, func) :
                  p \in DOMAIN disk' /\ disk'[p] = Written(u, type, func, version, state)
           /\ \A p \in DOMAIN disk' \ SavePlaces(u, type, func) :
                  p \in DOMAIN disk /\ disk'[p] = disk[p]
           /\ \A p \in DOMAIN disk :
                  disk[p].state # "garbage" /\ (disk[p].url # u \/ p[2] # Name(type, func))
                  => p \notin SavePlaces(u, type, func) /\ disk'[p] = disk[p]
<1> DEFINE S == SavePlaces(u, type, func)
           W == Written(u, type, func, version, state)
<1>1. /\ DOMAIN disk' = S \cup DOMAIN disk
      /\ \A p \in S : disk'[p] = W
      /\ \A p \in DOMAIN disk \ S : disk'[p] = disk[p]
  <2>1. disk' = [p \in S \cup DOMAIN disk |-> IF p \in S THEN W ELSE disk[p]]
    BY DEF save_cache
  <2> HIDE DEF S, W
  <2>2. QED BY <2>1
<1>2. Name(type, func) \in Names
  BY NameFacts
<1>3. /\ \A p \in S : /\ p \in Places /\ p[2] = Name(type, func)
                      /\ ChainEnds(u, p[1], p[2], p[3])
      /\ \E q : S \subseteq {q}
  BY <1>2, SaveFacts
<1>4. W \in File
  <2>1. func \in Funcs \cup {NoFunc} /\ version \in Versions
    BY DEF CanFetch
  <2>2. QED BY <2>1, WrittenFacts
<1>5. FilesInv'
  <2>1. IsFiniteSet(DOMAIN disk')
    <3>1. PICK q : S \subseteq {q}
      BY <1>3
    <3>2. IsFiniteSet(DOMAIN disk \cup {q})
      BY FS_AddElement DEF FilesInv
    <3>3. DOMAIN disk' \subseteq DOMAIN disk \cup {q}
      BY <1>1, <3>1
    <3>4. QED BY <3>2, <3>3, FS_Subset
  <2>2. DOMAIN disk' \subseteq Places
    BY <1>1, <1>3 DEF FilesInv, CacheTypeOK
  <2>3. \A p \in DOMAIN disk' : disk'[p] \in File
    <3> HIDE DEF S, W
    <3>1. \A p \in DOMAIN disk : disk[p] \in File
      BY DEF FilesInv, CacheTypeOK, Range
    <3>2. QED BY <1>1, <1>4, <3>1
  <2>4. Range(disk') \subseteq File
    BY <2>3 DEF Range
  <2>5. QED BY <2>1, <2>2, <2>4 DEF FilesInv, CacheTypeOK
<1>6. ASSUME NEW p \in DOMAIN disk, disk[p].state # "garbage",
             disk[p].url # u \/ p[2] # Name(type, func)
      PROVE  p \notin S /\ disk'[p] = disk[p]
  <2>1. p \in Places
    BY DEF FilesInv, CacheTypeOK
  <2>2. <<p[1], p[2], p[3]>> = p
    BY <2>1 DEF Places
  <2>3. p \notin S
    BY <1>3, <1>6, <2>2 DEF ChainEnds
  <2>4. QED BY <1>1, <2>3
<1>7. \A p \in DOMAIN disk' \ S : p \in DOMAIN disk /\ disk'[p] = disk[p]
  <2> HIDE DEF S, W
  <2>1. QED BY <1>1
<1>8. QED BY <1>1, <1>5, <1>6, <1>7

-----------------------------------------------------------------------------
(* The invariant holds at the beginning.                                   *)

\* A session has caches of known names, and functions to sort by.
LEMMA SessionFacts ==
    ASSUME NEW s \in Sessions
    PROVE  /\ s.level \in {0, 1, 2} /\ s.func \in Funcs \cup {NoFunc}
           /\ s.level = 1 => s.func \in Funcs
           /\ NamesAt(s.level) \subseteq Names
           /\ IsFiniteSet(NamesAt(s.level))
<1>1. /\ s.level \in {0, 1, 2} /\ s.func \in Funcs \cup {NoFunc}
      /\ s.level = 1 => s.func \in Funcs
  <2>1. CASE s \in [level : {0}, func : {NoFunc}, CreateCacheFile : BOOLEAN]
    <3>1. s.level \in {0} /\ s.func \in {NoFunc}
      BY <2>1
    <3>2. QED BY <3>1
  <2>2. CASE s \in [level : {1}, func : Funcs, CreateCacheFile : {FALSE}]
    <3>1. s.level \in {1} /\ s.func \in Funcs
      BY <2>2
    <3>2. QED BY <3>1
  <2>3. CASE s \in [level : {2}, func : {NoFunc}, CreateCacheFile : {FALSE}]
    <3>1. s.level \in {2} /\ s.func \in {NoFunc}
      BY <2>3
    <3>2. QED BY <3>1
  <2>4. QED BY <2>1, <2>2, <2>3 DEF Sessions
<1>2. NamesAt(s.level) \in {{"oft"}, {"clt"}, ServerFuncs}
  BY <1>1 DEF NamesAt
<1>3. IsFiniteSet({"oft"}) /\ IsFiniteSet({"clt"}) /\ IsFiniteSet(ServerFuncs)
  BY FuncAssumption, FS_Singleton, FS_Subset
<1>4. QED BY <1>1, <1>2, <1>3 DEF Names

LEMMA InitInv == ASSUME Init PROVE Inv
<1>1. index = [u \in Urls |-> [version |-> CHOOSE v \in Versions : TRUE, mtime |-> 0]]
  BY DEF Init
<1>2. index \in [Urls -> [version : Versions, mtime : 0..MaxTime]]
  <2>1. (CHOOSE v \in Versions : TRUE) \in Versions
    BY VersionAssumption
  <2>2. 0 \in 0..MaxTime
    BY TimeAssumption
  <2>3. QED BY <1>1, <2>1, <2>2
<1>3. session \in Sessions /\ now = 1 /\ writable = Dirs /\ kept = {} /\ doubt = {}
      /\ open = [u \in Urls |-> Closed]
  BY DEF Init
<1>4. /\ IsFiniteSet(DOMAIN disk) /\ DOMAIN disk \subseteq Places
      /\ \A p \in DOMAIN disk : disk[p] = ForeignFile
  <2>1. PICK dir \in {DirOf[u] : u \in Urls} :
            disk \in {<<>>, [p \in {<<dir, n, 1>> : n \in NamesAt(session.level)} |->
                             ForeignFile]}
    BY DEF Init
  <2> DEFINE P == {<<dir, n, 1>> : n \in NamesAt(session.level)}
  <2>2. NamesAt(session.level) \subseteq Names /\ IsFiniteSet(NamesAt(session.level))
    BY <1>3, SessionFacts
  <2>3. P \subseteq Places
    BY <2>1, <2>2 DEF Places, Dirs
  <2>4. IsFiniteSet(P)
    <3> DEFINE f == [p \in P |-> p[2]]
    <3>1. f \in Injection(P, NamesAt(session.level))
      BY DEF Injection, IsInjective
    <3>2. QED BY <2>2, <3>1, FS_Injection
  <2>5. CASE disk = <<>>
    <3>1. DOMAIN disk = {}
      BY <2>5
    <3>2. QED BY <3>1, FS_EmptySet
  <2>6. CASE disk = [p \in P |-> ForeignFile]
    <3>1. DOMAIN disk = P /\ \A p \in P : disk[p] = ForeignFile
      BY <2>6
    <3>2. QED BY <2>3, <2>4, <3>1
  <2>7. QED BY <2>1, <2>5, <2>6
<1>5. FilesInv
  <2>1. ForeignFile \in File
    BY VersionAssumption, TimeAssumption DEF ForeignFile, File
  <2>2. Range(disk) \subseteq File
    BY <1>4, <2>1 DEF Range
  <2>3. now \in 0..MaxTime
    BY <1>3, TimeAssumption
  <2>4. QED BY <1>2, <1>3, <1>4, <2>2, <2>3 DEF FilesInv, CacheTypeOK
<1>6. \A u \in Urls, n \in Names : open[u] = Closed /\ open[u].cache[n] = NotLoaded
  BY <1>3 DEF Closed
<1>7. OpenInv
  <2>1. Closed \in Opened
    BY DEF Closed, Opened, NotLoaded
  <2>2. QED BY <1>3, <1>6, <2>1 DEF OpenInv
<1>8. FreshInv
  <2>1. \A u \in Urls : FilesOf(u) = {}
    BY <1>4, UrlAssumption DEF FilesOf, ForeignFile
  <2>2. QED BY <1>1, <1>3, <1>6, <2>1 DEF FreshInv
<1>9. KeptInv
  BY <1>3 DEF KeptInv
<1>10. MappedInv
  BY <1>6 DEF MappedInv, NotLoaded
<1>11. QED BY <1>5, <1>7, <1>8, <1>9, <1>10 DEF Inv

-----------------------------------------------------------------------------
(* A cache is fetched.                                                     *)

\* The indexes in memory when one uses a cache made of a version, from a place.
UsedBy(u, type, func, version, made, from) ==
    LET Cache == IF open[u].version = NoVersion THEN Closed.cache ELSE open[u].cache
    IN  [open EXCEPT ![u] = [version |-> version,
            cache |-> [Cache EXCEPT ![Name(type, func)] = [made |-> made, from |-> from]]]]

\* What using a cache makes of the indexes in memory: the one has it, with the
\* caches it had, and the others are as they were.
LEMMA UseStep ==
    ASSUME OpenInv, NEW u \in Urls, NEW type, NEW func, NEW version,
           CanFetch(u, type, func, version),
           NEW made \in Versions, NEW from \in Places \cup {NoPlace},
           open' = UsedBy(u, type, func, version, made, from), UNCHANGED session
    PROVE  /\ OpenInv'
           /\ \A v \in Urls \ {u} : open'[v] = open[v]
           /\ open'[u].version = version
           /\ open'[u].cache[Name(type, func)].made = made
           /\ open'[u].cache[Name(type, func)].from = from
           /\ \A n \in Names \ {Name(type, func)} : open'[u].cache[n] = open[u].cache[n]
<1> DEFINE name == Name(type, func)
           Cache == IF open[u].version = NoVersion THEN Closed.cache ELSE open[u].cache
           new == [version |-> version,
                   cache |-> [Cache EXCEPT ![name] = [made |-> made, from |-> from]]]
<1>1. name \in Names
  BY NameFacts
<1>2. /\ open \in [Urls -> Opened] /\ open[u] \in Opened
      /\ session \in Sessions
      /\ open[u].version = NoVersion => open[u] = Closed
      /\ \A v \in Urls, n \in Names :
             open[v].cache[n] # NotLoaded => n \in NamesAt(session.level)
  BY DEF OpenInv
<1>3. Cache = open[u].cache
  BY <1>2
<1>4. Cache \in [Names -> [made : Versions \cup {NoVersion}, from : Places \cup {NoPlace}]]
  BY <1>2, <1>3 DEF Opened
<1>5. version \in Versions /\ version # NoVersion
  BY VersionAssumption DEF CanFetch
<1>6. [Cache EXCEPT ![name] = [made |-> made, from |-> from]]
          \in [Names -> [made : Versions \cup {NoVersion}, from : Places \cup {NoPlace}]]
  BY <1>4
<1>7. new \in Opened
  BY <1>5, <1>6 DEF Opened
<1>8. /\ open' = [open EXCEPT ![u] = new]
      /\ new.version = version
      /\ new.cache = [Cache EXCEPT ![name] = [made |-> made, from |-> from]]
  BY DEF UsedBy
<1>9. /\ new.cache[name] = [made |-> made, from |-> from]
      /\ \A n \in Names \ {name} : new.cache[n] = open[u].cache[n]
  BY <1>1, <1>3, <1>4, <1>8
<1> HIDE DEF new
<1>10. /\ open'[u] = new /\ open' \in [Urls -> Opened]
       /\ \A v \in Urls \ {u} : open'[v] = open[v]
  BY <1>2, <1>7, <1>8
<1>11. \A v \in Urls : open'[v].version = NoVersion => open'[v] = Closed
  BY <1>5, <1>8, <1>10 DEF OpenInv
<1>12. ASSUME NEW v \in Urls, NEW n \in Names, open'[v].cache[n] # NotLoaded
       PROVE  n \in NamesAt(session.level)
  <2>1. CASE v = u /\ n = name
    BY <2>1 DEF CanFetch
  <2>2. CASE ~ (v = u /\ n = name)
    BY <1>2, <1>9, <1>10, <1>12, <2>2
  <2>3. QED BY <2>1, <2>2
<1>13. OpenInv'
  BY <1>2, <1>10, <1>11, <1>12 DEF OpenInv
<1>14. [made |-> made, from |-> from].made = made /\ [made |-> made, from |-> from].from = from
  OBVIOUS
<1>15. QED BY <1>8, <1>9, <1>10, <1>13, <1>14

\* A cache that was saved stays where it is when another one is saved.
LEMMA KeptStays ==
    ASSUME FilesInv, NEW u \in Urls, NEW type, NEW func, NEW version,
           CanFetch(u, type, func, version),
           NEW state \in {"whole", "short", "garbage"},
           save_cache(u, type, func, version, state), UNCHANGED <<index, writable, now>>,
           NEW k \in Urls \X Names \X (Funcs \cup {NoFunc}),
           <<k[1], k[2]>> # <<u, Name(type, func)>>,
           NEW p \in DOMAIN disk, KeptAt(k, p)
    PROVE  p \in DOMAIN disk' /\ KeptAt(k, p)'
<1> DEFINE name == Name(type, func)
           S == SavePlaces(u, type, func)
<1>1. /\ p[1] \in {DirOf[k[1]], CacheDir} /\ p[2] = k[2]
      /\ Accepted(k[1], Kind(k[2]), k[3], disk[p])
      /\ \A r \in 1..p[3] - 1 :
             <<p[1], p[2], r>> \in DOMAIN disk /\ disk[<<p[1], p[2], r>>].url # k[1]
  BY DEF KeptAt
<1>2. disk[p].state = "whole" /\ disk[p].url = k[1]
  BY <1>1 DEF Accepted
<1>3. /\ DOMAIN disk \subseteq DOMAIN disk'
      /\ \A q \in S : /\ q \in DOMAIN disk'
                      /\ disk'[q] = Written(u, type, func, version, state)
      /\ \A q \in DOMAIN disk' \ S : q \in DOMAIN disk /\ disk'[q] = disk[q]
      /\ \A q \in DOMAIN disk :
             disk[q].state # "garbage" /\ (disk[q].url # u \/ q[2] # name)
             => q \notin S /\ disk'[q] = disk[q]
  BY SaveStep
<1>4. k[1] # u \/ k[2] # name
  OBVIOUS
<1>5. disk'[p] = disk[p]
  BY <1>1, <1>2, <1>3, <1>4
<1>6. Accepted(k[1], Kind(k[2]), k[3], disk[p])'
  BY <1>1, <1>5 DEF Accepted, Kind
<1>7. ASSUME NEW r \in 1..p[3] - 1
      PROVE  /\ <<p[1], p[2], r>> \in DOMAIN disk'
             /\ disk'[<<p[1], p[2], r>>].url # k[1]
  <2> DEFINE q == <<p[1], p[2], r>>
  <2>1. q \in DOMAIN disk /\ disk[q].url # k[1] /\ q \in DOMAIN disk'
    BY <1>1, <1>3
  <2>2. CASE q \in S
    <3>1. q[2] = name
      <4>1. name \in Names
        BY NameFacts
      <4>2. QED BY <2>2, <4>1, SaveFacts
    <3>2. q[2] = k[2]
      BY <1>1
    <3>3. k[1] # u
      BY <1>4, <3>1, <3>2
    <3>4. disk'[q].url \in {NoUrl, u}
      <4>1. func \in Funcs \cup {NoFunc} /\ version \in Versions
        BY DEF CanFetch
      <4>2. Written(u, type, func, version, state).url \in {NoUrl, u}
        BY <4>1, WrittenFacts
      <4>3. QED BY <1>3, <2>2, <4>2
    <3>5. NoUrl # k[1]
      BY UrlAssumption
    <3>6. QED BY <2>1, <3>3, <3>4, <3>5
  <2>3. CASE q \notin S
    BY <1>3, <2>1, <2>3
  <2>4. QED BY <2>2, <2>3
<1>8. QED BY <1>1, <1>3, <1>6, <1>7 DEF KeptAt

\* A cache that is saved whole, and of the index as it is now, is where the chain
\* ends.
LEMMA SavedIsKept ==
    ASSUME Inv, NEW u \in Urls, NEW type, NEW func, NEW version,
           CanFetch(u, type, func, version), version = index[u].version,
           save_cache(u, type, func, version, "whole"), UNCHANGED <<index, writable, now>>,
           NEW p \in SavePlaces(u, type, func)
    PROVE  p \in DOMAIN disk' /\ KeptAt(<<u, Name(type, func), func>>, p)'
<1> DEFINE name == Name(type, func)
           k == <<u, name, func>>
<1>1. name \in Names /\ Kind(name) = type
  BY NameFacts
<1>2. /\ p \in Places
      /\ p[1] \in {DirOf[u], CacheDir} /\ p[2] = name
      /\ \A r \in 1..p[3] - 1 : ~ ChainEnds(u, p[1], p[2], r)
  BY <1>1, SaveFacts DEF Inv
<1>3. /\ DOMAIN disk \subseteq DOMAIN disk'
      /\ p \in DOMAIN disk' /\ disk'[p] = Written(u, type, func, version, "whole")
      /\ \A q \in DOMAIN disk' \ SavePlaces(u, type, func) :
             q \in DOMAIN disk /\ disk'[q] = disk[q]
  BY SaveStep DEF Inv
<1>4. func \in Funcs \cup {NoFunc} /\ version \in Versions
  BY DEF CanFetch
<1>5. /\ disk'[p].state = "whole" /\ disk'[p].mtime = now /\ disk'[p].made = version
      /\ disk'[p].url = u /\ disk'[p].func = IF type = "clt" THEN func ELSE NoFunc
  BY <1>3, <1>4, WrittenFacts DEF Inv
<1>6. now >= index[u].mtime
  <2>1. index[u].mtime <= now
    BY DEF Inv, FreshInv
  <2>2. index[u].mtime \in Int /\ now \in Int
    BY TimeAssumption DEF Inv, FilesInv, CacheTypeOK
  <2>3. QED BY <2>1, <2>2
<1>7. Accepted(u, type, func, disk[p])'
  BY <1>5, <1>6 DEF Accepted
<1>8. ASSUME NEW r \in 1..p[3] - 1
      PROVE  <<p[1], p[2], r>> \in DOMAIN disk' /\ disk'[<<p[1], p[2], r>>].url # u
  <2> DEFINE q == <<p[1], p[2], r>>
  <2>1. q \in DOMAIN disk /\ disk[q].url # u
    BY <1>2 DEF ChainEnds
  <2>2. \E z : SavePlaces(u, type, func) \subseteq {z}
    BY <1>1, SaveFacts DEF Inv
  <2>3. q # p
    <3>1. q[3] = r /\ r # p[3]
      BY <1>2 DEF Places
    <3>2. QED BY <3>1
  <2>4. q \notin SavePlaces(u, type, func)
    BY <2>2, <2>3
  <2>5. QED BY <1>3, <2>1, <2>4
<1>9. /\ k[1] = u /\ k[2] = name /\ k[3] = func
  OBVIOUS
<1>10. QED BY <1>1, <1>2, <1>3, <1>7, <1>8, <1>9 DEF KeptAt, Kind

\* What a file that is found or saved says is of the version that is in memory.
LEMMA FetchStep ==
    ASSUME Inv, NEW u \in Urls, NEW type, NEW func, NEW version,
           CanFetch(u, type, func, version), Fetch(u, type, func, version),
           UNCHANGED <<index, writable, now, session, doubt>>
    PROVE  Inv' /\ MappedStep
<1> DEFINE name == Name(type, func)
<1>1. name \in Names /\ (name \in Funcs => func = name)
  BY NameFacts
<1>2. /\ func \in Funcs \cup {NoFunc} /\ version \in Versions
      /\ open[u].cache[name] = NotLoaded
      /\ open[u] = Closed => version = index[u].version
      /\ open[u] # Closed => version = open[u].version
  BY DEF CanFetch
<1>3. u \notin doubt => version = index[u].version
  BY <1>2 DEF Inv, FreshInv
<1>4. \A p \in DOMAIN disk : p \in Places /\ disk[p] \in File
  BY DEF Inv, FilesInv, CacheTypeOK, Range
<1>5. /\ FilesInv /\ OpenInv /\ FreshInv /\ KeptInv /\ MappedInv
  BY DEF Inv
<1>6. version # NoVersion /\ open[u].cache[name].from = NoPlace
  BY <1>2, VersionAssumption DEF NotLoaded
<1>7. ASSUME NEW made \in Versions, NEW from \in Places \cup {NoPlace},
             open' = UsedBy(u, type, func, version, made, from)
      PROVE  /\ OpenInv'
             /\ \A v \in Urls \ {u} : open'[v] = open[v]
             /\ open'[u].version = version
             /\ open'[u].cache[name].made = made /\ open'[u].cache[name].from = from
             /\ \A n \in Names \ {name} : open'[u].cache[n] = open[u].cache[n]
  BY <1>5, <1>7, UseStep
<1>8. ASSUME NEW made \in Versions, NEW from \in Places \cup {NoPlace},
             open' = UsedBy(u, type, func, version, made, from), u \notin doubt => made = version,
             \A v \in Urls \ doubt : \A p \in FilesOf(v)' :
                 disk'[p].mtime >= index[v].mtime => disk'[p].made = index[v].version
      PROVE  FreshInv'
  <2>1. \A v \in Urls : index'[v].mtime <= now'
    BY <1>5 DEF FreshInv
  <2>2. ASSUME NEW v \in Urls \ doubt
        PROVE  /\ open'[v] # Closed => open'[v].version = index[v].version
               /\ \A n \in Names : open'[v].cache[n] # NotLoaded =>
                      open'[v].cache[n].made = open'[v].version
    <3>1. CASE v # u
      <4>1. open'[v] = open[v]
        BY <1>7, <1>8, <3>1
      <4>2. QED BY <1>5, <4>1 DEF FreshInv
    <3>2. CASE v = u
      <4>1. open'[u].version = version /\ version = index[u].version
        BY <1>3, <1>7, <1>8, <3>2
      <4>2. open'[u].cache[name].made = version
        BY <1>7, <1>8, <3>2
      <4>3. ASSUME NEW n \in Names \ {name}, open'[u].cache[n] # NotLoaded
            PROVE  open'[u].cache[n].made = version
        <5>1. open'[u].cache[n] = open[u].cache[n]
          BY <1>7, <1>8
        <5>2. open[u].cache[n].made = open[u].version
          BY <1>5, <3>2, <4>3, <5>1 DEF FreshInv
        <5>3. open[u] # Closed
          BY <4>3, <5>1 DEF Closed
        <5>4. QED BY <1>2, <5>1, <5>2, <5>3
      <4>4. QED BY <3>2, <4>1, <4>2, <4>3
    <3>3. QED BY <3>1, <3>2
  <2>3. QED BY <1>8, <2>1, <2>2 DEF FreshInv
<1>9. ASSUME NEW made \in Versions, NEW from \in Places \cup {NoPlace},
             open' = UsedBy(u, type, func, version, made, from),
             from # NoPlace => /\ from \in DOMAIN disk' /\ from[2] = name
                               /\ disk'[from].state = "whole" /\ disk'[from].url = u,
             \A p \in DOMAIN disk :
                 disk[p].state # "garbage" /\ (disk[p].url # u \/ p[2] # name)
                 => p \in DOMAIN disk' /\ disk'[p] = disk[p]
      PROVE  MappedInv' /\ MappedStep
  <2>1. ASSUME NEW v \in Urls, NEW n \in Names, open[v].cache[n].from # NoPlace
        PROVE  LET p == open[v].cache[n].from
               IN  /\ p \in DOMAIN disk /\ p[2] = n /\ disk[p].state = "whole"
                   /\ disk[p].url = v
                   /\ p \in DOMAIN disk' /\ disk'[p] = disk[p]
    <3> DEFINE p == open[v].cache[n].from
    <3>1. p \in DOMAIN disk /\ p[2] = n /\ disk[p].state = "whole" /\ disk[p].url = v
      BY <1>5, <2>1 DEF MappedInv
    <3>2. v # u \/ n # name
      BY <1>6, <2>1
    <3>3. QED BY <1>9, <3>1, <3>2
  <2>2. MappedStep
    BY <2>1 DEF MappedStep
  <2>3. ASSUME NEW v \in Urls, NEW n \in Names, open'[v].cache[n].from # NoPlace
        PROVE  LET p == open'[v].cache[n].from
               IN  /\ p \in DOMAIN disk' /\ p[2] = n
                   /\ disk'[p].state = "whole" /\ disk'[p].url = v
    <3>1. CASE v = u /\ n = name
      BY <1>7, <1>9, <2>3, <3>1
    <3>2. CASE ~ (v = u /\ n = name)
      <4>1. open'[v].cache[n] = open[v].cache[n]
        BY <1>7, <1>9, <3>2
      <4>2. QED BY <2>1, <2>3, <4>1
    <3>3. QED BY <3>1, <3>2
  <2>4. QED BY <2>2, <2>3 DEF MappedInv
<1>10. ASSUME NEW p \in load_cache(u, type, func), open' = UsedBy(u, type, func, version, disk[p].made, p),
              UNCHANGED <<disk, kept, changes>>
       PROVE  Inv' /\ MappedStep
  <2>1. /\ p \in DOMAIN disk /\ p[2] = name
        /\ disk[p].state = "whole" /\ disk[p].url = u
        /\ disk[p].mtime >= index[u].mtime
    BY FoundFacts DEF Accepted
  <2>2. p \in Places \cup {NoPlace} /\ disk[p].made \in Versions
    BY <1>4, <2>1 DEF File
  <2>3. u \notin doubt => disk[p].made = version
    BY <1>3, <1>5, <2>1 DEF FreshInv, FilesOf
  <2>4. FilesInv' /\ KeptInv'
    BY <1>5, <1>10 DEF FilesInv, CacheTypeOK, KeptInv, KeptAt, Accepted, File
  <2>5. OpenInv'
    BY <1>7, <1>10, <2>2
  <2>6. \A v \in Urls \ doubt : \A q \in FilesOf(v)' :
            disk'[q].mtime >= index[v].mtime => disk'[q].made = index[v].version
    BY <1>5, <1>10 DEF FreshInv, FilesOf
  <2>7. FreshInv'
    BY <1>8, <1>10, <2>2, <2>3, <2>6
  <2>8. MappedInv' /\ MappedStep
    BY <1>9, <1>10, <2>1, <2>2
  <2>9. QED BY <2>4, <2>5, <2>7, <2>8 DEF Inv
<1>11. ASSUME open' = UsedBy(u, type, func, version, version, NoPlace), UNCHANGED <<disk, kept, changes>>
       PROVE  Inv' /\ MappedStep
  <2>1. FilesInv' /\ KeptInv'
    BY <1>5, <1>11 DEF FilesInv, CacheTypeOK, KeptInv, KeptAt, Accepted, File
  <2>2. OpenInv'
    BY <1>2, <1>7, <1>11
  <2>3. \A v \in Urls \ doubt : \A q \in FilesOf(v)' :
            disk'[q].mtime >= index[v].mtime => disk'[q].made = index[v].version
    BY <1>5, <1>11 DEF FreshInv, FilesOf
  <2>4. FreshInv'
    BY <1>2, <1>8, <1>11, <2>3
  <2>5. MappedInv' /\ MappedStep
    BY <1>2, <1>9, <1>11
  <2>6. QED BY <2>1, <2>2, <2>4, <2>5 DEF Inv
<1>12. ASSUME open' = UsedBy(u, type, func, version, version, NoPlace),
              NEW state \in {"whole", "short", "garbage"},
              save_cache(u, type, func, version, state),
              kept' = {k \in kept : <<k[1], k[2]>> # <<u, name>>} \cup
                      IF /\ state = "whole" /\ SavePlaces(u, type, func) # {}
                         /\ version = index[u].version
                      THEN {<<u, name, func>>} ELSE {}
       PROVE  Inv' /\ MappedStep
  <2> DEFINE S == SavePlaces(u, type, func)
  <2>1. /\ FilesInv'
        /\ DOMAIN disk \subseteq DOMAIN disk'
        /\ \A p \in S : p \in DOMAIN disk' /\ disk'[p] = Written(u, type, func, version, state)
        /\ \A p \in DOMAIN disk' \ S : p \in DOMAIN disk /\ disk'[p] = disk[p]
        /\ \A p \in DOMAIN disk :
               disk[p].state # "garbage" /\ (disk[p].url # u \/ p[2] # name)
               => p \notin S /\ disk'[p] = disk[p]
    BY <1>5, <1>12, SaveStep
  <2>2. OpenInv'
    BY <1>2, <1>7, <1>12
  <2>3. ASSUME NEW v \in Urls \ doubt, NEW q \in FilesOf(v)',
               disk'[q].mtime >= index[v].mtime
        PROVE  disk'[q].made = index[v].version
    <3>1. CASE q \in S
      <4>1. disk'[q].made = version /\ disk'[q].url \in {NoUrl, u}
        BY <1>2, <1>5, <2>1, <3>1, WrittenFacts
      <4>2. disk'[q].url = v
        BY DEF FilesOf
      <4>3. v = u
        BY <4>1, <4>2, UrlAssumption
      <4>4. QED BY <1>3, <4>1, <4>3
    <3>2. CASE q \notin S
      <4>1. q \in DOMAIN disk /\ disk'[q] = disk[q]
        BY <2>1, <3>2 DEF FilesOf
      <4>2. q \in FilesOf(v)
        BY <4>1 DEF FilesOf
      <4>3. QED BY <1>5, <2>3, <4>1, <4>2 DEF FreshInv
    <3>3. QED BY <3>1, <3>2
  <2>4. FreshInv'
    BY <1>2, <1>8, <1>12, <2>3
  <2>5. MappedInv' /\ MappedStep
    BY <1>2, <1>9, <1>12, <2>1
  <2>6. ASSUME NEW k \in kept'
        PROVE  /\ k \in Urls \X Names \X (Funcs \cup {NoFunc})
               /\ k[2] \in Funcs => k[3] = k[2]
               /\ \E p \in DOMAIN disk' : KeptAt(k, p)'
    <3>1. CASE k \in kept /\ <<k[1], k[2]>> # <<u, name>>
      <4>1. /\ k \in Urls \X Names \X (Funcs \cup {NoFunc})
            /\ k[2] \in Funcs => k[3] = k[2]
        BY <1>5, <3>1 DEF KeptInv
      <4>2. PICK p \in DOMAIN disk : KeptAt(k, p)
        BY <1>5, <3>1 DEF KeptInv
      <4>3. p \in DOMAIN disk' /\ KeptAt(k, p)'
        BY <1>5, <1>12, <3>1, <4>1, <4>2, KeptStays
      <4>4. QED BY <4>1, <4>3
    <3>2. CASE ~ (k \in kept /\ <<k[1], k[2]>> # <<u, name>>)
      <4>1. state = "whole" /\ S # {} /\ version = index[u].version /\ k = <<u, name, func>>
        BY <1>12, <3>2
      <4>2. PICK p \in S : TRUE
        BY <4>1
      <4>3. p \in DOMAIN disk' /\ KeptAt(<<u, name, func>>, p)'
        BY <1>12, <4>1, <4>2, SavedIsKept
      <4>4. QED BY <1>1, <1>2, <4>1, <4>3
    <3>3. QED BY <3>1, <3>2
  <2>7. KeptInv'
    BY <2>6 DEF KeptInv
  <2>8. QED BY <2>1, <2>2, <2>4, <2>5, <2>7 DEF Inv
<1>13. QED BY <1>10, <1>11, <1>12 DEF Fetch, UsedBy

-----------------------------------------------------------------------------
(* The steps.                                                              *)

\* An index is loaded.
LEMMA LoadStep ==
    ASSUME Inv, NEW u \in Urls, Load(u)
    PROVE  Inv' /\ MappedStep
<1>1. /\ open[u].version = NoVersion
      /\ UNCHANGED <<index, writable, now, session, doubt>>
  BY DEF Load
<1>2. /\ open[u] = Closed /\ session \in Sessions /\ open \in [Urls -> Opened]
      /\ index[u].version \in Versions
  BY <1>1 DEF Inv, OpenInv, FilesInv, CacheTypeOK
<1>3. /\ session.level \in {0, 1, 2}
      /\ session.level = 1 => session.func \in Funcs
      /\ NamesAt(session.level) \subseteq Names
  BY <1>2, SessionFacts
<1>4. \A n \in Names : open[u].cache[n] = NotLoaded
  BY <1>2 DEF Closed
<1>5. CASE session.level = 0
  <2>1. Fetch(u, "oft", NoFunc, index[u].version)
    BY <1>5 DEF Load
  <2>2. CanFetch(u, "oft", NoFunc, index[u].version)
    BY <1>2, <1>4, <1>5 DEF CanFetch, Name, NamesAt, Names
  <2>3. QED BY <1>1, <2>1, <2>2, FetchStep
<1>6. CASE session.level = 1
  <2>1. Fetch(u, "clt", session.func, index[u].version)
    BY <1>6 DEF Load
  <2>2. CanFetch(u, "clt", session.func, index[u].version)
    BY <1>2, <1>3, <1>4, <1>6 DEF CanFetch, Name, NamesAt, Names
  <2>3. QED BY <1>1, <2>1, <2>2, FetchStep
<1>7. CASE session.level = 2
  <2> DEFINE new == [Closed EXCEPT !.version = index[u].version]
  <2>1. open' = [open EXCEPT ![u] = new] /\ UNCHANGED <<disk, kept, changes>>
    BY <1>7 DEF Load
  <2>2. new.version = index[u].version /\ new.cache = Closed.cache /\ new \in Opened
    BY <1>2 DEF Closed, Opened, NotLoaded
  <2>3. \A n \in Names : new.cache[n] = NotLoaded
    BY <2>2 DEF Closed
  <2> HIDE DEF new
  <2>4. /\ open'[u] = new /\ open' \in [Urls -> Opened]
        /\ \A v \in Urls \ {u} : open'[v] = open[v]
    BY <1>2, <2>1, <2>2
  <2>5. FilesInv' /\ KeptInv'
    BY <1>1, <2>1 DEF Inv, FilesInv, CacheTypeOK, KeptInv, KeptAt, Accepted, File
  <2>6. OpenInv'
    <3>1. new.version # NoVersion
      BY <1>2, <2>2, VersionAssumption
    <3>2. \A v \in Urls : open'[v].version = NoVersion => open'[v] = Closed
      BY <2>4, <3>1 DEF Inv, OpenInv
    <3>3. \A v \in Urls, n \in Names :
              open'[v].cache[n] # NotLoaded => n \in NamesAt(session.level)
      BY <2>3, <2>4 DEF Inv, OpenInv
    <3>4. QED BY <1>1, <1>2, <2>4, <3>2, <3>3 DEF OpenInv
  <2>7. FreshInv'
    <3>1. \A v \in Urls \ doubt :
              /\ open'[v] # Closed => open'[v].version = index[v].version
              /\ \A n \in Names : open'[v].cache[n] # NotLoaded =>
                     open'[v].cache[n].made = open'[v].version
      BY <2>2, <2>3, <2>4 DEF Inv, FreshInv
    <3>2. \A v \in Urls \ doubt : \A p \in FilesOf(v)' :
              disk'[p].mtime >= index[v].mtime => disk'[p].made = index[v].version
      BY <2>1 DEF Inv, FreshInv, FilesOf
    <3>3. \A v \in Urls : index'[v].mtime <= now'
      BY <1>1 DEF Inv, FreshInv
    <3>4. QED BY <1>1, <3>1, <3>2, <3>3 DEF FreshInv
  <2>8. \A v \in Urls, n \in Names : open'[v].cache[n].from = open[v].cache[n].from
    BY <1>4, <2>3, <2>4
  <2>9. MappedInv' /\ MappedStep
    BY <2>1, <2>8 DEF Inv, MappedInv, MappedStep
  <2>10. QED BY <2>5, <2>6, <2>7, <2>9 DEF Inv
<1>8. QED BY <1>3, <1>5, <1>6, <1>7

\* An order is asked for.
LEMMA CollateStep ==
    ASSUME Inv, NEW u \in Urls, NEW f \in ServerFuncs, collate_load(u, f)
    PROVE  Inv' /\ MappedStep
<1>1. /\ session.level = 2 /\ open[u].version # NoVersion /\ open[u].cache[f] = NotLoaded
      /\ Fetch(u, "server_clt", f, open[u].version)
      /\ UNCHANGED <<index, writable, now, session, doubt>>
  BY DEF collate_load
<1>2. open[u].version \in Versions
  BY <1>1 DEF Inv, OpenInv, Opened
<1>3. open[u] # Closed
  BY <1>1 DEF Closed
<1>4. CanFetch(u, "server_clt", f, open[u].version)
  BY <1>1, <1>2, <1>3, FuncAssumption DEF CanFetch, Name, NamesAt
<1>5. QED BY <1>1, <1>4, FetchStep

\* The program is started again.
LEMMA RestartStep ==
    ASSUME Inv, NEW s \in Sessions, Restart(s)
    PROVE  Inv' /\ MappedStep
<1>1. /\ session' = s /\ open' = [u \in Urls |-> Closed]
      /\ UNCHANGED <<disk, index, writable, now, kept, doubt, changes>>
  BY DEF Restart, cacheVars
<1>2. \A u \in Urls, n \in Names : open'[u] = Closed /\ open'[u].cache[n] = NotLoaded
  BY <1>1 DEF Closed
<1>3. FilesInv' /\ KeptInv'
  BY <1>1 DEF Inv, FilesInv, CacheTypeOK, KeptInv, KeptAt, Accepted, File
<1>4. OpenInv'
  <2>1. Closed \in Opened
    BY DEF Closed, Opened, NotLoaded
  <2>2. QED BY <1>1, <1>2, <2>1 DEF OpenInv
<1>5. FreshInv'
  BY <1>1, <1>2 DEF Inv, FreshInv, FilesOf
<1>6. MappedInv' /\ MappedStep
  BY <1>2 DEF MappedInv, MappedStep, NotLoaded
<1>7. QED BY <1>3, <1>4, <1>5, <1>6 DEF Inv

\* An index is replaced.
LEMMA ReplaceStep ==
    ASSUME Inv, NEW u \in Urls, NEW v \in Versions, NEW t \in {0, now}, Replace(u, v, t)
    PROVE  Inv' /\ MappedStep
<1>1. /\ index' = [index EXCEPT ![u] = [version |-> v, mtime |-> t]]
      /\ doubt' = doubt \cup IF open[u] # Closed \/ \E p \in FilesOf(u) : disk[p].mtime >= t
                             THEN {u} ELSE {}
      /\ kept' = {k \in kept : k[1] # u}
      /\ UNCHANGED <<disk, writable, now, session, open>>
  BY DEF Replace, ReplaceIndex
<1>2. /\ index \in [Urls -> [version : Versions, mtime : 0..MaxTime]]
      /\ now \in 0..MaxTime
  BY DEF Inv, FilesInv, CacheTypeOK
<1>3. t \in 0..MaxTime /\ t <= now
  BY <1>2, TimeAssumption
<1>4. /\ index' \in [Urls -> [version : Versions, mtime : 0..MaxTime]]
      /\ index'[u].version = v /\ index'[u].mtime = t
      /\ \A w \in Urls \ {u} : index'[w] = index[w]
  <2>1. [version |-> v, mtime |-> t] \in [version : Versions, mtime : 0..MaxTime]
    BY <1>3
  <2>2. /\ index' \in [Urls -> [version : Versions, mtime : 0..MaxTime]]
        /\ index'[u] = [version |-> v, mtime |-> t]
        /\ \A w \in Urls \ {u} : index'[w] = index[w]
    BY <1>1, <1>2, <2>1
  <2>3. QED BY <2>2
<1>5. FilesInv'
  BY <1>1, <1>4 DEF Inv, FilesInv, CacheTypeOK, File
<1>6. OpenInv'
  BY <1>1 DEF Inv, OpenInv
<1>7. FreshInv'
  <2>1. \A w \in Urls : index'[w].mtime <= now'
    BY <1>1, <1>3, <1>4 DEF Inv, FreshInv
  <2>2. ASSUME NEW w \in Urls \ doubt'
        PROVE  /\ open'[w] # Closed => open'[w].version = index'[w].version
               /\ \A p \in FilesOf(w)' :
                      disk'[p].mtime >= index'[w].mtime => disk'[p].made = index'[w].version
               /\ \A n \in Names : open'[w].cache[n] # NotLoaded =>
                      open'[w].cache[n].made = open'[w].version
    <3>1. w \notin doubt /\ FilesOf(w)' = FilesOf(w) /\ open' = open /\ disk' = disk
      BY <1>1 DEF FilesOf
    <3>2. CASE w # u
      <4>1. index'[w] = index[w]
        BY <1>4, <3>2
      <4>2. QED BY <3>1, <4>1 DEF Inv, FreshInv
    <3>3. CASE w = u
      <4>1. open[u] = Closed /\ \A p \in FilesOf(u) : ~ (disk[p].mtime >= t)
        BY <1>1, <3>3
      <4>2. QED BY <1>4, <3>1, <3>3, <4>1 DEF Closed
    <3>4. QED BY <3>2, <3>3
  <2>3. QED BY <2>1, <2>2 DEF FreshInv
<1>8. KeptInv'
  <2>1. ASSUME NEW k \in kept'
        PROVE  /\ k \in Urls \X Names \X (Funcs \cup {NoFunc})
               /\ k[2] \in Funcs => k[3] = k[2]
               /\ \E p \in DOMAIN disk' : KeptAt(k, p)'
    <3>1. k \in kept /\ k[1] # u
      BY <1>1
    <3>2. /\ k \in Urls \X Names \X (Funcs \cup {NoFunc})
          /\ k[2] \in Funcs => k[3] = k[2]
      BY <3>1 DEF Inv, KeptInv
    <3>3. PICK p \in DOMAIN disk : KeptAt(k, p)
      BY <3>1 DEF Inv, KeptInv
    <3>4. k[1] \in Urls \ {u}
      BY <3>1, <3>2
    <3>5. index'[k[1]] = index[k[1]]
      BY <1>4, <3>4
    <3>6. KeptAt(k, p)'
      BY <1>1, <3>3, <3>5 DEF KeptAt, Accepted, Kind
    <3>7. QED BY <1>1, <3>2, <3>6
  <2>2. QED BY <2>1 DEF KeptInv
<1>9. MappedInv' /\ MappedStep
  BY <1>1 DEF Inv, MappedInv, MappedStep
<1>10. QED BY <1>5, <1>6, <1>7, <1>8, <1>9 DEF Inv

\* Time goes on, or a right to write is given or taken.
LEMMA AroundStep ==
    ASSUME Inv, Around
    PROVE  Inv' /\ MappedStep
<1>1. /\ UNCHANGED <<disk, index, session, open, kept, doubt>>
      /\ now' \in 0..MaxTime /\ now <= now' /\ writable' \subseteq Dirs
  <2>1. now \in 0..MaxTime /\ writable \subseteq Dirs
    BY DEF Inv, FilesInv, CacheTypeOK
  <2>2. CASE Tick
    BY <2>1, <2>2, TimeAssumption DEF Around, Tick
  <2>3. CASE \E dir \in Dirs : Permit(dir)
    BY <2>1, <2>3, TimeAssumption DEF Around, Permit
  <2>4. QED BY <2>2, <2>3 DEF Around
<1>2. FilesInv' /\ KeptInv'
  BY <1>1 DEF Inv, FilesInv, CacheTypeOK, KeptInv, KeptAt, Accepted, File
<1>3. OpenInv'
  BY <1>1 DEF Inv, OpenInv
<1>4. FreshInv'
  <2>1. ASSUME NEW u \in Urls
        PROVE  index'[u].mtime <= now'
    <3>1. index[u].mtime <= now /\ index[u].mtime \in 0..MaxTime /\ now \in 0..MaxTime
      BY DEF Inv, FreshInv, FilesInv, CacheTypeOK
    <3>2. QED BY <1>1, <3>1, TimeAssumption
  <2>2. QED BY <1>1, <2>1 DEF Inv, FreshInv, FilesOf
<1>5. MappedInv' /\ MappedStep
  BY <1>1 DEF Inv, MappedInv, MappedStep
<1>6. QED BY <1>2, <1>3, <1>4, <1>5 DEF Inv

\* Every step keeps the invariant, and the files that are mapped.
LEMMA NextInv ==
    ASSUME Inv, [Next]_vars
    PROVE  Inv' /\ MappedStep
<1>1. CASE UNCHANGED vars
  <2>1. UNCHANGED <<disk, index, writable, now, session, open, kept, doubt, changes>>
    BY <1>1 DEF vars, cacheVars
  <2>2. FilesInv' /\ KeptInv'
    BY <2>1 DEF Inv, FilesInv, CacheTypeOK, KeptInv, KeptAt, Accepted, File
  <2>3. OpenInv' /\ FreshInv' /\ MappedInv' /\ MappedStep
    BY <2>1 DEF Inv, OpenInv, FreshInv, FilesOf, MappedInv, MappedStep
  <2>4. QED BY <2>2, <2>3 DEF Inv
<1>2. CASE \E u \in Urls : Load(u)
  BY <1>2, LoadStep
<1>3. CASE \E u \in Urls, f \in ServerFuncs : collate_load(u, f)
  BY <1>3, CollateStep
<1>4. CASE \E s \in Sessions : Restart(s)
  BY <1>4, RestartStep
<1>5. CASE \E u \in Urls, v \in Versions, t \in {0, now} : Replace(u, v, t)
  BY <1>5, ReplaceStep
<1>6. CASE Around
  BY <1>6, AroundStep
<1>7. QED BY <1>1, <1>2, <1>3, <1>4, <1>5, <1>6 DEF Next

-----------------------------------------------------------------------------
(* The theorems.                                                           *)

\* A cache that was saved is found unless a broken file is before it.
LEMMA KeptIsFound ==
    ASSUME Inv
    PROVE  SavedIsFound
<1> SUFFICES ASSUME NEW k \in kept, ~ \E q \in DOMAIN disk : disk[q].state = "garbage"
             PROVE  load_cache(k[1], Kind(k[2]), k[3]) # {}
  BY DEF SavedIsFound, Kind
<1>1. /\ k \in Urls \X Names \X (Funcs \cup {NoFunc})
      /\ k[2] \in Funcs => k[3] = k[2]
  BY DEF Inv, KeptInv
<1>2. PICK p \in DOMAIN disk : KeptAt(k, p)
  BY DEF Inv, KeptInv
<1>3. /\ p[1] \in {DirOf[k[1]], CacheDir} /\ p[2] = k[2]
      /\ Accepted(k[1], Kind(k[2]), k[3], disk[p])
      /\ \A r \in 1..p[3] - 1 :
             <<p[1], p[2], r>> \in DOMAIN disk /\ disk[<<p[1], p[2], r>>].url # k[1]
  BY <1>2 DEF KeptAt
<1>4. p \in Places
  BY DEF Inv, FilesInv, CacheTypeOK
<1>5. p = <<p[1], p[2], p[3]>> /\ p[3] \in Nat \ {0}
  BY <1>4 DEF Places
<1>6. Name(Kind(k[2]), k[3]) = k[2]
  <2>1. k[2] \in Names
    BY <1>1
  <2>2. QED BY <1>1, <2>1, FuncAssumption DEF Names, Name, Kind
<1>7. Stop(k[1], p[1], k[2]) = p[3]
  <2> DEFINE s == Stop(k[1], p[1], k[2])
  <2>1. /\ s \in Nat \ {0} /\ ChainEnds(k[1], p[1], k[2], s)
        /\ \A r \in Nat \ {0} : ChainEnds(k[1], p[1], k[2], r) => s <= r
    BY StopFacts DEF Inv, FilesInv
  <2>2. disk[p].url = k[1]
    BY <1>3 DEF Accepted
  <2>3. ChainEnds(k[1], p[1], k[2], p[3])
    BY <1>3, <1>5, <2>2 DEF ChainEnds
  <2>4. s <= p[3]
    BY <1>5, <2>1, <2>3
  <2>5. ~ (s < p[3])
    <3> SUFFICES ASSUME s < p[3] PROVE FALSE
      OBVIOUS
    <3>1. s \in 1..p[3] - 1
      BY <1>5, <2>1
    <3>2. <<p[1], p[2], s>> \in DOMAIN disk /\ disk[<<p[1], p[2], s>>].url # k[1]
      BY <1>3, <3>1
    <3>3. QED BY <1>3, <2>1, <3>2 DEF ChainEnds
  <2>6. QED BY <1>5, <2>1, <2>4, <2>5
<1>8. PlaceIn(k[1], p[1], Kind(k[2]), k[3]) = p
  BY <1>3, <1>5, <1>6, <1>7 DEF PlaceIn
<1>9. p \in Found(k[1], Kind(k[2]), k[3])
  BY <1>3, <1>8 DEF Found
<1>10. QED BY <1>9 DEF load_cache

\* The invariant: the types, what the times tell of the versions files were made
\* of, where the caches that were saved are, and the files that are mapped.
THEOREM CachesInvariant == Spec => []Inv
<1>1. Init => Inv
  BY InitInv
<1>2. Inv /\ [Next]_vars => Inv'
  BY NextInv
<1>3. QED BY <1>1, <1>2, PTL DEF Spec

\* A cache an index uses was made of the words it has in memory unless the index
\* was replaced behind the times, and one that was saved is found again
\* (get_cache_loadfile, get_cache_savefile) - for any number of indexes of one
\* name, versions and functions, and chains of any length.
THEOREM CachesAreSound == Spec => []CachesSound
<1>1. Inv => CachesSound
  <2>1. Inv => LoadedMatches
    BY DEF Inv, FreshInv, LoadedMatches
  <2>2. QED BY <2>1, KeptIsFound DEF CachesSound
<1>2. QED BY <1>1, CachesInvariant, PTL

\* No file that is mapped is written to (save_cache).
THEOREM MappedStaysIntact == Spec => MappedIntact
<1>1. Inv /\ [Next]_vars =>
          [\A u \in Urls, n \in Names :
               LET p == open[u].cache[n].from
               IN  p # NoPlace /\ open'[u] # Closed => disk'[p] = disk[p]]_vars
  BY NextInv DEF MappedStep
<1>2. QED BY <1>1, CachesInvariant, PTL DEF Spec, MappedIntact

-----------------------------------------------------------------------------
(* Comparing by bytes and by weights.                                      *)

\* Whether one sequence of numbers comes before another: at the first place at
\* which they differ it has the smaller number, or has ended.
Less(a, b) == \E k \in Nat \ {0} : /\ At(a, k) < At(b, k)
                                   /\ \A m \in Nat \ {0} : m < k => At(a, m) = At(b, m)

LEMMA AtFacts ==
    ASSUME NEW a \in Seq(Nat)
    PROVE  /\ Len(a) \in Nat
           /\ \A k \in Nat \ {0} : At(a, k) \in Int
           /\ \A k \in Nat \ {0} : k <= Len(a) => At(a, k) = a[k] /\ At(a, k) \in Nat
           /\ \A k \in Nat \ {0} : k > Len(a) => At(a, k) = -1
<1>1. Len(a) \in Nat /\ \A k \in 1..Len(a) : a[k] \in Nat
  OBVIOUS
<1>2. ASSUME NEW k \in Nat \ {0}, k <= Len(a) PROVE At(a, k) = a[k] /\ At(a, k) \in Nat
  <2>1. k \in 1..Len(a)
    BY <1>1, <1>2
  <2>2. QED BY <1>1, <1>2, <2>1 DEF At
<1>3. ASSUME NEW k \in Nat \ {0}, k > Len(a) PROVE At(a, k) = -1
  <2>1. ~(k <= Len(a))
    BY <1>1, <1>3
  <2>2. QED BY <2>1 DEF At
<1>4. ASSUME NEW k \in Nat \ {0} PROVE At(a, k) \in Int
  <2>1. k <= Len(a) \/ k > Len(a)
    BY <1>1
  <2>2. QED BY <1>2, <1>3, <2>1
<1>5. QED BY <1>1, <1>2, <1>3, <1>4

\* Sequences that differ nowhere are the same.
LEMMA SameEverywhere ==
    ASSUME NEW a \in Seq(Nat), NEW b \in Seq(Nat),
           \A k \in Nat \ {0} : At(a, k) = At(b, k)
    PROVE  a = b
<1>1. ASSUME NEW s \in Seq(Nat), NEW t \in Seq(Nat),
             \A k \in Nat \ {0} : At(s, k) = At(t, k)
      PROVE  Len(s) <= Len(t)
  <2> SUFFICES ASSUME Len(s) > Len(t) PROVE FALSE
    BY AtFacts
  <2>1. Len(s) \in Nat \ {0}
    BY AtFacts
  <2>2. At(s, Len(s)) \in Nat
    BY <2>1, AtFacts
  <2>3. At(t, Len(s)) = -1
    BY <2>1, AtFacts
  <2>4. QED BY <1>1, <2>1, <2>2, <2>3
<1>2. Len(a) = Len(b) /\ Len(a) \in Nat
  <2>1. Len(a) <= Len(b)
    BY <1>1
  <2>2. Len(b) <= Len(a)
    BY <1>1
  <2>3. QED BY <2>1, <2>2, AtFacts
<1>3. ASSUME NEW k \in 1..Len(a) PROVE a[k] = b[k]
  <2>1. k \in Nat \ {0} /\ k <= Len(a) /\ k <= Len(b)
    BY <1>2
  <2>2. At(a, k) = a[k] /\ At(b, k) = b[k]
    BY <2>1, AtFacts
  <2>3. QED BY <2>1, <2>2
<1>4. a = [k \in 1..Len(a) |-> a[k]] /\ b = [k \in 1..Len(b) |-> b[k]]
  OBVIOUS
<1>5. QED BY <1>2, <1>3, <1>4

\* Of two sequences neither comes before the other only if they are the same.
LEMMA LessOrder ==
    /\ \A a \in Seq(Nat) : ~Less(a, a)
    /\ \A a, b, c \in Seq(Nat) : Less(a, b) /\ Less(b, c) => Less(a, c)
<1>1. ASSUME NEW a \in Seq(Nat), Less(a, a) PROVE FALSE
  <2>1. PICK k \in Nat \ {0} : At(a, k) < At(a, k)
    BY <1>1 DEF Less
  <2>2. At(a, k) \in Int
    BY AtFacts
  <2>3. QED BY <2>1, <2>2
<1>2. ASSUME NEW a \in Seq(Nat), NEW b \in Seq(Nat), NEW c \in Seq(Nat), Less(a, b), Less(b, c)
      PROVE  Less(a, c)
  <2>1. PICK k \in Nat \ {0} : /\ At(a, k) < At(b, k)
                               /\ \A m \in Nat \ {0} : m < k => At(a, m) = At(b, m)
    BY <1>2 DEF Less
  <2>2. PICK n \in Nat \ {0} : /\ At(b, n) < At(c, n)
                               /\ \A m \in Nat \ {0} : m < n => At(b, m) = At(c, m)
    BY <1>2 DEF Less
  <2>3. \A m \in Nat \ {0} : At(a, m) \in Int /\ At(b, m) \in Int /\ At(c, m) \in Int
    BY AtFacts
  <2>4. CASE k < n
    <3>1. At(a, k) < At(c, k)
      BY <2>1, <2>2, <2>4
    <3>2. \A m \in Nat \ {0} : m < k => At(a, m) = At(c, m)
      <4>1. \A m \in Nat \ {0} : m < k => m < n
        BY <2>4
      <4>2. QED BY <2>1, <2>2, <4>1
    <3>3. QED BY <3>1, <3>2 DEF Less
  <2>5. CASE n < k
    <3>1. At(a, n) < At(c, n)
      BY <2>1, <2>2, <2>5
    <3>2. \A m \in Nat \ {0} : m < n => At(a, m) = At(c, m)
      <4>1. \A m \in Nat \ {0} : m < n => m < k
        BY <2>5
      <4>2. QED BY <2>1, <2>2, <4>1
    <3>3. QED BY <3>1, <3>2 DEF Less
  <2>6. CASE n = k
    <3>1. At(a, k) < At(c, k)
      BY <2>1, <2>2, <2>3, <2>6
    <3>2. \A m \in Nat \ {0} : m < k => At(a, m) = At(c, m)
      BY <2>1, <2>2, <2>6
    <3>3. QED BY <3>1, <3>2 DEF Less
  <2>7. k < n \/ n < k \/ n = k
    OBVIOUS
  <2>8. QED BY <2>4, <2>5, <2>6, <2>7
<1>3. QED BY <1>1, <1>2

\* LexCmp gives their order.
LEMMA LexCmpFacts ==
    ASSUME NEW a \in Seq(Nat), NEW b \in Seq(Nat)
    PROVE  \/ LexCmp(a, b) = 0 /\ a = b
           \/ LexCmp(a, b) = -1 /\ Less(a, b)
           \/ LexCmp(a, b) = 1 /\ Less(b, a)
<1> DEFINE n == Max({Len(a), Len(b)})
           D == {k \in 1..n : At(a, k) # At(b, k)}
<1>1. /\ Len(a) \in Nat /\ Len(b) \in Nat
      /\ \A k \in Nat \ {0} : At(a, k) \in Int /\ At(b, k) \in Int
  BY AtFacts
<1>2. n \in Nat /\ Len(a) <= n /\ Len(b) <= n
  <2>1. \E x \in {Len(a), Len(b)} : \A y \in {Len(a), Len(b)} : x >= y
    <3>1. CASE Len(a) >= Len(b)
      BY <1>1, <3>1
    <3>2. CASE Len(b) >= Len(a)
      BY <1>1, <3>2
    <3>3. QED BY <1>1, <3>1, <3>2
  <2>2. n = CHOOSE x \in {Len(a), Len(b)} : \A y \in {Len(a), Len(b)} : x >= y
    BY DEF Max
  <2>3. n \in {Len(a), Len(b)} /\ \A y \in {Len(a), Len(b)} : n >= y
    BY <2>1, <2>2
  <2>4. QED BY <1>1, <2>3
<1> HIDE DEF n
<1>3. LexCmp(a, b) = IF D = {} THEN 0 ELSE Sign(At(a, Min(D)) - At(b, Min(D)))
  BY DEF LexCmp, n
<1>4. CASE D = {}
  <2>1. ASSUME NEW k \in Nat \ {0} PROVE At(a, k) = At(b, k)
    <3>1. CASE k <= n
      <4>1. k \in 1..n
        BY <1>2, <3>1
      <4>2. QED BY <1>4, <4>1
    <3>2. CASE k > n
      <4>1. k > Len(a) /\ k > Len(b)
        BY <1>1, <1>2, <3>2
      <4>2. At(a, k) = -1 /\ At(b, k) = -1
        BY <4>1, AtFacts
      <4>3. QED BY <4>2
    <3>3. QED BY <1>2, <3>1, <3>2
  <2>2. a = b
    BY <2>1, SameEverywhere
  <2>3. QED BY <1>3, <1>4, <2>2
<1>5. CASE D # {}
  <2>1. D \in SUBSET Nat /\ \A k \in D : k \in 1..n /\ At(a, k) # At(b, k)
    BY <1>2
  <2>2. \A k \in 1..n : k \notin D => At(a, k) = At(b, k)
    OBVIOUS
  <2> DEFINE d == Min(D)
  <2> HIDE DEF D
  <2>3. \E x \in D : \A y \in D : x <= y
    BY <1>5, <2>1, LeastNat
  <2>4. d \in D /\ \A y \in D : d <= y
    <3>1. d = CHOOSE x \in D : \A y \in D : x =< y
      BY DEF Min
    <3> HIDE DEF d
    <3>2. QED BY <2>3, <3>1
  <2>5. LexCmp(a, b) = Sign(At(a, d) - At(b, d))
    BY <1>3, <1>5
  <2> HIDE DEF d
  <2>6. d \in Nat \ {0} /\ d \in 1..n /\ At(a, d) # At(b, d)
    BY <1>2, <2>1, <2>4
  <2>7. ASSUME NEW m \in Nat \ {0}, m < d PROVE At(a, m) = At(b, m)
    <3>1. m \in 1..n
      BY <1>2, <2>6, <2>7
    <3>2. m \notin D
      <4>1. m \in D => d <= m
        BY <2>4
      <4>2. QED BY <2>6, <2>7, <4>1
    <3>3. QED BY <2>2, <3>1, <3>2
  <2>8. At(a, d) \in Int /\ At(b, d) \in Int
    BY <1>1, <2>6
  <2>9. CASE At(a, d) < At(b, d)
    <3>1. LexCmp(a, b) = -1
      <4>1. ~(At(a, d) - At(b, d) > 0) /\ At(a, d) - At(b, d) < 0
        BY <2>8, <2>9
      <4>2. QED BY <2>5, <4>1 DEF Sign
    <3>2. Less(a, b)
      BY <2>6, <2>7, <2>9 DEF Less
    <3>3. QED BY <3>1, <3>2
  <2>10. CASE At(b, d) < At(a, d)
    <3>1. LexCmp(a, b) = 1
      <4>1. At(a, d) - At(b, d) > 0
        BY <2>8, <2>10
      <4>2. QED BY <2>5, <4>1 DEF Sign
    <3>2. Less(b, a)
      BY <2>6, <2>7, <2>10 DEF Less
    <3>3. QED BY <3>1, <3>2
  <2>11. QED BY <2>6, <2>8, <2>9, <2>10
<1>6. QED BY <1>4, <1>5

\* LexCmp by cases, each of which excludes the others.
LEMMA LexCmpCases ==
    ASSUME NEW a \in Seq(Nat), NEW b \in Seq(Nat)
    PROVE  /\ LexCmp(a, b) \in {-1, 0, 1}
           /\ LexCmp(a, b) = 0 <=> a = b
           /\ LexCmp(a, b) = -1 <=> Less(a, b)
           /\ LexCmp(a, b) = 1 <=> Less(b, a)
<1>1. \/ LexCmp(a, b) = 0 /\ a = b
      \/ LexCmp(a, b) = -1 /\ Less(a, b)
      \/ LexCmp(a, b) = 1 /\ Less(b, a)
  BY LexCmpFacts
<1>2. ~Less(a, a) /\ ~Less(b, b)
  BY LessOrder
<1>3. ~(Less(a, b) /\ Less(b, a))
  BY <1>2, LessOrder
<1>4. -1 # 0 /\ -1 # 1 /\ 0 # 1
  OBVIOUS
<1>5. CASE LexCmp(a, b) = 0 /\ a = b
  BY <1>2, <1>4, <1>5
<1>6. CASE LexCmp(a, b) = -1 /\ Less(a, b)
  BY <1>2, <1>3, <1>4, <1>6
<1>7. CASE LexCmp(a, b) = 1 /\ Less(b, a)
  BY <1>2, <1>3, <1>4, <1>7
<1>8. QED BY <1>1, <1>5, <1>6, <1>7

\* A comparison by keys, and by the bytes where the keys are the same, is a total
\* order, whatever the keys.
LEMMA KeyOrder ==
    ASSUME NEW S \in SUBSET Seq(Nat), NEW K \in [S -> Seq(Nat)], NEW cmp,
           \A s, t \in S : cmp[s][t] = OrElse(LexCmp(K[s], K[t]), LexCmp(s, t))
    PROVE  TotalOn(S, cmp)
<1> DEFINE L(s, t) == Less(K[s], K[t]) \/ (K[s] = K[t] /\ Less(s, t))
<1>1. \A s \in S : s \in Seq(Nat) /\ K[s] \in Seq(Nat)
  OBVIOUS
<1>2. ASSUME NEW s \in S, NEW t \in S
      PROVE  /\ cmp[s][t] \in {-1, 0, 1}
             /\ cmp[s][t] = 0 <=> s = t
             /\ cmp[s][t] = -1 <=> L(s, t)
             /\ cmp[s][t] = 1 <=> L(t, s)
  <2> DEFINE x == LexCmp(K[s], K[t])
             y == LexCmp(s, t)
  <2>1. /\ x \in {-1, 0, 1} /\ (x = 0 <=> K[s] = K[t])
        /\ (x = -1 <=> Less(K[s], K[t])) /\ (x = 1 <=> Less(K[t], K[s]))
    BY <1>1, LexCmpCases
  <2>2. /\ y \in {-1, 0, 1} /\ (y = 0 <=> s = t)
        /\ (y = -1 <=> Less(s, t)) /\ (y = 1 <=> Less(t, s))
    BY <1>1, LexCmpCases
  <2>3. cmp[s][t] = IF x = 0 THEN y ELSE x
    BY DEF OrElse
  <2> HIDE DEF x, y
  <2>4. -1 # 0 /\ -1 # 1 /\ 0 # 1
    OBVIOUS
  <2>5. CASE x = 0
    <3>1. cmp[s][t] = y /\ K[s] = K[t] /\ ~Less(K[s], K[t]) /\ ~Less(K[t], K[s])
      BY <2>1, <2>3, <2>4, <2>5
    <3>2. QED BY <2>2, <3>1
  <2>6. CASE x = -1
    <3>1. cmp[s][t] = -1 /\ K[s] # K[t] /\ Less(K[s], K[t]) /\ ~Less(K[t], K[s])
      BY <2>1, <2>3, <2>4, <2>6
    <3>2. QED BY <2>4, <3>1
  <2>7. CASE x = 1
    <3>1. cmp[s][t] = 1 /\ K[s] # K[t] /\ ~Less(K[s], K[t]) /\ Less(K[t], K[s])
      BY <2>1, <2>3, <2>4, <2>7
    <3>2. QED BY <2>4, <3>1
  <2>8. QED BY <2>1, <2>5, <2>6, <2>7
<1>3. ASSUME NEW s \in S, NEW t \in S, NEW u \in S, L(s, t), L(t, u) PROVE L(s, u)
  <2>1. /\ Less(K[s], K[t]) /\ Less(K[t], K[u]) => Less(K[s], K[u])
        /\ Less(s, t) /\ Less(t, u) => Less(s, u)
    BY <1>1, LessOrder
  <2>2. CASE Less(K[s], K[t])
    BY <1>3, <2>1, <2>2
  <2>3. CASE K[s] = K[t] /\ Less(s, t)
    BY <1>3, <2>1, <2>3
  <2>4. QED BY <1>3, <2>2, <2>3
<1>4. ASSUME NEW s \in S, NEW t \in S PROVE cmp[s][t] = -cmp[t][s]
  <2> DEFINE x == cmp[s][t]
             y == cmp[t][s]
  <2>1. /\ x \in {-1, 0, 1} /\ (x = 0 <=> s = t) /\ (x = -1 <=> L(s, t)) /\ (x = 1 <=> L(t, s))
        /\ y \in {-1, 0, 1} /\ (y = 0 <=> t = s) /\ (y = -1 <=> L(t, s)) /\ (y = 1 <=> L(s, t))
    BY <1>2
  <2> HIDE DEF x, y, L
  <2>2. x \in Int /\ y \in Int
    BY <2>1
  <2>3. x + y = 0
    <3>1. CASE x = 0
      BY <2>1, <3>1
    <3>2. CASE x = -1
      BY <2>1, <3>2
    <3>3. CASE x = 1
      BY <2>1, <3>3
    <3>4. QED BY <2>1, <3>1, <3>2, <3>3
  <2>4. \A p, q \in Int : p + q = 0 => p = -q
    OBVIOUS
  <2>5. x = -y
    BY <2>2, <2>3, <2>4
  <2>6. QED BY <2>5 DEF x, y
<1>5. ASSUME NEW s \in S, NEW t \in S, NEW u \in S, cmp[s][t] < 0, cmp[t][u] < 0
      PROVE  cmp[s][u] < 0
  <2>1. \A z \in {-1, 0, 1} : z < 0 => z = -1
    OBVIOUS
  <2>2. cmp[s][t] = -1 /\ cmp[t][u] = -1
    BY <1>2, <1>5, <2>1
  <2>3. L(s, t) /\ L(t, u)
    BY <1>2, <2>2
  <2>4. L(s, u)
    BY <1>3, <2>3
  <2>5. cmp[s][u] = -1
    BY <1>2, <2>4
  <2>6. QED BY <2>5
<1>6. QED BY <1>2, <1>4, <1>5 DEF TotalOn

\* Whether an order is that of the bytes or of weights, which are numbers.
ByWeights(f) ==
    LET cs == get_cs(f)
    IN  \/ cs.coll = "bin"
        \/ cs.coll = "uca" /\ \A s \in AllWords : Scan(cs, s) \in Seq(Nat)

\* The order of the bytes and those of the languages are total orders of any words
\* (my_strnncoll_mb_bin, my_strnncoll_uca and stardict_collate).
THEOREM WeightsOrder ==
    ASSUME AllWords \subseteq Seq(Nat), \A f \in Funcs : ByWeights(f)
    PROVE  CollationsTotal
<1> SUFFICES ASSUME NEW f \in Funcs PROVE TotalOn(AllWords, Collate[f])
  BY DEF CollationsTotal
<1> DEFINE cs == get_cs(f)
           K == [s \in AllWords |-> IF cs.coll = "bin" THEN s ELSE Scan(cs, s)]
<1>1. \A s, t \in AllWords : Collate[f][s][t] = stardict_collate(cs, s, t)
  BY DEF Collate
<1>2. \/ cs.coll = "bin"
      \/ cs.coll = "uca" /\ \A s \in AllWords : Scan(cs, s) \in Seq(Nat)
  BY DEF ByWeights
<1> HIDE DEF cs
<1>3. K \in [AllWords -> Seq(Nat)]
  BY <1>2
<1>4. ASSUME NEW s \in AllWords, NEW t \in AllWords
      PROVE  utf8_collate(cs, s, t) = LexCmp(K[s], K[t])
  <2>1. CASE cs.coll = "bin"
    BY <2>1 DEF utf8_collate, my_strnncoll_mb_bin
  <2>2. CASE cs.coll = "uca"
    <3>1. utf8_collate(cs, s, t) = my_strnncoll_uca(cs, s, t)
      BY <2>2 DEF utf8_collate
    <3>2. K[s] = Scan(cs, s) /\ K[t] = Scan(cs, t)
      BY <2>2
    <3>3. QED BY <3>1, <3>2 DEF my_strnncoll_uca
  <2>3. QED BY <1>2, <2>1, <2>2
<1> HIDE DEF K
<1>5. \A s, t \in AllWords : Collate[f][s][t] = OrElse(LexCmp(K[s], K[t]), LexCmp(s, t))
  BY <1>1, <1>4 DEF stardict_collate
<1>6. AllWords \in SUBSET Seq(Nat)
  OBVIOUS
<1>7. QED BY <1>3, <1>5, <1>6, KeyOrder

-----------------------------------------------------------------------------
(* Looking up in a collated order.                                         *)

\* Induction up to n: what holds of 0, and of k + 1 if of k, is said by a set.
LEMMA CountUp ==
    ASSUME NEW n \in Nat, NEW T, 0 \in T, \A k \in 0..n - 1 : k \in T => k + 1 \in T
    PROVE  n \in T /\ \A k \in 0..n : k \in T
<1> DEFINE Bad == {k \in 0..n : k \notin T}
<1>1. SUFFICES ASSUME Bad # {} PROVE FALSE
  OBVIOUS
<1>2. PICK x \in Bad : \A y \in Bad : x <= y
  <2>1. Bad \in SUBSET Nat
    OBVIOUS
  <2> HIDE DEF Bad
  <2>2. QED BY <1>1, <2>1, LeastNat
<1>3. x - 1 \in 0..n - 1
  OBVIOUS
<1>4. x - 1 \in T
  BY <1>2, <1>3
<1>5. x - 1 + 1 = x
  OBVIOUS
<1>6. QED BY <1>3, <1>4, <1>5

\* What a loop has come to after each of n iterations of its body, step.
IsLoop(f, n, base, step) == f[0] = base /\ \A k \in 1..n : f[k] = step[f[k - 1]]

\* There is such a loop.
LEMMA LoopExists ==
    ASSUME NEW n \in Nat, NEW V, NEW base \in V, NEW step \in [V -> V]
    PROVE  \E f \in [0..n -> V] : IsLoop(f, n, base, step)
<1> DEFINE T == {m \in 0..n : \E f \in [0..m -> V] : IsLoop(f, m, base, step)}
<1>1. 0 \in T
  <2> DEFINE f == [k \in 0..0 |-> base]
  <2>1. f \in [0..0 -> V] /\ f[0] = base
    OBVIOUS
  <2>2. IsLoop(f, 0, base, step)
    BY <2>1 DEF IsLoop
  <2>3. QED BY <2>1, <2>2
<1>2. ASSUME NEW m \in 0..n - 1, m \in T PROVE m + 1 \in T
  <2>1. PICK f \in [0..m -> V] : IsLoop(f, m, base, step)
    BY <1>2
  <2> DEFINE g == [k \in 0..m + 1 |-> IF k <= m THEN f[k] ELSE step[f[m]]]
  <2>2. step[f[m]] \in V
    <3>1. f[m] \in V
      BY <2>1
    <3>2. QED BY <3>1
  <2>3. g \in [0..m + 1 -> V]
    <3>1. ASSUME NEW k \in 0..m + 1 PROVE (IF k <= m THEN f[k] ELSE step[f[m]]) \in V
      BY <2>1, <2>2
    <3>2. QED BY <3>1
  <2>4. \A k \in 0..m : g[k] = f[k]
    OBVIOUS
  <2>5. g[m + 1] = step[f[m]]
    <3>1. m + 1 \in 0..m + 1 /\ ~(m + 1 <= m)
      OBVIOUS
    <3>2. QED BY <3>1
  <2> HIDE DEF g
  <2>6. ASSUME NEW k \in 1..m + 1 PROVE g[k] = step[g[k - 1]]
    <3>1. CASE k \in 1..m
      <4>1. k \in 0..m /\ k - 1 \in 0..m
        BY <3>1
      <4>2. f[k] = step[f[k - 1]]
        BY <2>1, <3>1 DEF IsLoop
      <4>3. QED BY <2>4, <4>1, <4>2
    <3>2. CASE k = m + 1
      <4>1. k - 1 = m /\ m \in 0..m
        BY <3>2
      <4>2. QED BY <2>4, <2>5, <3>2, <4>1
    <3>3. QED BY <3>1, <3>2
  <2>7. g[0] = base
    BY <2>1, <2>4 DEF IsLoop
  <2>8. IsLoop(g, m + 1, base, step)
    BY <2>6, <2>7 DEF IsLoop
  <2>9. m + 1 \in 0..n
    OBVIOUS
  <2>10. QED BY <2>3, <2>8, <2>9
<1> HIDE DEF T
<1>3. n \in T
  BY <1>1, <1>2, CountUp
<1>4. QED BY <1>3 DEF T

\* How the search stands: positions that are left, or one that has been found.
Standing(last) == [bFound : BOOLEAN, iFrom : 0..last + 1, iTo : -1..last,
                   iThisIndex : 0..last]
AtFirst(last) == [bFound |-> FALSE, iFrom |-> 0, iTo |-> last, iThisIndex |-> 0]

\* One more iteration has half of the positions left, and no word that is equal
\* is among those it leaves out.
HalveInv(cmp, last, n, at) ==
    /\ at.bFound => cmp[at.iThisIndex] = 0
    /\ ~at.bFound =>
           /\ \A k \in 0..last : k < at.iFrom => cmp[k] > 0
           /\ \A k \in 0..last : k > at.iTo => cmp[k] < 0
           /\ at.iFrom <= at.iTo => at.iTo - at.iFrom <= last - n

\* Whether a word is compared with a sorted list: where it comes before a word
\* or is equal to it, it does not come after a later one.
Sorted(cmp, last) ==
    \A m, j \in 0..last : m < j => /\ cmp[m] < 0 => cmp[j] < 0
                                   /\ cmp[m] <= 0 => cmp[j] <= 0

\* The middle of the positions that are left is one of them.
LEMMA Middle ==
    ASSUME NEW a \in Nat, NEW b \in Nat, a <= b
    PROVE  (a + b) \div 2 \in Nat /\ a <= (a + b) \div 2 /\ (a + b) \div 2 <= b
OBVIOUS

\* One iteration.
LEMMA HalveStep ==
    ASSUME NEW last \in Nat, NEW cmp \in [0..last -> Int], Sorted(cmp, last),
           NEW n \in Nat, NEW at \in Standing(last), HalveInv(cmp, last, n, at)
    PROVE  Halve(cmp, at) \in Standing(last) /\ HalveInv(cmp, last, n + 1, Halve(cmp, at))
<1>1. /\ at.bFound \in BOOLEAN /\ at.iFrom \in 0..last + 1 /\ at.iTo \in -1..last
      /\ at.iThisIndex \in 0..last
      /\ at = [bFound |-> at.bFound, iFrom |-> at.iFrom, iTo |-> at.iTo,
               iThisIndex |-> at.iThisIndex]
  BY DEF Standing
<1>2. CASE at.bFound
  <2>1. Halve(cmp, at) = at
    BY <1>2 DEF Halve
  <2>2. QED BY <1>2, <2>1 DEF HalveInv
<1>3. CASE ~at.bFound /\ at.iFrom > at.iTo
  <2>1. Halve(cmp, at) = at
    BY <1>3 DEF Halve
  <2>2. ~ (at.iFrom <= at.iTo)
    BY <1>1, <1>3
  <2>3. QED BY <1>3, <2>1, <2>2 DEF HalveInv
<1>4. CASE ~at.bFound /\ ~ (at.iFrom > at.iTo)
  <2> DEFINE mid == (at.iFrom + at.iTo) \div 2
  <2>1. mid \in 0..last /\ at.iFrom <= mid /\ mid <= at.iTo
    <3>1. at.iFrom \in Nat /\ at.iTo \in Nat /\ at.iFrom <= at.iTo /\ at.iTo <= last
      BY <1>1, <1>4
    <3>2. mid \in Nat /\ at.iFrom <= mid /\ mid <= at.iTo
      BY <3>1, Middle
    <3> HIDE DEF mid
    <3>3. QED BY <3>1, <3>2
  <2>2. /\ cmp[mid] > 0 => Halve(cmp, at) = [at EXCEPT !.iThisIndex = mid, !.iFrom = mid + 1]
        /\ cmp[mid] < 0 => Halve(cmp, at) = [at EXCEPT !.iThisIndex = mid, !.iTo = mid - 1]
        /\ cmp[mid] = 0 => Halve(cmp, at) = [at EXCEPT !.iThisIndex = mid, !.bFound = TRUE]
    <3>1. cmp[mid] \in Int
      BY <2>1
    <3> HIDE DEF mid
    <3>2. Halve(cmp, at) =
              IF cmp[mid] > 0 THEN [at EXCEPT !.iThisIndex = mid, !.iFrom = mid + 1]
              ELSE IF cmp[mid] < 0 THEN [at EXCEPT !.iThisIndex = mid, !.iTo = mid - 1]
              ELSE [at EXCEPT !.iThisIndex = mid, !.bFound = TRUE]
      BY <1>4 DEF Halve, mid
    <3>3. ~ (cmp[mid] > 0 /\ cmp[mid] < 0) /\ ~ (cmp[mid] = 0 /\ (cmp[mid] > 0 \/ cmp[mid] < 0))
      BY <3>1
    <3>4. QED BY <3>2, <3>3
  <2>3. cmp[mid] \in Int /\ (cmp[mid] > 0 \/ cmp[mid] < 0 \/ cmp[mid] = 0)
    BY <2>1
  <2>4. /\ \A k \in 0..last : k < at.iFrom => cmp[k] > 0
        /\ \A k \in 0..last : k > at.iTo => cmp[k] < 0
        /\ at.iTo - at.iFrom <= last - n
    BY <1>1, <1>4 DEF HalveInv
  <2> HIDE DEF mid
  <2>5. CASE cmp[mid] > 0
    <3> DEFINE h == [bFound |-> FALSE, iFrom |-> mid + 1, iTo |-> at.iTo, iThisIndex |-> mid]
    <3>1. Halve(cmp, at) = h
      BY <1>1, <1>4, <2>2, <2>5
    <3>2. h \in Standing(last)
      BY <1>1, <2>1 DEF Standing
    <3>3. ASSUME NEW k \in 0..last, k < mid + 1 PROVE cmp[k] > 0
      <4>1. CASE k = mid
        BY <2>5, <4>1
      <4>2. CASE k < mid
        <5>1. ~ (cmp[k] <= 0)
          <6> SUFFICES ASSUME cmp[k] <= 0 PROVE FALSE
            OBVIOUS
          <6>1. cmp[mid] <= 0
            BY <2>1, <4>2 DEF Sorted
          <6>2. QED BY <2>3, <2>5, <6>1
        <5>2. QED BY <5>1
      <4>3. QED BY <2>1, <3>3, <4>1, <4>2
    <3>4. mid + 1 <= at.iTo => at.iTo - (mid + 1) <= last - (n + 1)
      BY <1>1, <2>1, <2>4
    <3>5. HalveInv(cmp, last, n + 1, h)
      BY <2>4, <3>3, <3>4 DEF HalveInv
    <3>6. QED BY <3>1, <3>2, <3>5
  <2>6. CASE cmp[mid] < 0
    <3> DEFINE h == [bFound |-> FALSE, iFrom |-> at.iFrom, iTo |-> mid - 1, iThisIndex |-> mid]
    <3>1. Halve(cmp, at) = h
      BY <1>1, <1>4, <2>2, <2>6
    <3>2. h \in Standing(last)
      BY <1>1, <2>1 DEF Standing
    <3>3. ASSUME NEW k \in 0..last, k > mid - 1 PROVE cmp[k] < 0
      <4>1. k = mid \/ mid < k
        BY <2>1, <3>3
      <4>2. QED BY <2>1, <2>6, <4>1 DEF Sorted
    <3>4. at.iFrom <= mid - 1 => mid - 1 - at.iFrom <= last - (n + 1)
      BY <1>1, <2>1, <2>4
    <3>5. HalveInv(cmp, last, n + 1, h)
      BY <2>4, <3>3, <3>4 DEF HalveInv
    <3>6. QED BY <3>1, <3>2, <3>5
  <2>7. CASE cmp[mid] = 0
    <3> DEFINE h == [bFound |-> TRUE, iFrom |-> at.iFrom, iTo |-> at.iTo, iThisIndex |-> mid]
    <3>1. Halve(cmp, at) = h
      BY <1>1, <1>4, <2>2, <2>7
    <3>2. h \in Standing(last)
      BY <1>1, <2>1 DEF Standing
    <3>3. HalveInv(cmp, last, n + 1, h)
      BY <2>7 DEF HalveInv
    <3>4. QED BY <3>1, <3>2, <3>3
  <2>8. QED BY <2>3, <2>5, <2>6, <2>7
<1>5. QED BY <1>1, <1>2, <1>3, <1>4

IsSearch(f, cmp, last) ==
    f = [n \in 0..last + 1 |->
            IF n = 0 THEN [bFound |-> FALSE, iFrom |-> 0, iTo |-> last, iThisIndex |-> 0]
            ELSE Halve(cmp, f[n - 1])]

\* The positions in the range of what Halve does are positions again.
LEMMA HalveType ==
    ASSUME NEW last \in Nat, NEW cmp, NEW at \in Standing(last)
    PROVE  Halve(cmp, at) \in Standing(last)
<1>1. /\ at.bFound \in BOOLEAN /\ at.iFrom \in 0..last + 1 /\ at.iTo \in -1..last
      /\ at.iThisIndex \in 0..last
      /\ at = [bFound |-> at.bFound, iFrom |-> at.iFrom, iTo |-> at.iTo,
               iThisIndex |-> at.iThisIndex]
  BY DEF Standing
<1>2. CASE at.bFound \/ at.iFrom > at.iTo
  BY <1>2 DEF Halve
<1>3. CASE ~ (at.bFound \/ at.iFrom > at.iTo)
  <2> DEFINE mid == (at.iFrom + at.iTo) \div 2
  <2>1. mid \in 0..last /\ at.iFrom <= mid /\ mid <= at.iTo
    <3>1. at.iFrom \in Nat /\ at.iTo \in Nat /\ at.iFrom <= at.iTo /\ at.iTo <= last
      BY <1>1, <1>3
    <3>2. mid \in Nat /\ at.iFrom <= mid /\ mid <= at.iTo
      BY <3>1, Middle
    <3> HIDE DEF mid
    <3>3. QED BY <3>1, <3>2
  <2> HIDE DEF mid
  <2>2. \/ Halve(cmp, at) = [at EXCEPT !.iThisIndex = mid, !.iFrom = mid + 1]
        \/ Halve(cmp, at) = [at EXCEPT !.iThisIndex = mid, !.iTo = mid - 1]
        \/ Halve(cmp, at) = [at EXCEPT !.iThisIndex = mid, !.bFound = TRUE]
    BY <1>3 DEF Halve, mid
  <2>3. mid + 1 \in 0..last + 1 /\ mid - 1 \in -1..last
    BY <2>1
  <2>4. /\ [at EXCEPT !.iThisIndex = mid, !.iFrom = mid + 1] \in Standing(last)
        /\ [at EXCEPT !.iThisIndex = mid, !.iTo = mid - 1] \in Standing(last)
        /\ [at EXCEPT !.iThisIndex = mid, !.bFound = TRUE] \in Standing(last)
    BY <1>1, <2>1, <2>3 DEF Standing
  <2>5. QED BY <2>2, <2>4
<1>4. QED BY <1>2, <1>3

\* The loop of lookup, iteration by iteration.
LEMMA SearchSteps ==
    ASSUME NEW last \in Nat, NEW cmp
    PROVE  \E f \in [0..last + 1 -> Standing(last)] :
               /\ Bisected(cmp, last) = f[last + 1]
               /\ f[0] = AtFirst(last)
               /\ \A k \in 1..last + 1 : f[k] = Halve(cmp, f[k - 1])
<1> DEFINE V == Standing(last)
           step == [at \in V |-> Halve(cmp, at)]
<1>1. step \in [V -> V] /\ \A at \in V : step[at] = Halve(cmp, at)
  BY HalveType
<1>2. AtFirst(last) \in V /\ last + 1 \in Nat
  BY DEF Standing, AtFirst
<1> HIDE DEF V, step
<1>3. PICK f \in [0..last + 1 -> V] : IsLoop(f, last + 1, AtFirst(last), step)
  BY <1>1, <1>2, LoopExists
<1>4. \A k \in 1..last + 1 : f[k] = Halve(cmp, f[k - 1])
  <2>1. \A k \in 1..last + 1 : f[k - 1] \in V
    <3>1. \A k \in 1..last + 1 : k - 1 \in 0..last + 1
      OBVIOUS
    <3>2. QED BY <3>1
  <2>2. QED BY <1>1, <1>3, <2>1 DEF IsLoop
<1>5. IsSearch(f, cmp, last)
  <2>1. \A k \in 0..last + 1 : k # 0 => k \in 1..last + 1
    OBVIOUS
  <2>2. \A k \in 0..last + 1 :
            f[k] = IF k = 0
                   THEN [bFound |-> FALSE, iFrom |-> 0, iTo |-> last, iThisIndex |-> 0]
                   ELSE Halve(cmp, f[k - 1])
    BY <1>3, <1>4, <2>1 DEF AtFirst, IsLoop
  <2>3. f = [k \in 0..last + 1 |-> f[k]]
    OBVIOUS
  <2>4. QED BY <2>2, <2>3 DEF IsSearch
<1> DEFINE g == CHOOSE h : IsSearch(h, cmp, last)
<1>6. Bisected(cmp, last) = g[last + 1]
  BY DEF Bisected, IsSearch
<1>7. IsSearch(g, cmp, last)
  BY <1>5
<1> HIDE DEF g
<1>8. \A k \in 0..last + 1 :
          g[k] = IF k = 0
                 THEN [bFound |-> FALSE, iFrom |-> 0, iTo |-> last, iThisIndex |-> 0]
                 ELSE Halve(cmp, g[k - 1])
  BY <1>7 DEF IsSearch
<1> DEFINE T == {k \in 0..last + 1 : g[k] = f[k]}
<1>9. 0 \in T
  <2>1. 0 \in 0..last + 1
    OBVIOUS
  <2>2. g[0] = AtFirst(last)
    BY <1>8, <2>1 DEF AtFirst
  <2>3. QED BY <1>3, <2>1, <2>2 DEF IsLoop
<1>10. ASSUME NEW k \in 0..last + 1 - 1, k \in T PROVE k + 1 \in T
  <2>1. k + 1 \in 0..last + 1 /\ k + 1 # 0 /\ k + 1 \in 1..last + 1 /\ k + 1 - 1 = k
    OBVIOUS
  <2>2. g[k + 1] = Halve(cmp, g[k])
    BY <1>8, <2>1
  <2>3. f[k + 1] = Halve(cmp, f[k])
    BY <1>4, <2>1
  <2>4. QED BY <1>10, <2>1, <2>2, <2>3
<1> HIDE DEF T
<1>11. last + 1 \in T
  BY <1>2, <1>9, <1>10, CountUp
<1>12. g[last + 1] = f[last + 1]
  BY <1>11 DEF T
<1>13. QED BY <1>3, <1>4, <1>6, <1>12 DEF V, IsLoop

\* After the search a word has been found, or there is none.
LEMMA BisectedRight ==
    ASSUME NEW last \in Nat, NEW cmp \in [0..last -> Int], Sorted(cmp, last)
    PROVE  LET stop == Bisected(cmp, last)
           IN  /\ stop \in Standing(last)
               /\ stop.bFound => cmp[stop.iThisIndex] = 0
               /\ ~stop.bFound => \A k \in 0..last : cmp[k] # 0
<1>1. PICK f \in [0..last + 1 -> Standing(last)] :
          /\ Bisected(cmp, last) = f[last + 1]
          /\ f[0] = AtFirst(last)
          /\ \A k \in 1..last + 1 : f[k] = Halve(cmp, f[k - 1])
  BY SearchSteps
<1> DEFINE T == {n \in 0..last + 1 : HalveInv(cmp, last, n, f[n])}
<1>2. 0 \in T
  <2>1. HalveInv(cmp, last, 0, AtFirst(last))
    BY DEF HalveInv, AtFirst
  <2>2. QED BY <1>1, <2>1
<1>3. ASSUME NEW n \in 0..last + 1 - 1, n \in T PROVE n + 1 \in T
  <2>1. n \in Nat /\ n \in 0..last + 1 /\ n + 1 \in 1..last + 1 /\ n + 1 - 1 = n
    OBVIOUS
  <2>2. f[n] \in Standing(last) /\ HalveInv(cmp, last, n, f[n])
    BY <1>3, <2>1
  <2>3. f[n + 1] = Halve(cmp, f[n])
    BY <1>1, <2>1
  <2>4. HalveInv(cmp, last, n + 1, Halve(cmp, f[n]))
    BY <2>1, <2>2, HalveStep
  <2>5. QED BY <2>1, <2>3, <2>4
<1> HIDE DEF T
<1>4. last + 1 \in T
  BY <1>2, <1>3, CountUp
<1> DEFINE stop == Bisected(cmp, last)
<1>5. stop = f[last + 1] /\ stop \in Standing(last) /\ HalveInv(cmp, last, last + 1, stop)
  <2>1. last + 1 \in 0..last + 1
    OBVIOUS
  <2>2. QED BY <1>1, <1>4, <2>1 DEF T
<1> HIDE DEF stop
<1>6. stop.iFrom \in 0..last + 1 /\ stop.iTo \in -1..last
  BY <1>5 DEF Standing
<1>7. ASSUME ~stop.bFound, NEW k \in 0..last PROVE cmp[k] # 0
  <2>1. /\ k < stop.iFrom => cmp[k] > 0
        /\ k > stop.iTo => cmp[k] < 0
        /\ stop.iFrom <= stop.iTo => stop.iTo - stop.iFrom <= last - (last + 1)
    BY <1>5, <1>7 DEF HalveInv
  <2>2. k < stop.iFrom \/ k > stop.iTo
    BY <1>6, <2>1
  <2>3. cmp[k] \in Int
    OBVIOUS
  <2>4. QED BY <2>1, <2>2, <2>3
<1>8. QED BY <1>5, <1>7 DEF HalveInv, stop

\* The greatest of the positions.
LEMMA LastIsMax == ASSUME NEW n \in Nat PROVE Max(0..n) = n
<1>1. n \in 0..n /\ \A y \in 0..n : n >= y
  OBVIOUS
<1>2. \A x \in 0..n : (\A y \in 0..n : x >= y) => x = n
  OBVIOUS
<1>3. Max(0..n) = CHOOSE x \in 0..n : \A y \in 0..n : x >= y
  BY DEF Max
<1>4. QED BY <1>1, <1>2, <1>3

\* A lookup in a sorted list finds an equal word if there is one.
LEMMA LookupFinds ==
    ASSUME NEW last \in Nat, NEW cmp \in [0..last -> Int], Sorted(cmp, last), NEW match
    PROVE  LET answer == lookup(cmp, match)
           IN  /\ answer.bFound <=> \E k \in 0..last : cmp[k] = 0
               /\ answer.bFound => answer.idx \in 0..last /\ cmp[answer.idx] = 0
<1> DEFINE stop == Bisected(cmp, last)
           answer == lookup(cmp, match)
<1>1. Max(DOMAIN cmp) = last
  BY LastIsMax
<1>2. /\ stop \in Standing(last)
      /\ stop.bFound => cmp[stop.iThisIndex] = 0
      /\ ~stop.bFound => \A k \in 0..last : cmp[k] # 0
  BY BisectedRight
<1>3. stop.bFound \in BOOLEAN /\ stop.iThisIndex \in 0..last
  BY <1>2 DEF Standing
<1>4. 0 \in 0..last /\ last \in 0..last /\ cmp[0] \in Int /\ cmp[last] \in Int
  OBVIOUS
<1>5. CASE cmp[0] < 0
  <2>1. answer.bFound = FALSE
    BY <1>5 DEF lookup
  <2>2. ASSUME NEW k \in 0..last PROVE cmp[k] # 0
    <3>1. k = 0 \/ 0 < k
      OBVIOUS
    <3>2. cmp[k] < 0
      BY <1>4, <1>5, <3>1 DEF Sorted
    <3>3. QED BY <3>2
  <2>3. QED BY <2>1, <2>2
<1>6. CASE ~ (cmp[0] < 0) /\ cmp[last] > 0
  <2>1. answer.bFound = FALSE
    BY <1>1, <1>6 DEF lookup
  <2>2. ASSUME NEW k \in 0..last PROVE cmp[k] # 0
    <3> SUFFICES ASSUME cmp[k] = 0 PROVE FALSE
      OBVIOUS
    <3>1. k = last \/ k < last
      OBVIOUS
    <3>2. cmp[k] <= 0
      OBVIOUS
    <3>3. cmp[last] <= 0
      BY <1>4, <3>1, <3>2 DEF Sorted
    <3>4. QED BY <1>4, <1>6, <3>3
  <2>3. QED BY <2>1, <2>2
<1>7. CASE ~ (cmp[0] < 0) /\ ~ (cmp[last] > 0) /\ stop.bFound
  <2>1. answer.bFound = TRUE /\ answer.idx = stop.iThisIndex
    BY <1>1, <1>7 DEF lookup
  <2>2. QED BY <1>2, <1>3, <1>7, <2>1
<1>8. CASE ~ (cmp[0] < 0) /\ ~ (cmp[last] > 0) /\ ~stop.bFound
  <2>1. answer.bFound = FALSE
    BY <1>1, <1>8 DEF lookup
  <2>2. QED BY <1>2, <1>8, <2>1
<1>9. QED BY <1>5, <1>6, <1>7, <1>8

\* What a total order is.
LEMMA TotalFacts ==
    ASSUME NEW S, NEW cmp, TotalOn(S, cmp)
    PROVE  /\ \A s, t \in S : cmp[s][t] \in Int
           /\ \A s, t \in S : cmp[s][t] = -cmp[t][s]
           /\ \A s, t \in S : cmp[s][t] = 0 <=> s = t
           /\ \A s, t, u \in S : cmp[s][t] < 0 /\ cmp[t][u] < 0 => cmp[s][u] < 0
<1>1. \A s, t \in S : cmp[s][t] \in {-1, 0, 1}
  BY DEF TotalOn
<1>2. \A s, t \in S : cmp[s][t] = -cmp[t][s]
  BY DEF TotalOn
<1>3. \A s, t \in S : cmp[s][t] = 0 <=> s = t
  BY DEF TotalOn
<1>4. \A s, t, u \in S : cmp[s][t] < 0 /\ cmp[t][u] < 0 => cmp[s][u] < 0
  BY DEF TotalOn
<1>5. {-1, 0, 1} \subseteq Int
  OBVIOUS
<1>6. QED BY <1>1, <1>2, <1>3, <1>4, <1>5

\* The words of a version.
LEMMA WordFacts ==
    ASSUME NEW v \in Versions
    PROVE  /\ Count[v] \in Nat /\ Count[v] > 0
           /\ \A a \in 0..Count[v] - 1 : Words[v][a + 1] \in AllWords
           /\ \A s : s \in ToSet(Words[v]) <=>
                         \E a \in 0..Count[v] - 1 : Words[v][a + 1] = s
           /\ Queries \subseteq AllWords
<1>1. /\ Words[v] \in Seq(ToSet(Words[v])) /\ Count[v] = Len(Words[v])
      /\ Count[v] > 0
  BY CountAssumption
<1>2. Count[v] \in Nat /\ DOMAIN Words[v] = 1..Count[v]
  BY <1>1
<1>3. \A s : s \in ToSet(Words[v]) <=> \E k \in 1..Count[v] : Words[v][k] = s
  BY <1>2 DEF ToSet
<1>4. \A a \in 0..Count[v] - 1 : a + 1 \in 1..Count[v]
  BY <1>2
<1>5. \A k \in 1..Count[v] : k - 1 \in 0..Count[v] - 1 /\ k - 1 + 1 = k
  BY <1>2
<1>6. ASSUME NEW s
      PROVE  s \in ToSet(Words[v]) <=> \E a \in 0..Count[v] - 1 : Words[v][a + 1] = s
  <2>1. ASSUME s \in ToSet(Words[v]) PROVE \E a \in 0..Count[v] - 1 : Words[v][a + 1] = s
    <3>1. PICK k \in 1..Count[v] : Words[v][k] = s
      BY <1>3, <2>1
    <3>2. k - 1 \in 0..Count[v] - 1 /\ Words[v][k - 1 + 1] = s
      BY <1>5, <3>1
    <3>3. QED BY <3>2
  <2>2. ASSUME NEW a \in 0..Count[v] - 1, Words[v][a + 1] = s PROVE s \in ToSet(Words[v])
    BY <1>3, <1>4, <2>2
  <2>3. QED BY <2>1, <2>2
<1>7. \A a \in 0..Count[v] - 1 : Words[v][a + 1] \in AllWords
  BY <1>3, <1>4 DEF AllWords
<1>8. Queries \subseteq AllWords
  BY DEF AllWords
<1>9. QED BY <1>1, <1>2, <1>6, <1>7, <1>8

\* Of two positions one comes before the other.
LEMMA PositionOrder ==
    ASSUME CollationsTotal, NEW f \in Funcs, NEW v \in Versions
    PROVE  LET P == 0..Count[v] - 1
               C(a, b) == sort_collation_index(f, Words[v], a, b)
           IN  /\ \A a \in P : ~C(a, a)
               /\ \A a, b \in P : a # b => C(a, b) \/ C(b, a)
               /\ \A a, b, c \in P : C(a, b) /\ C(b, c) => C(a, c)
               /\ \A a, b \in P : C(a, b) => Collate[f][Words[v][a + 1]][Words[v][b + 1]] <= 0
<1> DEFINE P == 0..Count[v] - 1
           C(a, b) == sort_collation_index(f, Words[v], a, b)
           W(a) == Words[v][a + 1]
           cmp == Collate[f]
<1>1. \A a \in P : W(a) \in AllWords
  BY WordFacts
<1>2. /\ \A s, t \in AllWords : cmp[s][t] \in Int
      /\ \A s, t \in AllWords : cmp[s][t] = -cmp[t][s]
      /\ \A s, t \in AllWords : cmp[s][t] = 0 <=> s = t
      /\ \A s, t, u \in AllWords : cmp[s][t] < 0 /\ cmp[t][u] < 0 => cmp[s][u] < 0
  <2>1. TotalOn(AllWords, cmp)
    BY DEF CollationsTotal
  <2> HIDE DEF cmp
  <2>2. QED BY <2>1, TotalFacts
<1>3. \A a, b : C(a, b) <=> cmp[W(a)][W(b)] < 0 \/ (cmp[W(a)][W(b)] = 0 /\ a < b)
  BY DEF sort_collation_index
<1>4. \A a \in P : a \in Int
  BY WordFacts
<1> HIDE DEF P, C, W, cmp
<1>5. ASSUME NEW a \in P PROVE ~C(a, a)
  <2>1. cmp[W(a)][W(a)] = 0
    BY <1>1, <1>2
  <2>2. ~(a < a)
    BY <1>4
  <2>3. QED BY <1>3, <2>1, <2>2
<1>6. ASSUME NEW a \in P, NEW b \in P, a # b PROVE C(a, b) \/ C(b, a)
  <2>1. /\ cmp[W(a)][W(b)] \in Int /\ cmp[W(b)][W(a)] \in Int
        /\ cmp[W(a)][W(b)] = -cmp[W(b)][W(a)]
    BY <1>1, <1>2
  <2>2. a < b \/ b < a
    BY <1>4, <1>6
  <2>3. CASE cmp[W(a)][W(b)] = 0
    <3>1. cmp[W(b)][W(a)] = 0
      BY <2>1, <2>3
    <3>2. QED BY <1>3, <2>2, <2>3, <3>1
  <2>4. CASE cmp[W(a)][W(b)] < 0
    BY <1>3, <2>4
  <2>5. CASE cmp[W(a)][W(b)] > 0
    <3>1. cmp[W(b)][W(a)] < 0
      BY <2>1, <2>5
    <3>2. QED BY <1>3, <3>1
  <2>6. QED BY <2>1, <2>3, <2>4, <2>5
<1>7. ASSUME NEW a \in P, NEW b \in P, NEW c \in P, C(a, b), C(b, c) PROVE C(a, c)
  <2>1. CASE cmp[W(a)][W(b)] = 0
    <3>1. W(a) = W(b) /\ a < b
      <4>1. ~(cmp[W(a)][W(b)] < 0)
        BY <2>1
      <4>2. QED BY <1>1, <1>2, <1>3, <1>7, <2>1, <4>1
    <3>2. CASE cmp[W(b)][W(c)] = 0
      <4>1. b < c
        <5>1. ~(cmp[W(b)][W(c)] < 0)
          BY <3>2
        <5>2. QED BY <1>3, <1>7, <5>1
      <4>2. a < c
        BY <1>4, <3>1, <4>1
      <4>3. QED BY <1>3, <3>1, <3>2, <4>2
    <3>3. CASE cmp[W(b)][W(c)] < 0
      BY <1>3, <3>1, <3>3
    <3>4. QED BY <1>3, <1>7, <3>2, <3>3
  <2>2. CASE cmp[W(a)][W(b)] < 0
    <3>1. CASE cmp[W(b)][W(c)] = 0
      <4>1. W(b) = W(c)
        BY <1>1, <1>2, <3>1
      <4>2. QED BY <1>3, <2>2, <4>1
    <3>2. CASE cmp[W(b)][W(c)] < 0
      <4>1. cmp[W(a)][W(c)] < 0
        BY <1>1, <1>2, <2>2, <3>2
      <4>2. QED BY <1>3, <4>1
    <3>3. QED BY <1>3, <1>7, <3>1, <3>2
  <2>3. QED BY <1>3, <1>7, <2>1, <2>2
<1>8. ASSUME NEW a \in P, NEW b \in P, C(a, b) PROVE cmp[W(a)][W(b)] <= 0
  <2>1. cmp[W(a)][W(b)] \in Int
    BY <1>1, <1>2
  <2>2. QED BY <1>3, <1>8, <2>1
<1>9. QED BY <1>5, <1>6, <1>7, <1>8 DEF P, C, W, cmp

\* How many positions come before one tells it from the others, and gives their
\* order; every number up to the greatest is that of one.
LEMMA Ranks ==
    ASSUME CollationsTotal, NEW f \in Funcs, NEW v \in Versions
    PROVE  LET P == 0..Count[v] - 1
               C(a, b) == sort_collation_index(f, Words[v], a, b)
               R(a) == Cardinality(Preceding(f, v, a))
           IN  /\ \A a \in P : R(a) \in P
               /\ \A a, b \in P : C(a, b) => R(a) < R(b)
               /\ \A a, b \in P : R(a) = R(b) => a = b
               /\ \A k \in P : \E a \in P : R(a) = k
<1> DEFINE P == 0..Count[v] - 1
           C(a, b) == sort_collation_index(f, Words[v], a, b)
           B(a) == {b \in P : C(b, a)}
           r == [a \in P |-> Cardinality(B(a))]
<1>1. /\ \A a \in P : ~C(a, a)
      /\ \A a, b \in P : a # b => C(a, b) \/ C(b, a)
      /\ \A a, b, c \in P : C(a, b) /\ C(b, c) => C(a, c)
  BY PositionOrder
<1>2. \A a : Preceding(f, v, a) = B(a)
  BY DEF Preceding
<1>3. Count[v] \in Nat /\ Count[v] > 0
  BY WordFacts
<1>4. IsFiniteSet(P) /\ Cardinality(P) = Count[v]
  <2>1. 0 \in Int /\ Count[v] - 1 \in Int
    BY <1>3
  <2>2. /\ IsFiniteSet(P)
        /\ Cardinality(P) = IF 0 > Count[v] - 1 THEN 0 ELSE Count[v] - 1 - 0 + 1
    BY <2>1, FS_Interval
  <2> HIDE DEF P
  <2>3. QED BY <1>3, <2>2
<1>5. \A k \in P : k \in Nat
  BY <1>3
<1>6. \A k : k \in P <=> k \in Nat /\ k < Count[v]
  BY <1>3
<1> HIDE DEF P, C
<1>7. ASSUME NEW a \in P PROVE IsFiniteSet(B(a)) /\ Cardinality(B(a)) \in P
  <2>1. B(a) \in SUBSET P
    OBVIOUS
  <2>2. IsFiniteSet(B(a)) /\ Cardinality(B(a)) <= Count[v]
    BY <1>4, <2>1, FS_Subset
  <2>3. Cardinality(B(a)) \in Nat
    BY <2>2, FS_CardinalityType
  <2>4. Cardinality(B(a)) # Count[v]
    <3> SUFFICES ASSUME Cardinality(B(a)) = Count[v] PROVE FALSE
      OBVIOUS
    <3>1. P = B(a)
      BY <1>4, <2>1, FS_Subset
    <3>2. QED BY <1>1, <3>1
  <2>5. QED BY <1>3, <1>6, <2>2, <2>3, <2>4
<1>8. r \in [P -> P] /\ \A a \in P : r[a] = Cardinality(B(a))
  BY <1>7
<1>9. ASSUME NEW a \in P, NEW b \in P, C(a, b) PROVE r[a] < r[b]
  <2>1. B(a) \in SUBSET B(b)
    BY <1>1, <1>9
  <2>2. a \in B(b) /\ a \notin B(a)
    BY <1>1, <1>9
  <2>3. IsFiniteSet(B(b)) /\ Cardinality(B(b)) \in Nat /\ Cardinality(B(a)) \in Nat
    BY <1>5, <1>7
  <2> DEFINE S == B(b)
             T == B(a)
  <2> HIDE DEF S, T
  <2>4. IsFiniteSet(S) /\ T \in SUBSET S
    BY <2>1, <2>3 DEF S, T
  <2>5. Cardinality(T) <= Cardinality(S) /\ (Cardinality(S) = Cardinality(T) => S = T)
    BY <2>4, FS_Subset
  <2>6. S # T
    BY <2>2 DEF S, T
  <2>7. Cardinality(T) < Cardinality(S)
    BY <2>3, <2>5, <2>6 DEF S, T
  <2>8. QED BY <1>8, <2>7 DEF S, T
<1>10. ASSUME NEW a \in P, NEW b \in P, r[a] = r[b] PROVE a = b
  <2> SUFFICES ASSUME a # b PROVE FALSE
    OBVIOUS
  <2>1. r[a] < r[b] \/ r[b] < r[a]
    BY <1>1, <1>9
  <2>2. r[a] \in Nat /\ r[b] \in Nat
    BY <1>5, <1>8
  <2>3. QED BY <1>10, <2>1, <2>2
<1>11. \A k \in P : \E a \in P : r[a] = k
  <2> HIDE DEF r
  <2>1. r \in Injection(P, P)
    BY <1>8, <1>10 DEF Injection, IsInjective
  <2>2. r \in Surjection(P, P)
    BY <1>4, <2>1, FS_Injection
  <2>3. QED BY <2>2 DEF Surjection
<1>12. \A a \in P : r[a] = Cardinality(Preceding(f, v, a))
  BY <1>2, <1>8
<1> HIDE DEF r, B
<1>13. \A a \in P : r[a] \in P
  BY <1>8
<1>14. \A a \in P : Cardinality(Preceding(f, v, a)) \in P
  BY <1>12, <1>13
<1>15. \A a, b \in P :
           C(a, b) => Cardinality(Preceding(f, v, a)) < Cardinality(Preceding(f, v, b))
  BY <1>9, <1>12
<1>16. \A a, b \in P :
           Cardinality(Preceding(f, v, a)) = Cardinality(Preceding(f, v, b)) => a = b
  BY <1>10, <1>12
<1>17. \A k \in P : \E a \in P : Cardinality(Preceding(f, v, a)) = k
  BY <1>11, <1>12
<1>18. QED BY <1>14, <1>15, <1>16, <1>17 DEF P, C

\* The array lists every position once, in their order.
LEMMA OffsetsSorted ==
    ASSUME CollationsTotal, NEW f \in Funcs, NEW v \in Versions
    PROVE  LET o == Offsets[f][v]
           IN  /\ DOMAIN o = 1..Count[v]
               /\ \A k \in 1..Count[v] : o[k] \in 0..Count[v] - 1
               /\ \A a \in 0..Count[v] - 1 : \E k \in 1..Count[v] : o[k] = a
               /\ \A m, j \in 1..Count[v] :
                      m < j => Collate[f][Words[v][o[m] + 1]][Words[v][o[j] + 1]] <= 0
<1> DEFINE P == 0..Count[v] - 1
           C(a, b) == sort_collation_index(f, Words[v], a, b)
           R(a) == Cardinality(Preceding(f, v, a))
           o == Offsets[f][v]
<1>1. /\ \A a \in P : R(a) \in P
      /\ \A a, b \in P : C(a, b) => R(a) < R(b)
      /\ \A a, b \in P : R(a) = R(b) => a = b
      /\ \A k \in P : \E a \in P : R(a) = k
  BY Ranks
<1>2. /\ \A a, b \in P : a # b => C(a, b) \/ C(b, a)
      /\ \A a, b \in P : C(a, b) => Collate[f][Words[v][a + 1]][Words[v][b + 1]] <= 0
  BY PositionOrder
<1>3. Count[v] \in Nat /\ Count[v] > 0
  BY WordFacts
<1>4. o = [k \in 1..Count[v] |-> CHOOSE a \in P : R(a) = k - 1]
  BY DEF Offsets
<1>5. /\ \A k \in 1..Count[v] : k - 1 \in P
      /\ \A a \in P : a + 1 \in 1..Count[v] /\ a + 1 - 1 = a
      /\ \A a \in P : a \in Int
  BY <1>3
<1>6. \A m \in 1..Count[v] : m \in Int
  BY <1>3
<1> HIDE DEF P, C, R, o
<1>7. ASSUME NEW k \in 1..Count[v] PROVE o[k] \in P /\ R(o[k]) = k - 1
  <2>1. \E a \in P : R(a) = k - 1
    BY <1>1, <1>5
  <2>2. o[k] = CHOOSE a \in P : R(a) = k - 1
    BY <1>4
  <2>3. QED BY <2>1, <2>2
<1>8. ASSUME NEW a \in P PROVE \E k \in 1..Count[v] : o[k] = a
  <2>1. R(a) \in P
    BY <1>1
  <2> DEFINE k == R(a) + 1
  <2>2. k \in 1..Count[v] /\ k - 1 = R(a)
    BY <1>5, <2>1
  <2> HIDE DEF k
  <2>3. o[k] \in P /\ R(o[k]) = R(a)
    BY <1>7, <2>2
  <2>4. o[k] = a
    BY <1>1, <2>3
  <2>5. QED BY <2>2, <2>4
<1>9. ASSUME NEW m \in 1..Count[v], NEW j \in 1..Count[v], m < j PROVE C(o[m], o[j])
  <2>1. o[m] \in P /\ o[j] \in P /\ R(o[m]) = m - 1 /\ R(o[j]) = j - 1
    BY <1>7
  <2>2. m \in Int /\ j \in Int
    BY <1>6
  <2>3. o[m] # o[j]
    BY <1>9, <2>1, <2>2
  <2>4. ~ C(o[j], o[m])
    <3> SUFFICES ASSUME C(o[j], o[m]) PROVE FALSE
      OBVIOUS
    <3>1. j - 1 < m - 1
      BY <1>1, <2>1
    <3>2. QED BY <1>9, <2>2, <3>1
  <2>5. QED BY <1>2, <2>1, <2>3, <2>4
<1>10. \A m, j \in 1..Count[v] :
           m < j => Collate[f][Words[v][o[m] + 1]][Words[v][o[j] + 1]] <= 0
  BY <1>2, <1>7, <1>9
<1>11. DOMAIN o = 1..Count[v]
  BY <1>4
<1>12. QED BY <1>7, <1>8, <1>10, <1>11 DEF P, o

\* Every lookup is right in the order that is made of the words it is in.
LEMMA OwnLookups ==
    ASSUME CollationsTotal, NEW f \in Funcs, NEW v \in Versions, NEW s \in Queries
    PROVE  Right(v, s, Lookup(f, v, v, s))
<1> DEFINE o == Offsets[f][v]
           last == Count[v] - 1
           sorted == GetWords(o, Words[v])
           W(k) == Words[v][o[k] + 1]
           cmp == [k \in 0..Len(sorted) - 1 |-> Collate[f][s][sorted[k + 1]]]
           match == Matches(sorted, s)
           answer == lookup(cmp, match)
<1>1. /\ DOMAIN o = 1..Count[v]
      /\ \A k \in 1..Count[v] : o[k] \in 0..Count[v] - 1
      /\ \A a \in 0..Count[v] - 1 : \E k \in 1..Count[v] : o[k] = a
      /\ \A m, j \in 1..Count[v] : m < j => Collate[f][W(m)][W(j)] <= 0
  BY OffsetsSorted
<1>2. /\ Count[v] \in Nat /\ Count[v] > 0
      /\ \A a \in 0..Count[v] - 1 : Words[v][a + 1] \in AllWords
      /\ \A t : t \in ToSet(Words[v]) <=> \E a \in 0..Count[v] - 1 : Words[v][a + 1] = t
      /\ s \in AllWords
  BY WordFacts
<1>3. last \in Nat /\ \A k : k \in 0..last => k + 1 \in 1..Count[v]
  BY <1>2
<1>4. \A k \in 1..Count[v] : W(k) \in AllWords
  BY <1>1, <1>2
<1>5. Lookup(f, v, v, s) = CltIndexToOrig(o, answer)
  BY DEF Lookup
<1> HIDE DEF o
<1>6. sorted = [k \in 1..Count[v] |-> W(k)]
  BY <1>1 DEF GetWords
<1>7. Len(sorted) - 1 = last
  <2>1. DOMAIN sorted = 1..Count[v]
    BY <1>6
  <2>2. Len(sorted) = Count[v]
    <3>1. sorted \in Seq(AllWords)
      BY <1>2, <1>4, <1>6
    <3> HIDE DEF sorted
    <3>2. QED BY <1>2, <2>1, <3>1
  <2>3. QED BY <2>2
<1>8. cmp = [k \in 0..last |-> Collate[f][s][W(k + 1)]]
  <2>1. \A k \in 0..last : sorted[k + 1] = W(k + 1)
    BY <1>3, <1>6
  <2> HIDE DEF sorted
  <2>2. cmp = [k \in 0..last |-> Collate[f][s][sorted[k + 1]]]
    BY <1>7
  <2>3. QED BY <2>1, <2>2
<1> HIDE DEF sorted, cmp, match, answer, last
<1>9. /\ \A t, u \in AllWords : Collate[f][t][u] \in Int
      /\ \A t, u \in AllWords : Collate[f][t][u] = -Collate[f][u][t]
      /\ \A t, u \in AllWords : Collate[f][t][u] = 0 <=> t = u
      /\ \A t, u, w \in AllWords :
             Collate[f][t][u] < 0 /\ Collate[f][u][w] < 0 => Collate[f][t][w] < 0
  <2>1. TotalOn(AllWords, Collate[f])
    BY DEF CollationsTotal
  <2>2. QED BY <2>1, TotalFacts
<1>10. \A k \in 0..last : cmp[k] = Collate[f][s][W(k + 1)] /\ W(k + 1) \in AllWords
  BY <1>3, <1>4, <1>8
<1>11. cmp \in [0..last -> Int]
  BY <1>2, <1>8, <1>9, <1>10
<1>12. Sorted(cmp, last)
  <2> SUFFICES ASSUME NEW m \in 0..last, NEW j \in 0..last, m < j
               PROVE  /\ cmp[m] < 0 => cmp[j] < 0
                      /\ cmp[m] <= 0 => cmp[j] <= 0
    BY DEF Sorted
  <2> DEFINE x == W(m + 1)
             y == W(j + 1)
  <2>1. cmp[m] = Collate[f][s][x] /\ cmp[j] = Collate[f][s][y]
    BY <1>10
  <2>2. x \in AllWords /\ y \in AllWords
    BY <1>10
  <2>3. Collate[f][x][y] <= 0
    <3>1. m + 1 \in 1..Count[v] /\ j + 1 \in 1..Count[v]
      BY <1>3
    <3>2. m + 1 < j + 1
      BY <1>3
    <3>3. QED BY <1>1, <3>1, <3>2
  <2> HIDE DEF x, y
  <2>4. Collate[f][x][y] \in Int /\ Collate[f][s][x] \in Int /\ Collate[f][s][y] \in Int
    BY <1>2, <1>9, <2>2
  <2>5. CASE Collate[f][x][y] = 0
    <3>1. x = y
      BY <1>9, <2>2, <2>5
    <3>2. QED BY <2>1, <3>1
  <2>6. CASE Collate[f][x][y] < 0
    <3>1. Collate[f][s][x] < 0 => Collate[f][s][y] < 0
      BY <1>2, <1>9, <2>2, <2>6
    <3>2. Collate[f][s][x] = 0 => Collate[f][s][y] < 0
      <4>1. Collate[f][s][x] = 0 => s = x
        BY <1>2, <1>9, <2>2
      <4>2. QED BY <2>6, <4>1
    <3>3. QED BY <2>1, <2>4, <3>1, <3>2
  <2>7. QED BY <2>3, <2>4, <2>5, <2>6
<1>13. /\ answer.bFound <=> \E k \in 0..last : cmp[k] = 0
       /\ answer.bFound => answer.idx \in 0..last /\ cmp[answer.idx] = 0
  BY <1>3, <1>11, <1>12, LookupFinds DEF answer
<1>14. \A k \in 0..last : cmp[k] = 0 <=> W(k + 1) = s
  BY <1>2, <1>9, <1>10
<1>15. answer.bFound <=> s \in ToSet(Words[v])
  <2>1. ASSUME answer.bFound PROVE s \in ToSet(Words[v])
    <3>1. PICK k \in 0..last : W(k + 1) = s
      BY <1>13, <1>14, <2>1
    <3>2. o[k + 1] \in 0..Count[v] - 1
      BY <1>1, <1>3
    <3>3. QED BY <1>2, <3>1, <3>2
  <2>2. ASSUME s \in ToSet(Words[v]) PROVE answer.bFound
    <3>1. PICK a \in 0..Count[v] - 1 : Words[v][a + 1] = s
      BY <1>2, <2>2
    <3>2. PICK m \in 1..Count[v] : o[m] = a
      BY <1>1
    <3>3. m - 1 \in 0..last /\ m - 1 + 1 = m
      BY <1>2 DEF last
    <3>4. cmp[m - 1] = 0
      BY <1>14, <3>1, <3>2, <3>3
    <3>5. QED BY <1>13, <3>3, <3>4
  <2>3. answer.bFound \in BOOLEAN
    BY DEF answer, lookup
  <2>4. QED BY <2>1, <2>2
<1>16. ASSUME answer.bFound
       PROVE  answer.idx # INVALID_INDEX /\ Words[v][o[answer.idx + 1] + 1] = s
  <2>1. answer.idx \in 0..last /\ cmp[answer.idx] = 0
    BY <1>13, <1>16
  <2>2. answer.idx # -100
    BY <1>3, <2>1
  <2>3. QED BY <1>14, <2>1, <2>2 DEF INVALID_INDEX
<1>17. /\ CltIndexToOrig(o, answer).bFound = answer.bFound
       /\ answer.idx # INVALID_INDEX => CltIndexToOrig(o, answer).orig = o[answer.idx + 1]
  BY DEF CltIndexToOrig
<1>18. QED BY <1>5, <1>15, <1>16, <1>17 DEF Right

\* So the orders made of the words a version has are exact.
LEMMA OwnOrdersExact ==
    ASSUME CollationsTotal
    PROVE  \A f \in Funcs, v \in Versions : Exact[f][v][v]
<1> SUFFICES ASSUME NEW f \in Funcs, NEW v \in Versions PROVE Exact[f][v][v]
  OBVIOUS
<1>1. Exact[f][v][v] =
          (Count[v] = Count[v] /\ \A s \in Queries : Right(v, s, Lookup(f, v, v, s)))
  BY DEF Exact
<1>2. QED BY <1>1, OwnLookups

\* If stardict_collate is a total order of the words by every function, a lookup
\* is right in the order any cache says (collate_sort, collate_load,
\* collation_file::lookup), for all words, functions and files.
THEOREM LookupsStayExact == ASSUME CollationsTotal PROVE Spec => []LookupExact
<1>1. ASSUME Inv PROVE LookupExact
  <2> SUFFICES ASSUME NEW u \in Urls \ doubt, NEW n \in Names \ {"oft"},
                      open[u].cache[n] # NotLoaded
               PROVE  Exact[IF n = "clt" THEN session.func ELSE n]
                           [open[u].cache[n].made][open[u].version]
    BY DEF LookupExact
  <2>1. open[u].cache[n].made = open[u].version
    BY <1>1 DEF Inv, FreshInv
  <2>2. open[u] # Closed
    BY DEF Closed
  <2>3. open[u].version \in Versions
    BY <1>1, <2>2 DEF Inv, OpenInv, Opened
  <2>4. n \in NamesAt(session.level) /\ session \in Sessions
    BY <1>1 DEF Inv, OpenInv
  <2>5. session.level \in {0, 1, 2} /\ (session.level = 1 => session.func \in Funcs)
    BY <2>4, SessionFacts
  <2>6. (IF n = "clt" THEN session.func ELSE n) \in Funcs
    <3>1. CASE session.level = 0
      BY <2>4, <3>1 DEF NamesAt
    <3>2. CASE session.level = 1
      BY <2>4, <2>5, <3>2 DEF NamesAt
    <3>3. CASE session.level = 2
      BY <2>4, <3>3, FuncAssumption DEF NamesAt
    <3>4. QED BY <2>5, <3>1, <3>2, <3>3
  <2>7. QED BY <2>1, <2>3, <2>6, OwnOrdersExact
<1>2. QED BY <1>1, CachesInvariant, PTL

\* Looking words up in the app changes no cache: what holds of the indexes holds
\* while words are looked up (Select and the other steps of ResultLookup).
THEOREM LookupsKeepCaches == ResultSpec => Spec
<1>1. ResultInit => Init
  BY DEF ResultInit
<1>2. [ResultNext]_allVars => [Next]_vars
  BY DEF ResultNext, Elsewhere, Search, Select, Clear, allVars
<1>3. QED BY <1>1, <1>2, PTL DEF ResultSpec, Spec
=============================================================================
