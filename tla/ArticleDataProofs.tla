-------------------------- MODULE ArticleDataProofs --------------------------
(***************************************************************************)
(* The cache of DictBase::GetWordData is coherent, for any number of slots *)
(* and articles, whatever the bytes of an article are: MakeData and Stored *)
(* are not expanded for that.                                              *)
(*                                                                         *)
(* Then what they are: GetWordData makes of what is in the file the parts  *)
(* of the article (DataLayout), and parse_data walks from one to the next  *)
(* (Onwards), for any number of sections of any lengths.  This goes by     *)
(* induction on the number of sections, for which CountUp is used: the     *)
(* recursive functions of the model are given by their steps (JoinedSteps, *)
(* EndsSteps, PutHeadsSteps), and what holds at each step is said by a set *)
(* of numbers.                                                             *)
(***************************************************************************)
EXTENDS ArticleData, SequenceTheorems, WellFoundedInduction, TLAPS

\* No article is in two slots of the cache c.
Once(c) == \A i, j \in Slots :
              c[i] # Empty /\ c[j] # Empty /\ i # j => c[i].offset # c[j].offset

\* The inductive invariant, of a cache c with its cur, and of w and d, which
\* parse_data was given: that cur is a slot is needed for the slot that is
\* written, that c is a function on the slots for those that are not.
Inv(c, cur, w, d) ==
    /\ c = [i \in Slots |-> c[i]]
    /\ cur \in Slots
    /\ \A i \in Slots : c[i] # Empty => c[i].data = Data(c[i].offset)
    /\ Once(c)
    /\ w # -1 => d = Data(w)

CacheInv == Inv(cache, cache_cur, word, data)

\* After a slot has been given a new article, every slot that is in use still
\* holds the data made of its own article, and no article is held twice.
LEMMA PutIntoCache ==
    ASSUME NEW c, c = [i \in Slots |-> c[i]],
           NEW cur \in Slots, NEW o, NEW d, NEW c2,
           c2 = [c EXCEPT ![cur] = [offset |-> o, data |-> d]],
           {i \in Slots : c[i] # Empty /\ c[i].offset = o} = {},
           Once(c)
    PROVE  /\ c2 = [i \in Slots |-> c2[i]]
           /\ c2[cur].offset = o /\ c2[cur].data = d
           /\ \A i \in Slots : i # cur => c2[i] = c[i]
           /\ Once(c2)
<1>1. /\ c2 = [i \in Slots |-> c2[i]]
      /\ c2[cur] = [offset |-> o, data |-> d]
      /\ \A i \in Slots : i # cur => c2[i] = c[i]
  OBVIOUS
<1>2. c2[cur].offset = o /\ c2[cur].data = d
  BY <1>1
<1>3. ASSUME NEW i \in Slots, NEW j \in Slots,
             c2[i] # Empty, c2[j] # Empty, i # j
      PROVE  c2[i].offset # c2[j].offset
  <2>1. CASE i = cur
    <3>1. c2[j] = c[j] BY <1>1, <1>3, <2>1
    <3>2. c[j].offset # o BY <1>3, <3>1
    <3> QED BY <1>2, <2>1, <3>1, <3>2
  <2>2. CASE j = cur
    <3>1. c2[i] = c[i] BY <1>1, <1>3, <2>2
    <3>2. c[i].offset # o BY <1>3, <3>1
    <3> QED BY <1>2, <2>2, <3>1, <3>2
  <2>3. CASE i # cur /\ j # cur
    BY <1>1, <1>3, <2>3 DEF Once
  <2> QED BY <2>1, <2>2, <2>3
<1> QED BY <1>1, <1>2, <1>3 DEF Once

\* The next slot of the ring is a slot.
LEMMA NextSlot ==
    ASSUME NEW cur \in Slots
    PROVE  (cur + 1) % WORDDATA_CACHE_NUM \in Slots
  BY CacheAssumption DEF Slots

\* The empty cache is coherent.
LEMMA CacheInit == Init => CacheInv
  BY CacheAssumption DEF Init, CacheInv, Inv, Once, Slots, Empty

\* No step makes it incoherent.
LEMMA CacheStep == CacheInv /\ [Next]_vars => CacheInv'
<1> SUFFICES ASSUME CacheInv, [Next]_vars PROVE CacheInv'
  OBVIOUS
\* What GetWordData would make of an article never changes.
<1>1. UNCHANGED <<sametypesequence, dict>>
  BY DEF Next, Hit, Miss, Parse, ParseText, ParseBlock, ParseEnd, vars
<1>2. SUFFICES Inv(cache', cache_cur', word', data')
  BY <1>1 DEF CacheInv, Inv, Once, Data
<1>3. ASSUME NEW o \in Offsets, Hit(o)
      PROVE  Inv(cache', cache_cur', word', data')
  <2>1. PICK i \in Slots : cache[i] # Empty /\ cache[i].offset = o
                           /\ data' = cache[i].data /\ word' = o
    BY <1>3 DEF Hit, Parse, CachedAt
  <2>2. data' = Data(o)
    BY <2>1 DEF CacheInv, Inv
  <2>3. UNCHANGED <<cache, cache_cur>>
    BY <1>3 DEF Hit
  <2> QED BY <2>1, <2>2, <2>3 DEF CacheInv, Inv
<1>4. ASSUME NEW o \in Offsets, Miss(o)
      PROVE  Inv(cache', cache_cur', word', data')
  <2> DEFINE d == Data(o)
  <2>1. /\ cache' = [cache EXCEPT ![cache_cur] = [offset |-> o, data |-> d]]
        /\ cache_cur' = (cache_cur + 1) % WORDDATA_CACHE_NUM
        /\ {i \in Slots : cache[i] # Empty /\ cache[i].offset = o} = {}
        /\ data' = d /\ word' = o
    BY <1>4 DEF Miss, Parse, CachedAt
  <2>2. d = Data(o)
    OBVIOUS
  <2> HIDE DEF d
  <2>3. /\ cache' = [i \in Slots |-> cache'[i]]
        /\ cache'[cache_cur].offset = o /\ cache'[cache_cur].data = d
        /\ \A i \in Slots : i # cache_cur => cache'[i] = cache[i]
        /\ Once(cache')
    BY <2>1, PutIntoCache DEF CacheInv, Inv
  <2>4. cache_cur' \in Slots
    BY <2>1, NextSlot DEF CacheInv, Inv
  <2>5. \A i \in Slots : cache'[i] # Empty => cache'[i].data = Data(cache'[i].offset)
    BY <2>2, <2>3 DEF CacheInv, Inv
  <2>6. word' # -1 => data' = Data(word')
    BY <2>1, <2>2
  <2> QED BY <2>3, <2>4, <2>5, <2>6 DEF Inv
<1>5. CASE ParseText \/ ParseBlock \/ ParseEnd \/ UNCHANGED vars
  <2>1. UNCHANGED <<cache, cache_cur, data, word>>
    BY <1>5 DEF ParseText, ParseBlock, ParseEnd, vars
  <2> QED BY <2>1 DEF CacheInv
<1> QED BY <1>3, <1>4, <1>5 DEF Next

\* GetWordData never returns, nor keeps, the data of another article than the one
\* asked for, however many articles share the slots of its cache.
THEOREM CacheIsCoherent == Spec => []CacheCoherent
<1>1. CacheInv => CacheCoherent
  BY DEF CacheInv, Inv, Once, CacheCoherent
<1> QED BY <1>1, CacheInit, CacheStep, PTL DEF Spec

-----------------------------------------------------------------------------
(* Counting up, and what is computed on the way.                           *)

\* A set of numbers that is not empty has a least one.
LEMMA LeastNat ==
    ASSUME NEW T \in SUBSET Nat, T # {}
    PROVE  \E x \in T : \A y \in T : x <= y
<1> DEFINE R == OpToRel(<, Nat)
<1>1. IsWellFoundedOn(R, Nat)
  BY NatLessThanWellFounded
<1>2. \A x, y \in Nat : <<y, x>> \in R <=> y < x
  BY DEF OpToRel
<1> HIDE DEF R
<1>3. PICK x \in T : \A y \in T : ~ (<<y, x>> \in R)
  BY <1>1, WFMin
<1>4. ASSUME NEW y \in T PROVE x <= y
  <2>1. x \in Nat /\ y \in Nat
    OBVIOUS
  <2>2. ~ (y < x)
    BY <1>2, <1>3, <2>1
  <2>3. QED BY <2>1, <2>2
<1>5. QED BY <1>4

\* Induction up to n: what holds of 0, and of k + 1 if of k, is said by a set.
LEMMA CountUp ==
    ASSUME NEW n \in Nat, NEW T, 0 \in T, \A k \in 0..n - 1 : k \in T => k + 1 \in T
    PROVE  \A k \in 0..n : k \in T
<1> DEFINE Bad == {k \in 0..n : k \notin T}
<1>1. SUFFICES ASSUME Bad # {} PROVE FALSE
  OBVIOUS
<1>2. PICK x \in Bad : \A y \in Bad : x <= y
  <2>1. Bad \in SUBSET Nat
    OBVIOUS
  <2> HIDE DEF Bad
  <2>2. QED BY <1>1, <2>1, LeastNat
<1>3. x - 1 \in 0..n - 1
  OBVIOUS
<1>4. x - 1 \in T
  BY <1>2, <1>3
<1>5. x - 1 + 1 = x
  OBVIOUS
<1>6. QED BY <1>3, <1>4, <1>5

\* The recursion of Joined defines a function.
IsJoined(f, parts, n) ==
    f = [k \in 0..n |-> IF k = 0 THEN <<>> ELSE f[k - 1] \o parts[k]]

\* There is such a function, up to any number.
LEMMA JoinedExists ==
    ASSUME NEW parts, NEW n \in Nat
    PROVE  \E f : IsJoined(f, parts, n)
<1> DEFINE T == {m \in 0..n : \E f : IsJoined(f, parts, m)}
<1>1. 0 \in T
  <2>1. IsJoined([k \in 0..0 |-> <<>>], parts, 0)
    BY DEF IsJoined
  <2>2. QED BY <2>1
<1>2. ASSUME NEW m \in 0..n - 1, m \in T PROVE m + 1 \in T
  <2>1. PICK f : IsJoined(f, parts, m)
    BY <1>2
  <2> DEFINE g == [k \in 0..m + 1 |-> IF k <= m THEN f[k] ELSE f[m] \o parts[m + 1]]
  <2>2. \A k \in 0..m : g[k] = f[k]
    OBVIOUS
  <2>3. g[m + 1] = f[m] \o parts[m + 1]
    <3>1. m + 1 \in 0..m + 1 /\ ~(m + 1 <= m)
      OBVIOUS
    <3>2. QED BY <3>1
  <2>4. g = [k \in 0..m + 1 |-> g[k]]
    OBVIOUS
  <2>5. \A k \in 0..m : f[k] = IF k = 0 THEN <<>> ELSE f[k - 1] \o parts[k]
    BY <2>1 DEF IsJoined
  <2> HIDE DEF g
  <2>6. ASSUME NEW k \in 0..m + 1
        PROVE  g[k] = IF k = 0 THEN <<>> ELSE g[k - 1] \o parts[k]
    <3>1. CASE k \in 0..m
      <4>1. k # 0 => k - 1 \in 0..m
        BY <3>1
      <4>2. QED BY <2>2, <2>5, <3>1, <4>1
    <3>2. CASE k = m + 1
      <4>1. k - 1 = m /\ k # 0 /\ m \in 0..m
        BY <3>2
      <4>2. QED BY <2>2, <2>3, <3>2, <4>1
    <3>3. QED BY <3>1, <3>2
  <2>7. g = [k \in 0..m + 1 |-> IF k = 0 THEN <<>> ELSE g[k - 1] \o parts[k]]
    BY <2>4, <2>6
  <2>8. IsJoined(g, parts, m + 1)
    BY <2>7 DEF IsJoined
  <2>9. m + 1 \in 0..n
    OBVIOUS
  <2>10. QED BY <2>8, <2>9
<1> HIDE DEF T
<1>3. n \in T
  BY <1>1, <1>2, CountUp
<1>4. QED BY <1>3 DEF T

\* Joined goes part by part.
LEMMA JoinedSteps ==
    ASSUME NEW parts, Len(parts) \in Nat
    PROVE  /\ Joined(parts)[0] = <<>>
           /\ \A k \in 1..Len(parts) : Joined(parts)[k] = Joined(parts)[k - 1] \o parts[k]
<1> DEFINE n == Len(parts)
           f == Joined(parts)
<1>1. f = CHOOSE g : IsJoined(g, parts, n)
  BY DEF Joined, IsJoined
<1>2. IsJoined(f, parts, n)
  BY <1>1, JoinedExists
<1> HIDE DEF f
<1>3. f[0] = <<>> /\ \A k \in 1..n : f[k] = f[k - 1] \o parts[k]
  BY <1>2 DEF IsJoined
<1>4. QED BY <1>3 DEF f

-----------------------------------------------------------------------------
(* Bytes, sections, and what GetWordData writes for each.                  *)

Section == [type : Types, len : Lens]
Bytes == {NUL, Char, <<"size">>} \cup {Type(t) : t \in Types}
            \cup {<<"size", n, order>> : n \in Nat, order \in {"network", "host"}}

\* These are bytes; a text is not taken for its end, nor a type for another.
LEMMA ByteFacts ==
    /\ NUL \in Bytes /\ Char \in Bytes /\ <<"size">> \in Bytes
    /\ \A t \in Types : Type(t) \in Bytes
    /\ \A n \in Nat, order \in {"network", "host"} : <<"size", n, order>> \in Bytes
    /\ Char # NUL /\ \A t, u \in Types : Type(t) = Type(u) => t = u
<1>1. Char # NUL
  BY DEF Char, NUL
<1>2. \A t, u \in Types : Type(t) = Type(u) => t = u
  BY DEF Type
<1>3. QED BY <1>1, <1>2 DEF Bytes

\* What stands where when two sequences of bytes are put together.
LEMMA ConcatBytes ==
    ASSUME NEW s \in Seq(Bytes), NEW t \in Seq(Bytes)
    PROVE  /\ s \o t \in Seq(Bytes)
           /\ Len(s) \in Nat /\ Len(t) \in Nat /\ Len(s \o t) = Len(s) + Len(t)
           /\ \A k \in 1..Len(s) : (s \o t)[k] = s[k]
           /\ \A k \in 1..Len(t) : (s \o t)[Len(s) + k] = t[k]
<1>1. /\ s \o t \in Seq(Bytes)
      /\ Len(s) \in Nat /\ Len(t) \in Nat /\ Len(s \o t) = Len(s) + Len(t)
      /\ \A k \in 1..Len(s) + Len(t) : (s \o t)[k] = IF k <= Len(s) THEN s[k] ELSE t[k - Len(s)]
  BY ConcatProperties, LenProperties
<1> DEFINE u == s \o t
           m == Len(s)
           n == Len(t)
<1> HIDE DEF u, m, n
<1>2. m \in Nat /\ n \in Nat
      /\ \A k \in 1..m + n : u[k] = IF k <= m THEN s[k] ELSE t[k - m]
  BY <1>1 DEF u, m, n
<1>3. \A k \in 1..m : u[k] = s[k]
  BY <1>2
<1>4. ASSUME NEW k \in 1..n PROVE u[m + k] = t[k]
  <2>1. m + k \in 1..m + n /\ ~(m + k <= m) /\ m + k - m = k
    BY <1>2
  <2>2. QED BY <1>2, <2>1
<1>5. QED BY <1>1, <1>3, <1>4 DEF u, m, n

\* It does not matter which of three are put together first,
LEMMA BytesAssociative ==
    ASSUME NEW s \in Seq(Bytes), NEW t \in Seq(Bytes), NEW u \in Seq(Bytes)
    PROVE  (s \o t) \o u = s \o (t \o u)
BY ConcatAssociative

\* and what follows the same beginning is the same.
LEMMA BytesCancel ==
    ASSUME NEW s \in Seq(Bytes), NEW t \in Seq(Bytes), NEW u \in Seq(Bytes), s \o t = s \o u
    PROVE  t = u
<1> DEFINE x == s \o t
<1>1. /\ Len(s) \in Nat /\ Len(t) \in Nat /\ Len(x) = Len(s) + Len(t)
      /\ \A k \in 1..Len(t) : x[Len(s) + k] = t[k]
  BY ConcatBytes
<1>2. x = s \o u
  OBVIOUS
<1> HIDE DEF x
<1>3. /\ Len(u) \in Nat /\ Len(x) = Len(s) + Len(u)
      /\ \A k \in 1..Len(u) : x[Len(s) + k] = u[k]
  BY <1>2, ConcatBytes
<1>4. Len(t) = Len(u)
  BY <1>1, <1>3
<1>5. \A k \in 1..Len(t) : t[k] = u[k]
  BY <1>1, <1>3, <1>4
<1>6. QED BY <1>4, <1>5, SeqEqual

\* A section has a length and one of the two types.
LEMMA SectionFacts ==
    ASSUME NEW s \in Section
    PROVE  s.len \in Nat /\ s.type \in Types /\ (s.type = "m" \/ s.type = "W")
BY BoundAssumption DEF Section, Types

\* A function on 1..n is a sequence of n elements.
LEMMA FunctionIsSeq ==
    ASSUME NEW S, NEW n \in Nat, NEW f \in [1..n -> S]
    PROVE  f \in Seq(S) /\ Len(f) = n
BY SeqDef

\* The content is as long as said, and in a text it has no NUL.
LEMMA ContentFacts ==
    ASSUME NEW s \in Section
    PROVE  /\ Content(s) \in Seq(Bytes) /\ Len(Content(s)) = s.len
           /\ s.type = "m" => \A k \in 1..s.len : Content(s)[k] = Char
<1>1. s.len \in Nat
  BY SectionFacts
<1>2. Content(s) = [k \in 1..s.len |-> IF s.type = "m" THEN Char ELSE NUL]
  BY DEF Content
<1>3. Content(s) \in [1..s.len -> Bytes]
  BY <1>2, ByteFacts
<1>4. Content(s) \in Seq(Bytes) /\ Len(Content(s)) = s.len
  BY <1>1, <1>3, FunctionIsSeq
<1>5. QED BY <1>2, <1>4

\* A size takes four bytes, the first of which tells number and order.
LEMMA Guint32Facts ==
    ASSUME NEW n \in Nat, NEW order \in {"network", "host"}
    PROVE  /\ Guint32(n, order) \in Seq(Bytes) /\ Len(Guint32(n, order)) = SizeOf
           /\ Guint32(n, order)[1] = <<"size", n, order>>
<1> DEFINE e == <<"size", n, order>>
           f == [k \in 1..SizeOf - 1 |-> <<"size">>]
<1>1. e \in Bytes /\ <<"size">> \in Bytes
  BY ByteFacts
<1> HIDE DEF e
<1>2. <<e>> \in Seq(Bytes) /\ Len(<<e>>) = 1 /\ <<e>>[1] = e
  BY <1>1
<1>3. f \in Seq(Bytes) /\ Len(f) = 3
  BY <1>1 DEF SizeOf
<1> HIDE DEF f
<1>4. <<e>> \o f \in Seq(Bytes) /\ Len(<<e>> \o f) = 4 /\ (<<e>> \o f)[1] = e
  BY <1>2, <1>3, ConcatBytes
<1>5. QED BY <1>4 DEF Guint32, SizeOf, e, f

\* A block is its size and its content.
LEMMA BlockFacts ==
    ASSUME NEW s \in Section, NEW order \in {"network", "host"}
    PROVE  LET b == Guint32(s.len, order) \o Content(s)
           IN  b \in Seq(Bytes) /\ Len(b) = s.len + 4 /\ b[1] = <<"size", s.len, order>>
<1> DEFINE g == Guint32(s.len, order)
           c == Content(s)
<1>1. s.len \in Nat /\ c \in Seq(Bytes) /\ Len(c) = s.len
  BY SectionFacts, ContentFacts
<1>2. g \in Seq(Bytes) /\ Len(g) = 4 /\ g[1] = <<"size", s.len, order>>
  BY <1>1, Guint32Facts DEF SizeOf
<1> HIDE DEF g, c
<1>3. /\ g \o c \in Seq(Bytes) /\ Len(g \o c) = Len(g) + Len(c)
      /\ \A k \in 1..Len(g) : (g \o c)[k] = g[k]
  BY <1>1, <1>2, ConcatBytes
<1>4. 1 \in 1..Len(g) /\ Len(g) + Len(c) = s.len + 4
  BY <1>1, <1>2
<1>5. g \o c \in Seq(Bytes) /\ Len(g \o c) = s.len + 4 /\ (g \o c)[1] = <<"size", s.len, order>>
  BY <1>2, <1>3, <1>4
<1>6. QED BY <1>5 DEF g, c

\* What is in the file for a section, if nothing is left out but the type.
LEMMA WholeFacts ==
    ASSUME NEW s \in Section
    PROVE  /\ Whole(s) \in Seq(Bytes) /\ Len(Whole(s)) + 1 = SectionSize(s)
           /\ s.type = "m" => /\ Whole(s) = Append(Content(s), NUL)
                              /\ \A k \in 1..s.len : Whole(s)[k] # NUL
                              /\ Whole(s)[s.len + 1] = NUL
           /\ s.type = "W" => Whole(s) = Guint32(s.len, "network") \o Content(s)
<1>1. /\ s.len \in Nat /\ (s.type = "m" \/ s.type = "W")
      /\ Content(s) \in Seq(Bytes) /\ Len(Content(s)) = s.len
      /\ s.type = "m" => \A k \in 1..s.len : Content(s)[k] = Char
  BY SectionFacts, ContentFacts
<1>2. CASE s.type = "m"
  <2>1. Whole(s) = Append(Content(s), NUL)
    BY <1>2 DEF Whole
  <2>2. /\ Whole(s) \in Seq(Bytes) /\ Len(Whole(s)) = s.len + 1
        /\ \A k \in 1..s.len : Whole(s)[k] = Content(s)[k]
        /\ Whole(s)[s.len + 1] = NUL
    BY <1>1, <2>1, ByteFacts, AppendProperties
  <2>3. \A k \in 1..s.len : Whole(s)[k] # NUL
    BY <1>1, <1>2, <2>2, ByteFacts
  <2>4. Len(Whole(s)) + 1 = SectionSize(s)
    BY <1>1, <1>2, <2>2 DEF SectionSize
  <2>5. QED BY <1>2, <2>1, <2>2, <2>3, <2>4
<1>3. CASE s.type = "W"
  <2>1. Whole(s) = Guint32(s.len, "network") \o Content(s)
    BY <1>3 DEF Whole
  <2>2. Whole(s) \in Seq(Bytes) /\ Len(Whole(s)) = s.len + 4
    BY <2>1, BlockFacts
  <2>3. Len(Whole(s)) + 1 = SectionSize(s)
    BY <1>1, <1>3, <2>2 DEF SectionSize, SizeOf
  <2>4. QED BY <1>3, <2>1, <2>2, <2>3
<1>4. QED BY <1>1, <1>2, <1>3

\* What stands in the data for section k: the types are back, the last text has
\* its end and the last block a size, in the order of bytes of the host.
Body(types, secs, k) ==
    IF types # <<>> /\ k = Len(secs) /\ secs[k].type = "W"
    THEN Guint32(secs[k].len, "host") \o Content(secs[k])
    ELSE Whole(secs[k])
Part(types, secs, k) == <<Type(secs[k].type)>> \o Body(types, secs, k)
Parts(types, secs) == [k \in 1..Len(secs) |-> Part(types, secs, k)]

\* What parse_data goes by: the type in front, the end of a text, the size of a
\* block, which is in the wrong order of the last one at most.
IsPart(part, s, last) ==
    /\ part[1] = Type(s.type)
    /\ s.type = "m" => /\ \A j \in 1..s.len : part[j + 1] # NUL
                       /\ part[s.len + 2] = NUL
    /\ s.type = "W" => \E order \in {"network", "host"} :
                          /\ part[2] = <<"size", s.len, order>>
                          /\ order = "host" => last

\* A part of the data is what parse_data goes by.
LEMMA PartFacts ==
    ASSUME NEW types, NEW secs \in Seq(Section), NEW k \in 1..Len(secs)
    PROVE  /\ Body(types, secs, k) \in Seq(Bytes)
           /\ Part(types, secs, k) \in Seq(Bytes)
           /\ Len(Part(types, secs, k)) = SectionSize(secs[k])
           /\ IsPart(Part(types, secs, k), secs[k], k = Len(secs))
<1> DEFINE s == secs[k]
           b == Body(types, secs, k)
           t == Type(s.type)
           part == <<t>> \o b
<1>1. s \in Section /\ s.len \in Nat /\ s.type \in Types /\ (s.type = "m" \/ s.type = "W")
  BY SectionFacts
<1>2. t \in Bytes
  BY <1>1, ByteFacts
<1>3. /\ b \in Seq(Bytes) /\ Len(b) + 1 = SectionSize(s)
      /\ s.type = "m" => /\ \A j \in 1..s.len : b[j] # NUL
                         /\ b[s.len + 1] = NUL
      /\ s.type = "W" => \E order \in {"network", "host"} :
                            /\ b[1] = <<"size", s.len, order>>
                            /\ order = "host" => k = Len(secs)
  <2> HIDE DEF s
  <2>1. CASE types # <<>> /\ k = Len(secs) /\ s.type = "W"
    <3>1. b = Guint32(s.len, "host") \o Content(s)
      BY <2>1 DEF Body, s
    <3> HIDE DEF b
    <3>2. b \in Seq(Bytes) /\ Len(b) = s.len + 4 /\ b[1] = <<"size", s.len, "host">>
      BY <1>1, <3>1, BlockFacts
    <3>3. Len(b) + 1 = SectionSize(s)
      BY <1>1, <2>1, <3>2 DEF SectionSize, SizeOf
    <3>4. QED BY <2>1, <3>2, <3>3
  <2>2. CASE ~(types # <<>> /\ k = Len(secs) /\ s.type = "W")
    <3>1. b = Whole(s)
      BY <2>2 DEF Body, s
    <3> HIDE DEF b
    <3>2. CASE s.type = "m"
      BY <1>1, <3>1, <3>2, WholeFacts
    <3>3. CASE s.type = "W"
      <4>1. Whole(s) \in Seq(Bytes) /\ Len(Whole(s)) + 1 = SectionSize(s)
            /\ Whole(s) = Guint32(s.len, "network") \o Content(s)
        BY <1>1, <3>3, WholeFacts
      <4>2. b[1] = <<"size", s.len, "network">>
        BY <1>1, <3>1, <4>1, BlockFacts
      <4>3. QED BY <3>1, <3>3, <4>1, <4>2
    <3>4. QED BY <1>1, <3>2, <3>3
  <2>3. QED BY <2>1, <2>2
<1> HIDE DEF s, b, t
<1>4. <<t>> \in Seq(Bytes) /\ Len(<<t>>) = 1 /\ <<t>>[1] = t
  BY <1>2
<1>5. /\ part \in Seq(Bytes) /\ Len(part) = 1 + Len(b) /\ part[1] = t
      /\ \A j \in 1..Len(b) : part[j + 1] = b[j]
  <2> HIDE DEF part
  <2>1. /\ part \in Seq(Bytes) /\ Len(part) = 1 + Len(b)
        /\ \A i \in 1..1 + Len(b) : part[i] = IF i <= 1 THEN <<t>>[i] ELSE b[i - 1]
    BY <1>3, <1>4, ConcatBytes DEF part
  <2>2. Len(b) \in Nat
    BY <1>3
  <2>3. part[1] = t
    BY <1>4, <2>1, <2>2
  <2>4. \A j \in 1..Len(b) : part[j + 1] = b[j]
    BY <2>1, <2>2
  <2>5. QED BY <2>1, <2>3, <2>4
<1>6. part = Part(types, secs, k)
  BY DEF Part, s, b, t
<1> HIDE DEF part
<1>7. Len(b) \in Nat
  BY <1>3
<1>8. Len(part) = SectionSize(s)
  BY <1>3, <1>5, <1>7
<1>9. s.type = "m" => /\ \A j \in 1..s.len : part[j + 1] # NUL
                      /\ part[s.len + 2] = NUL
  <2> SUFFICES ASSUME s.type = "m" PROVE /\ \A j \in 1..s.len : part[j + 1] # NUL
                                         /\ part[s.len + 2] = NUL
    OBVIOUS
  <2>1. Len(b) = s.len + 1
    BY <1>1, <1>3, <1>7 DEF SectionSize
  <2>2. s.len + 1 \in 1..Len(b) /\ s.len + 1 + 1 = s.len + 2 /\ 1..s.len \subseteq 1..Len(b)
    BY <1>1, <2>1
  <2>3. QED BY <1>3, <1>5, <2>2
<1>10. s.type = "W" => part[2] = b[1]
  <2> SUFFICES ASSUME s.type = "W" PROVE part[2] = b[1]
    OBVIOUS
  <2>1. Len(b) = s.len + 4
    BY <1>1, <1>3, <1>7 DEF SectionSize, SizeOf
  <2>2. 1 \in 1..Len(b) /\ 1 + 1 = 2
    BY <1>1, <2>1
  <2>3. QED BY <1>5, <2>2
<1>11. IsPart(part, s, k = Len(secs))
  BY <1>3, <1>5, <1>9, <1>10 DEF IsPart, t
<1>12. QED BY <1>3, <1>5, <1>6, <1>8, <1>11 DEF s, b

-----------------------------------------------------------------------------
(* Where sections end, and the bytes that lie between.                     *)

\* The recursion of Ends defines a function too.
IsEnds(f, secs, n) ==
    f = [k \in 0..n |-> IF k = 0 THEN 0 ELSE f[k - 1] + SectionSize(secs[k])]

\* There is such a function, up to any number.
LEMMA EndsExists ==
    ASSUME NEW secs, NEW n \in Nat
    PROVE  \E f : IsEnds(f, secs, n)
<1> DEFINE T == {m \in 0..n : \E f : IsEnds(f, secs, m)}
<1>1. 0 \in T
  <2>1. IsEnds([k \in 0..0 |-> 0], secs, 0)
    BY DEF IsEnds
  <2>2. QED BY <2>1
<1>2. ASSUME NEW m \in 0..n - 1, m \in T PROVE m + 1 \in T
  <2>1. PICK f : IsEnds(f, secs, m)
    BY <1>2
  <2> DEFINE g == [k \in 0..m + 1 |-> IF k <= m THEN f[k] ELSE f[m] + SectionSize(secs[m + 1])]
  <2>2. \A k \in 0..m : g[k] = f[k]
    OBVIOUS
  <2>3. g[m + 1] = f[m] + SectionSize(secs[m + 1])
    <3>1. m + 1 \in 0..m + 1 /\ ~(m + 1 <= m)
      OBVIOUS
    <3>2. QED BY <3>1
  <2>4. g = [k \in 0..m + 1 |-> g[k]]
    OBVIOUS
  <2>5. \A k \in 0..m : f[k] = IF k = 0 THEN 0 ELSE f[k - 1] + SectionSize(secs[k])
    BY <2>1 DEF IsEnds
  <2> HIDE DEF g
  <2>6. ASSUME NEW k \in 0..m + 1
        PROVE  g[k] = IF k = 0 THEN 0 ELSE g[k - 1] + SectionSize(secs[k])
    <3>1. CASE k \in 0..m
      <4>1. k # 0 => k - 1 \in 0..m
        BY <3>1
      <4>2. QED BY <2>2, <2>5, <3>1, <4>1
    <3>2. CASE k = m + 1
      <4>1. k - 1 = m /\ k # 0 /\ m \in 0..m
        BY <3>2
      <4>2. QED BY <2>2, <2>3, <3>2, <4>1
    <3>3. QED BY <3>1, <3>2
  <2>7. g = [k \in 0..m + 1 |-> IF k = 0 THEN 0 ELSE g[k - 1] + SectionSize(secs[k])]
    BY <2>4, <2>6
  <2>8. IsEnds(g, secs, m + 1)
    BY <2>7 DEF IsEnds
  <2>9. m + 1 \in 0..n
    OBVIOUS
  <2>10. QED BY <2>8, <2>9
<1> HIDE DEF T
<1>3. n \in T
  BY <1>1, <1>2, CountUp
<1>4. QED BY <1>3 DEF T

\* Ends goes section by section.
LEMMA EndsSteps ==
    ASSUME NEW secs, Len(secs) \in Nat
    PROVE  /\ Ends(secs)[0] = 0
           /\ \A k \in 1..Len(secs) : Ends(secs)[k] = Ends(secs)[k - 1] + SectionSize(secs[k])
<1> DEFINE n == Len(secs)
           f == Ends(secs)
<1>1. f = CHOOSE g : IsEnds(g, secs, n)
  BY DEF Ends, IsEnds
<1>2. IsEnds(f, secs, n)
  BY <1>1, EndsExists
<1> HIDE DEF f
<1>3. f[0] = 0 /\ \A k \in 1..n : f[k] = f[k - 1] + SectionSize(secs[k])
  BY <1>2 DEF IsEnds
<1>4. QED BY <1>3 DEF f

\* The sizes of both kinds of sections.
LEMMA SizeFacts ==
    ASSUME NEW s \in Section
    PROVE  /\ SectionSize(s) \in Nat
           /\ s.type = "m" => SectionSize(s) = s.len + 2
           /\ s.type = "W" => SectionSize(s) = s.len + 5
BY SectionFacts DEF SectionSize, SizeOf

\* The ends are numbers, and in order.
LEMMA EndsFacts ==
    ASSUME NEW secs \in Seq(Section)
    PROVE  /\ \A k \in 0..Len(secs) : Ends(secs)[k] \in Nat
           /\ \A k \in 0..Len(secs) : \A j \in 0..k : Ends(secs)[j] <= Ends(secs)[k]
<1> DEFINE n == Len(secs)
           e == Ends(secs)
           z == [k \in 1..n |-> SectionSize(secs[k])]
           N == {k \in 0..n : e[k] \in Nat}
           T == {k \in 0..n : \A j \in 0..k : e[j] <= e[k]}
<1>1. n \in Nat
  OBVIOUS
<1>2. \A k \in 1..n : z[k] \in Nat /\ e[k] = e[k - 1] + z[k]
  <2>1. \A k \in 1..n : secs[k] \in Section
    OBVIOUS
  <2>2. \A k \in 1..n : SectionSize(secs[k]) \in Nat
    BY <2>1, SizeFacts
  <2>3. QED BY <1>1, <2>2, EndsSteps
<1>3. e[0] = 0
  BY <1>1, EndsSteps
<1> HIDE DEF n, e, z
<1>4. \A k \in 0..n - 1 : /\ k + 1 \in 1..n /\ k + 1 \in 0..n
                          /\ e[k + 1] = e[k] + z[k + 1] /\ z[k + 1] \in Nat
  <2> TAKE k \in 0..n - 1
  <2>1. k + 1 \in 1..n /\ k + 1 - 1 = k /\ k + 1 \in 0..n
    BY <1>1
  <2>2. QED BY <1>2, <2>1
<1>5. \A k \in 0..n : e[k] \in Nat
  <2>1. 0 \in N
    BY <1>1, <1>3
  <2>2. \A k \in 0..n - 1 : k \in N => k + 1 \in N
    BY <1>4
  <2> HIDE DEF N
  <2>3. \A k \in 0..n : k \in N
    BY <1>1, <2>1, <2>2, CountUp
  <2>4. QED BY <2>3 DEF N
<1>6. \A k \in 0..n : \A j \in 0..k : e[j] <= e[k]
  <2>1. 0 \in T
    BY <1>1, <1>3
  <2>2. ASSUME NEW k \in 0..n - 1, k \in T PROVE k + 1 \in T
    <3>1. e[k] \in Nat /\ e[k + 1] \in Nat /\ e[k] <= e[k + 1] /\ k + 1 \in 0..n
      BY <1>1, <1>4, <1>5
    <3>2. ASSUME NEW j \in 0..k + 1 PROVE e[j] <= e[k + 1]
      <4>1. CASE j = k + 1
        BY <3>1, <4>1
      <4>2. CASE j # k + 1
        <5>1. j \in 0..k /\ j \in 0..n
          BY <1>1, <4>2
        <5>2. e[j] <= e[k] /\ e[j] \in Nat
          BY <1>5, <2>2, <5>1
        <5>3. QED BY <3>1, <5>2
      <4>3. QED BY <4>1, <4>2
    <3>3. QED BY <3>1, <3>2
  <2> HIDE DEF T
  <2>3. \A k \in 0..n : k \in T
    BY <1>1, <2>1, <2>2, CountUp
  <2>4. QED BY <2>3 DEF T
<1>7. QED BY <1>5, <1>6 DEF n, e

\* What is joined from sequences of bytes is one, and begins with what is joined
\* from the first of them.
LEMMA JoinedBytes ==
    ASSUME NEW parts, Len(parts) \in Nat,
           \A k \in 1..Len(parts) : parts[k] \in Seq(Bytes)
    PROVE  /\ \A k \in 0..Len(parts) : Joined(parts)[k] \in Seq(Bytes)
           /\ \A m \in 0..Len(parts) : \A k \in 0..m :
                 \E u \in Seq(Bytes) : Joined(parts)[m] = Joined(parts)[k] \o u
           /\ \A k \in 0..Len(parts) - 1 : Joined(parts)[k + 1] = Joined(parts)[k] \o parts[k + 1]
<1> DEFINE n == Len(parts)
           f == Joined(parts)
           N == {k \in 0..n : f[k] \in Seq(Bytes)}
           T == {m \in 0..n : \A k \in 0..m : \E u \in Seq(Bytes) : f[m] = f[k] \o u}
<1>1. n \in Nat
  OBVIOUS
<1>2. /\ f[0] = <<>>
      /\ \A k \in 1..n : f[k] = f[k - 1] \o parts[k]
      /\ \A k \in 1..n : parts[k] \in Seq(Bytes)
  BY <1>1, JoinedSteps
<1> HIDE DEF n, f
<1>3. \A k \in 0..n - 1 : /\ k + 1 \in 1..n /\ k + 1 \in 0..n
                          /\ f[k + 1] = f[k] \o parts[k + 1]
                          /\ parts[k + 1] \in Seq(Bytes)
  <2> TAKE k \in 0..n - 1
  <2>1. k + 1 \in 1..n /\ k + 1 - 1 = k /\ k + 1 \in 0..n
    BY <1>1
  <2>2. parts[k + 1] \in Seq(Bytes)
    BY <1>2, <2>1, Zenon
  <2> DEFINE i == k + 1
  <2>3. i \in 1..n /\ i - 1 = k
    BY <2>1
  <2> HIDE DEF i
  <2>4. f[i] = f[i - 1] \o parts[i]
    BY <1>2, <2>3, Zenon
  <2>5. f[i] = f[k] \o parts[i]
    BY <2>3, <2>4, Zenon
  <2>6. QED BY <2>1, <2>2, <2>5, Zenon DEF i
<1>4. \A k \in 0..n : f[k] \in Seq(Bytes)
  <2>1. 0 \in N
    <3>1. 0 \in 0..n
      BY <1>1
    <3>2. f[0] \in Seq(Bytes)
      BY <1>2, EmptySeq, Zenon
    <3>3. QED BY <3>1, <3>2
  <2>2. ASSUME NEW k \in 0..n - 1, k \in N PROVE k + 1 \in N
    <3>1. f[k] \in Seq(Bytes)
      BY <2>2
    <3>2. f[k] \o parts[k + 1] \in Seq(Bytes)
      BY <1>3, <3>1, ConcatBytes
    <3>3. QED BY <1>3, <3>2
  <2> HIDE DEF N
  <2>3. \A k \in 0..n : k \in N
    BY <1>1, <2>1, <2>2, CountUp
  <2>4. QED BY <2>3 DEF N
<1>5. \A k \in 0..n : f[k] = f[k] \o <<>> /\ <<>> \in Seq(Bytes)
  BY <1>4, ConcatEmptySeq, EmptySeq
<1>6. \A m \in 0..n : \A k \in 0..m : \E u \in Seq(Bytes) : f[m] = f[k] \o u
  <2>1. 0 \in T
    <3>1. \A k \in 0..0 : k = 0
      OBVIOUS
    <3>2. 0 \in 0..n
      BY <1>1
    <3>3. QED BY <1>5, <3>1, <3>2
  <2>2. ASSUME NEW m \in 0..n - 1, m \in T PROVE m + 1 \in T
    <3>1. m + 1 \in 0..n /\ m \in 0..n
      BY <1>1
    <3>2. ASSUME NEW k \in 0..m + 1 PROVE \E u \in Seq(Bytes) : f[m + 1] = f[k] \o u
      <4>1. CASE k = m + 1
        BY <1>5, <3>1, <4>1
      <4>2. CASE k # m + 1
        <5>1. k \in 0..m /\ k \in 0..n
          BY <1>1, <4>2
        <5>2. PICK u \in Seq(Bytes) : f[m] = f[k] \o u
          BY <2>2, <5>1
        <5>3. f[m + 1] = (f[k] \o u) \o parts[m + 1] /\ parts[m + 1] \in Seq(Bytes)
          BY <1>3, <5>2
        <5>4. f[k] \in Seq(Bytes)
          BY <1>4, <5>1
        <5>5. (f[k] \o u) \o parts[m + 1] = f[k] \o (u \o parts[m + 1])
          BY <5>3, <5>4, BytesAssociative, Zenon
        <5>6. u \o parts[m + 1] \in Seq(Bytes)
          BY <5>3, ConcatBytes, Zenon
        <5>7. QED BY <5>3, <5>5, <5>6
      <4>3. QED BY <4>1, <4>2
    <3>3. QED BY <3>1, <3>2
  <2> HIDE DEF T
  <2>3. \A k \in 0..n : k \in T
    BY <1>1, <2>1, <2>2, CountUp
  <2>4. QED BY <2>3 DEF T
<1>7. \A k \in 0..n - 1 : f[k + 1] = f[k] \o parts[k + 1]
  BY <1>3
<1>8. QED BY <1>4, <1>6, <1>7, Zenon DEF n, f

\* What grows by the size of each section is, after k of them, where the last ends.
LEMMA SizesAddUp ==
    ASSUME NEW secs \in Seq(Section), NEW g, g[0] = 0,
           \A k \in 0..Len(secs) - 1 : g[k + 1] = g[k] + SectionSize(secs[k + 1])
    PROVE  \A k \in 0..Len(secs) : g[k] = Ends(secs)[k]
<1> DEFINE n == Len(secs)
           e == Ends(secs)
           T == {k \in 0..n : g[k] = e[k]}
<1>1. n \in Nat
  OBVIOUS
<1>2. e[0] = 0 /\ \A k \in 1..n : e[k] = e[k - 1] + SectionSize(secs[k])
  BY <1>1, EndsSteps
<1> HIDE DEF e
<1>3. 0 \in T
  BY <1>1, <1>2
<1>4. ASSUME NEW k \in 0..n - 1, k \in T PROVE k + 1 \in T
  <2>1. k + 1 \in 1..n /\ k + 1 - 1 = k /\ k + 1 \in 0..n
    BY <1>1
  <2>2. e[k + 1] = e[k] + SectionSize(secs[k + 1])
    BY <1>2, <2>1
  <2>3. g[k + 1] = e[k + 1]
    BY <1>4, <2>2
  <2>4. QED BY <2>1, <2>3
<1> HIDE DEF T
<1>5. \A k \in 0..n : k \in T
  BY <1>1, <1>3, <1>4, CountUp
<1>6. QED BY <1>5 DEF T, e

\* The lengths of what is joined, for one.
LEMMA LengthsAddUp ==
    ASSUME NEW secs \in Seq(Section), NEW f, Len(f[0]) = 0,
           \A k \in 0..Len(secs) - 1 :
              Len(f[k + 1]) = Len(f[k]) + SectionSize(secs[k + 1])
    PROVE  \A k \in 0..Len(secs) : Len(f[k]) = Ends(secs)[k]
<1> DEFINE n == Len(secs)
           g == [k \in 0..n |-> Len(f[k])]
<1>1. n \in Nat
  OBVIOUS
<1>2. \A k \in 0..n : g[k] = Len(f[k])
  OBVIOUS
<1> HIDE DEF g
<1>3. \A k \in 0..n - 1 : k \in 0..n /\ k + 1 \in 0..n
  BY <1>1
<1>4. \A k \in 0..n - 1 : g[k + 1] = g[k] + SectionSize(secs[k + 1])
  BY <1>2, <1>3
<1>5. g[0] = 0
  BY <1>1, <1>2
<1>6. \A k \in 0..n : g[k] = Ends(secs)[k]
  BY <1>4, <1>5, SizesAddUp
<1>7. QED BY <1>2, <1>6

\* What stands where in the parts of an article.
LEMMA PartsFacts ==
    ASSUME NEW types, NEW secs \in Seq(Section)
    PROVE  LET n == Len(secs)
               J == Joined(Parts(types, secs))
               e == Ends(secs)
           IN  /\ \A k \in 0..n : J[k] \in Seq(Bytes) /\ Len(J[k]) = e[k]
               /\ \A k \in 0..n - 1 : J[k + 1] = J[k] \o Part(types, secs, k + 1)
               /\ \A k \in 0..n - 1 : \A j \in 1..SectionSize(secs[k + 1]) :
                     J[n][e[k] + j] = Part(types, secs, k + 1)[j]
               /\ J[0] = <<>>
<1> DEFINE n == Len(secs)
           P == Parts(types, secs)
           J == Joined(P)
           e == Ends(secs)
<1>1. n \in Nat
  OBVIOUS
<1>2. Len(P) = n /\ \A k \in 1..n : P[k] = Part(types, secs, k)
  BY <1>1 DEF Parts
<1>3. \A k \in 1..n : /\ Part(types, secs, k) \in Seq(Bytes)
                      /\ Len(Part(types, secs, k)) = SectionSize(secs[k])
  <2> SUFFICES ASSUME NEW k \in 1..Len(secs)
               PROVE  /\ Part(types, secs, k) \in Seq(Bytes)
                      /\ Len(Part(types, secs, k)) = SectionSize(secs[k])
    OBVIOUS
  <2>1. QED BY PartFacts
<1>4. \A k \in 0..n - 1 : k + 1 \in 1..n /\ k \in 0..n /\ k + 1 \in 0..n
  BY <1>1
<1> HIDE DEF n, P
<1>5. Len(P) \in Nat /\ \A k \in 1..Len(P) : P[k] \in Seq(Bytes)
  BY <1>1, <1>2, <1>3
<1>6. /\ \A k \in 0..n : J[k] \in Seq(Bytes)
      /\ \A m \in 0..n : \A k \in 0..m : \E u \in Seq(Bytes) : J[m] = J[k] \o u
      /\ \A k \in 0..n - 1 : J[k + 1] = J[k] \o P[k + 1]
      /\ J[0] = <<>>
  <2>1. \A k \in 0..Len(P) : J[k] \in Seq(Bytes)
    BY <1>5, JoinedBytes, Zenon
  <2>2. \A m \in 0..Len(P) : \A k \in 0..m : \E u \in Seq(Bytes) : J[m] = J[k] \o u
    BY <1>5, JoinedBytes, Zenon
  <2>3. \A k \in 0..Len(P) - 1 : J[k + 1] = J[k] \o P[k + 1]
    BY <1>5, JoinedBytes, Zenon
  <2>4. J[0] = <<>>
    BY <1>5, JoinedSteps, Zenon
  <2>5. Len(P) = n
    BY <1>2
  <2>6. QED BY <2>1, <2>2, <2>3, <2>4, <2>5, Zenon
<1> HIDE DEF J, e
<1>7. ASSUME NEW k \in 0..n - 1
      PROVE  /\ J[k] \in Seq(Bytes)
             /\ Part(types, secs, k + 1) \in Seq(Bytes)
             /\ J[k + 1] = J[k] \o Part(types, secs, k + 1)
             /\ Len(J[k + 1]) = Len(J[k]) + SectionSize(secs[k + 1])
  <2>1. J[k] \in Seq(Bytes)
    BY <1>4, <1>6, Zenon
  <2>2. Part(types, secs, k + 1) \in Seq(Bytes) /\ Len(Part(types, secs, k + 1)) = SectionSize(secs[k + 1])
    BY <1>3, <1>4, Zenon
  <2>3. J[k + 1] = J[k] \o Part(types, secs, k + 1)
    BY <1>2, <1>4, <1>6, Zenon
  <2>4. Len(J[k + 1]) = Len(J[k]) + SectionSize(secs[k + 1])
    <3>1. Len(J[k] \o Part(types, secs, k + 1)) = Len(J[k]) + Len(Part(types, secs, k + 1))
      BY <2>1, <2>2, ConcatBytes, Zenon
    <3>2. QED BY <2>2, <2>3, <3>1, Zenon
  <2>5. QED BY <2>1, <2>2, <2>3, <2>4, Zenon
<1>8. \A k \in 0..n : Len(J[k]) = e[k]
  <2>1. Len(J[0]) = 0
    BY <1>6
  <2>2. \A k \in 0..n - 1 : Len(J[k + 1]) = Len(J[k]) + SectionSize(secs[k + 1])
    BY <1>7, Zenon
  <2>3. QED BY <2>1, <2>2, LengthsAddUp, Zenon DEF n, e
<1>9. ASSUME NEW k \in 0..n - 1, NEW j \in 1..SectionSize(secs[k + 1])
      PROVE  J[n][e[k] + j] = Part(types, secs, k + 1)[j]
  <2> DEFINE q == Part(types, secs, k + 1)
             h == J[k]
  <2>1. k + 1 \in 0..n /\ n \in 0..n /\ k \in 0..n /\ k + 1 \in 1..n
    BY <1>1
  <2>2. PICK u \in Seq(Bytes) : J[n] = J[k + 1] \o u
    BY <1>6, <2>1, Zenon
  <2>3. h \in Seq(Bytes) /\ q \in Seq(Bytes) /\ J[k + 1] = h \o q
    BY <1>7, Zenon
  <2>4. Len(h) = e[k] /\ Len(q) = SectionSize(secs[k + 1])
    BY <1>3, <1>8, <2>1, Zenon
  <2> HIDE DEF q, h
  <2>5. h \o q \in Seq(Bytes) /\ Len(h \o q) = Len(h) + Len(q) /\ Len(h) \in Nat /\ Len(q) \in Nat
    BY <2>3, ConcatBytes
  <2>6. j \in 1..Len(q) /\ e[k] + j = Len(h) + j
    BY <2>4
  <2>7. (h \o q)[Len(h) + j] = q[j]
    BY <2>3, <2>6, ConcatBytes, Zenon
  <2>8. Len(h) + j \in 1..Len(h \o q)
    BY <2>5, <2>6
  <2>9. J[n][Len(h) + j] = (h \o q)[Len(h) + j]
    <3>1. J[n] = (h \o q) \o u
      BY <2>2, <2>3, Zenon
    <3>2. ((h \o q) \o u)[Len(h) + j] = (h \o q)[Len(h) + j]
      BY <2>2, <2>5, <2>8, ConcatBytes, Zenon
    <3>3. QED BY <3>1, <3>2, Zenon
  <2>10. J[n][e[k] + j] = q[j]
    BY <2>6, <2>7, <2>9
  <2>11. QED BY <2>10 DEF q
<1>10. QED BY <1>6, <1>7, <1>8, <1>9, Zenon DEF n, J, P, e

-----------------------------------------------------------------------------
(* The types are put back.                                                 *)

\* strlen finds the end of a text.
LEMMA StrLenFinds ==
    ASSUME NEW buf, NEW q \in Nat, NEW n \in Nat, Len(buf) \in Nat, q + n < Len(buf),
           \A m \in 1..n : buf[q + m] # NUL, buf[q + n + 1] = NUL
    PROVE  StrLen(buf, q) = n
<1> DEFINE z == Len(buf) - q
           Ok(x) == /\ \A m \in 1..x : buf[q + m] # NUL
                    /\ x < z => buf[q + x + 1] = NUL
<1>1. n \in 0..z /\ n < z
  OBVIOUS
<1>2. Ok(n)
  OBVIOUS
<1>3. ASSUME NEW x \in 0..z, Ok(x) PROVE x = n
  <2>1. CASE x < n
    <3>1. x + 1 \in 1..n /\ x < z /\ q + (x + 1) = q + x + 1
      BY <1>1, <2>1
    <3>2. buf[q + (x + 1)] # NUL
      BY <3>1
    <3>3. buf[q + x + 1] = NUL
      BY <1>3, <3>1
    <3>4. QED BY <3>1, <3>2, <3>3
  <2>2. CASE x > n
    <3>1. n + 1 \in 1..x /\ q + (n + 1) = q + n + 1
      BY <1>1, <2>2
    <3>2. buf[q + (n + 1)] # NUL
      BY <1>3, <3>1
    <3>3. QED BY <3>1, <3>2
  <2>3. QED BY <1>1, <2>1, <2>2
<1>4. StrLen(buf, q) = CHOOSE x \in 0..z : Ok(x)
  BY DEF StrLen
<1> HIDE DEF z, Ok
<1>5. (CHOOSE x \in 0..z : Ok(x)) \in 0..z /\ Ok(CHOOSE x \in 0..z : Ok(x))
  BY <1>1, <1>2
<1>6. QED BY <1>3, <1>4, <1>5

\* What is cut off a sequence, and what is left.
LEMMA CutFacts ==
    ASSUME NEW w \in Seq(Bytes), NEW v \in Seq(Bytes)
    PROVE  /\ SubSeq(w \o v, 1, Len(w)) = w
           /\ SubSeq(w \o v, Len(w) + 1, Len(w \o v)) = v
<1> DEFINE x == w \o v
           a == Len(w)
           b == Len(v)
<1>1. /\ x \in Seq(Bytes) /\ a \in Nat /\ b \in Nat /\ Len(x) = a + b
      /\ \A k \in 1..a : x[k] = w[k]
      /\ \A k \in 1..b : x[a + k] = v[k]
  BY ConcatBytes
<1> HIDE DEF x
<1>2. \A k \in 1..a + b : x[k] \in Bytes
  BY <1>1, ElementOfSeq
<1>3. SubSeq(x, 1, a) = w
  <2> DEFINE y == SubSeq(x, 1, a)
  <2>1. \A k \in 1..a : x[k] \in Bytes
    BY <1>1, <1>2
  <2>2. /\ y \in Seq(Bytes) /\ Len(y) = IF 1 <= a THEN a - 1 + 1 ELSE 0
        /\ \A k \in 1..a - 1 + 1 : y[k] = x[1 + k - 1]
    BY <1>1, <2>1, SubSeqProperties
  <2> HIDE DEF y
  <2>3. Len(y) = a
    BY <1>1, <2>2
  <2>4. \A k \in 1..a : y[k] = w[k]
    <3> TAKE k \in 1..a
    <3>1. k \in 1..a - 1 + 1 /\ 1 + k - 1 = k
      BY <1>1
    <3>2. QED BY <1>1, <2>2, <3>1
  <2>5. y = w
    BY <1>1, <2>2, <2>3, <2>4, SeqEqual
  <2>6. QED BY <2>5 DEF y
<1>4. SubSeq(x, a + 1, a + b) = v
  <2> DEFINE y == SubSeq(x, a + 1, a + b)
  <2>1. \A k \in a + 1..a + b : x[k] \in Bytes
    BY <1>1, <1>2
  <2>2. /\ y \in Seq(Bytes) /\ Len(y) = IF a + 1 <= a + b THEN a + b - (a + 1) + 1 ELSE 0
        /\ \A k \in 1..a + b - (a + 1) + 1 : y[k] = x[a + 1 + k - 1]
    BY <1>1, <2>1, SubSeqProperties
  <2> HIDE DEF y
  <2>3. Len(y) = b
    BY <1>1, <2>2
  <2>4. \A k \in 1..b : y[k] = v[k]
    <3> TAKE k \in 1..b
    <3>1. k \in 1..a + b - (a + 1) + 1 /\ a + 1 + k - 1 = a + k
      BY <1>1
    <3>2. QED BY <1>1, <2>2, <3>1
  <2>5. y = v
    BY <1>1, <2>2, <2>3, <2>4, SeqEqual
  <2>6. QED BY <2>5 DEF y
<1>5. QED BY <1>1, <1>3, <1>4 DEF x, a, b

\* A text at the front of what is left is moved, with its type before it.
LEMMA PutHeadFacts ==
    ASSUME NEW s \in Section, s.type = "m", NEW v \in Seq(Bytes),
           NEW made, made.rest = Whole(s) \o v
    PROVE  /\ PutHead(made, "m").bytes = (made.bytes \o <<Type("m")>>) \o Whole(s)
           /\ PutHead(made, "m").rest = v
<1> DEFINE w == Whole(s)
           r == made.rest
<1>1. /\ s.len \in Nat /\ w \in Seq(Bytes) /\ Len(w) = s.len + 1
      /\ \A k \in 1..s.len : w[k] # NUL
      /\ w[s.len + 1] = NUL
  <2>1. s.len \in Nat /\ w \in Seq(Bytes) /\ Len(w) + 1 = SectionSize(s)
    BY SectionFacts, WholeFacts
  <2>2. (\A k \in 1..s.len : w[k] # NUL) /\ w[s.len + 1] = NUL
    BY WholeFacts
  <2>3. SectionSize(s) = s.len + 2 /\ Len(w) \in Nat
    BY <2>1, SizeFacts
  <2>4. QED BY <2>1, <2>2, <2>3
<1>2. r = w \o v
  OBVIOUS
<1> HIDE DEF w, r
<1>3. /\ Len(v) \in Nat /\ Len(r) = s.len + 1 + Len(v)
      /\ \A k \in 1..s.len + 1 : r[k] = w[k]
  <2>1. Len(v) \in Nat /\ Len(r) = Len(w) + Len(v) /\ \A k \in 1..Len(w) : r[k] = w[k]
    BY <1>1, <1>2, ConcatBytes, Zenon
  <2>2. QED BY <1>1, <2>1
<1>4. StrLen(r, 0) = s.len
  <2>1. \A k \in 1..s.len : 0 + k = k /\ k \in 1..s.len + 1
    BY <1>1
  <2>2. \A k \in 1..s.len : r[0 + k] # NUL
    BY <1>1, <1>3, <2>1
  <2>3. s.len + 1 \in 1..s.len + 1 /\ 0 + s.len + 1 = s.len + 1
    BY <1>1
  <2>4. r[0 + s.len + 1] = NUL
    BY <1>1, <1>3, <2>3
  <2>5. 0 + s.len < Len(r) /\ Len(r) \in Nat /\ 0 \in Nat
    BY <1>1, <1>3
  <2>6. QED BY <1>1, <2>2, <2>4, <2>5, StrLenFinds, Zenon
<1>5. SubSeq(r, 1, s.len + 1) = w /\ SubSeq(r, s.len + 1 + 1, Len(r)) = v
  BY <1>1, <1>2, CutFacts
<1> DEFINE x == (made.bytes \o <<Type("m")>>) \o SubSeq(r, 1, s.len + 1)
           y == SubSeq(r, s.len + 1 + 1, Len(r))
           h == PutHead(made, "m")
<1>6. h = [bytes |-> x, rest |-> y]
  BY <1>4 DEF PutHead, r
<1>7. x = (made.bytes \o <<Type("m")>>) \o w /\ y = v
  BY <1>5, Zenon
<1> HIDE DEF x, y, h
<1>8. h.bytes = x /\ h.rest = y
  BY <1>6
<1>9. QED BY <1>7, <1>8, Zenon DEF w, h

\* The recursion of PutHeads defines a function too.
IsPutHeads(f, types, origin, n) ==
    f = [k \in 0..n |-> IF k = 0 THEN [bytes |-> <<>>, rest |-> origin]
                        ELSE PutHead(f[k - 1], types[k])]

\* There is such a function, up to any number.
LEMMA PutHeadsExists ==
    ASSUME NEW types, NEW origin, NEW n \in Nat
    PROVE  \E f : IsPutHeads(f, types, origin, n)
<1> DEFINE T == {m \in 0..n : \E f : IsPutHeads(f, types, origin, m)}
           start == [bytes |-> <<>>, rest |-> origin]
<1>1. 0 \in T
  <2>1. IsPutHeads([k \in 0..0 |-> start], types, origin, 0)
    BY DEF IsPutHeads
  <2>2. QED BY <2>1
<1>2. ASSUME NEW m \in 0..n - 1, m \in T PROVE m + 1 \in T
  <2>1. PICK f : IsPutHeads(f, types, origin, m)
    BY <1>2
  <2> DEFINE g == [k \in 0..m + 1 |-> IF k <= m THEN f[k] ELSE PutHead(f[m], types[m + 1])]
  <2>2. \A k \in 0..m : g[k] = f[k]
    OBVIOUS
  <2>3. g[m + 1] = PutHead(f[m], types[m + 1])
    <3>1. m + 1 \in 0..m + 1 /\ ~(m + 1 <= m)
      OBVIOUS
    <3>2. QED BY <3>1
  <2>4. g = [k \in 0..m + 1 |-> g[k]]
    OBVIOUS
  <2>5. \A k \in 0..m : f[k] = IF k = 0 THEN start ELSE PutHead(f[k - 1], types[k])
    BY <2>1 DEF IsPutHeads
  <2> HIDE DEF g, start
  <2>6. ASSUME NEW k \in 0..m + 1
        PROVE  g[k] = IF k = 0 THEN start ELSE PutHead(g[k - 1], types[k])
    <3>1. CASE k \in 0..m
      <4>1. k # 0 => k - 1 \in 0..m
        BY <3>1
      <4>2. QED BY <2>2, <2>5, <3>1, <4>1
    <3>2. CASE k = m + 1
      <4>1. k - 1 = m /\ k # 0 /\ m \in 0..m
        BY <3>2
      <4>2. QED BY <2>2, <2>3, <3>2, <4>1
    <3>3. QED BY <3>1, <3>2
  <2>7. g = [k \in 0..m + 1 |-> IF k = 0 THEN start ELSE PutHead(g[k - 1], types[k])]
    BY <2>4, <2>6
  <2>8. IsPutHeads(g, types, origin, m + 1)
    BY <2>7 DEF IsPutHeads, start
  <2>9. m + 1 \in 0..n
    OBVIOUS
  <2>10. QED BY <2>8, <2>9
<1> HIDE DEF T
<1>3. n \in T
  BY <1>1, <1>2, CountUp
<1>4. QED BY <1>3 DEF T

\* PutHeads goes type by type.
LEMMA PutHeadsSteps ==
    ASSUME NEW types, NEW origin, Len(types) - 1 \in Nat
    PROVE  /\ PutHeads(types, origin)[0].bytes = <<>>
           /\ PutHeads(types, origin)[0].rest = origin
           /\ \A k \in 0..Len(types) - 1 - 1 :
                 PutHeads(types, origin)[k + 1] = PutHead(PutHeads(types, origin)[k], types[k + 1])
<1> DEFINE n == Len(types) - 1
           f == PutHeads(types, origin)
<1>1. f = CHOOSE g : IsPutHeads(g, types, origin, n)
  BY DEF PutHeads, IsPutHeads
<1>2. IsPutHeads(f, types, origin, n)
  BY <1>1, PutHeadsExists
<1>3. n \in Nat
  OBVIOUS
<1> HIDE DEF f, n
<1>4. f[0].bytes = <<>> /\ f[0].rest = origin
  BY <1>2, <1>3 DEF IsPutHeads
<1>5. \A k \in 1..n : f[k] = PutHead(f[k - 1], types[k])
  BY <1>2, <1>3 DEF IsPutHeads
<1>6. ASSUME NEW k \in 0..n - 1 PROVE f[k + 1] = PutHead(f[k], types[k + 1])
  <2> DEFINE i == k + 1
  <2>1. i \in 1..n /\ i - 1 = k
    BY <1>3
  <2> HIDE DEF i
  <2>2. f[i] = PutHead(f[i - 1], types[i])
    BY <1>5, <2>1, Zenon
  <2>3. f[i] = PutHead(f[k], types[i])
    BY <2>1, <2>2, Zenon
  <2>4. QED BY <2>3, Zenon DEF i
<1>7. QED BY <1>4, <1>6, Zenon DEF n, f

\* The types of an article are those that all articles have, if these are fixed.
Fits(types, secs) ==
    /\ secs \in Seq(Section) /\ Len(secs) \in Nat \ {0}
    /\ types # <<>> =>
          /\ Len(types) = Len(secs)
          /\ \A k \in 1..Len(secs) :
                types[k] = secs[k].type /\ (types[k] = "W" => k = Len(secs))

Wholes(secs) == [k \in 1..Len(secs) |-> Whole(secs[k])]

\* What GetWordData has made when the first k types are back: the parts of the
\* first k sections, and the rest of the file is left.
LEMMA HeadsInPlace ==
    ASSUME NEW types, types # <<>>, NEW secs, Fits(types, secs), NEW c \in Seq(Bytes)
    PROVE  LET n == Len(secs)
               made == PutHeads(types, Joined(Wholes(secs))[n - 1] \o c)[n - 1]
           IN  made.bytes = Joined(Parts(types, secs))[n - 1] /\ made.rest = c
<1> DEFINE n == Len(secs)
           W == Wholes(secs)
           JW == Joined(W)
           JP == Joined(Parts(types, secs))
           origin == JW[n - 1] \o c
           f == PutHeads(types, origin)
           T == {k \in 0..n - 1 : /\ f[k].bytes = JP[k]
                                  /\ f[k].rest \in Seq(Bytes)
                                  /\ origin = JW[k] \o f[k].rest}
<1>1. /\ secs \in Seq(Section) /\ n \in Nat \ {0} /\ Len(types) = n
      /\ \A k \in 1..n : types[k] = secs[k].type /\ (types[k] = "W" => k = n)
  BY DEF Fits
<1>2. /\ n - 1 \in Nat
      /\ \A k \in 0..n - 1 - 1 : /\ k + 1 \in 1..n /\ k + 1 # n
                                 /\ k \in 0..n - 1 /\ k + 1 \in 0..n - 1
                                 /\ k + 1 \in 0..n /\ k \in 0..n
  BY <1>1
<1>3. ASSUME NEW k \in 0..n - 1 - 1
      PROVE  secs[k + 1] \in Section /\ secs[k + 1].type = "m" /\ types[k + 1] = "m"
  <2>1. k + 1 \in 1..n /\ k + 1 # n
    BY <1>2
  <2>2. secs[k + 1] \in Section
    BY <1>1, <2>1, ElementOfSeq, Zenon
  <2>3. types[k + 1] = secs[k + 1].type /\ types[k + 1] # "W"
    BY <1>1, <2>1, Zenon
  <2>4. QED BY <2>2, <2>3, SectionFacts
<1>4. Len(W) = n /\ \A k \in 1..n : W[k] = Whole(secs[k])
  BY <1>1 DEF Wholes
<1>5. \A k \in 1..n : W[k] \in Seq(Bytes)
  <2> TAKE k \in 1..n
  <2>1. secs[k] \in Section
    BY <1>1, ElementOfSeq
  <2>2. Whole(secs[k]) \in Seq(Bytes)
    BY <2>1, WholeFacts
  <2>3. QED BY <1>4, <2>2
<1>6. Len(W) \in Nat /\ \A k \in 1..Len(W) : W[k] \in Seq(Bytes)
  BY <1>1, <1>4, <1>5
<1> HIDE DEF W
<1>7. /\ \A k \in 0..n : JW[k] \in Seq(Bytes)
      /\ \A m \in 0..n : \A k \in 0..m : \E u \in Seq(Bytes) : JW[m] = JW[k] \o u
      /\ \A k \in 0..n - 1 : JW[k + 1] = JW[k] \o W[k + 1]
      /\ JW[0] = <<>>
  <2>1. \A k \in 0..Len(W) : JW[k] \in Seq(Bytes)
    BY <1>6, JoinedBytes, Zenon
  <2>2. \A m \in 0..Len(W) : \A k \in 0..m : \E u \in Seq(Bytes) : JW[m] = JW[k] \o u
    BY <1>6, JoinedBytes, Zenon
  <2>3. \A k \in 0..Len(W) - 1 : JW[k + 1] = JW[k] \o W[k + 1]
    BY <1>6, JoinedBytes, Zenon
  <2>4. JW[0] = <<>>
    BY <1>6, JoinedSteps, Zenon
  <2>5. Len(W) = n
    BY <1>4
  <2>6. QED BY <2>1, <2>2, <2>3, <2>4, <2>5, Zenon
<1>8. /\ \A k \in 0..n : JP[k] \in Seq(Bytes)
      /\ \A k \in 0..n - 1 : JP[k + 1] = JP[k] \o Part(types, secs, k + 1)
      /\ JP[0] = <<>>
  BY <1>1, PartsFacts, Zenon
<1> HIDE DEF JW, JP
<1>9. origin \in Seq(Bytes)
  <2>1. n - 1 \in 0..n
    BY <1>1
  <2>2. QED BY <1>7, <2>1, ConcatBytes, Zenon
<1> HIDE DEF origin
<1>10. /\ f[0].bytes = <<>> /\ f[0].rest = origin
       /\ \A k \in 0..n - 1 - 1 : f[k + 1] = PutHead(f[k], types[k + 1])
  <2>1. Len(types) - 1 \in Nat
    BY <1>1
  <2>2. /\ f[0].bytes = <<>> /\ f[0].rest = origin
        /\ \A k \in 0..Len(types) - 1 - 1 : f[k + 1] = PutHead(f[k], types[k + 1])
    BY <2>1, PutHeadsSteps, Zenon
  <2>3. QED BY <1>1, <2>2, Zenon
<1> HIDE DEF f, n
<1>11. 0 \in T
  <2>1. 0 \in 0..n - 1
    BY <1>2
  <2>2. origin = <<>> \o origin
    BY <1>9, ConcatEmptySeq, Zenon
  <2>3. QED BY <1>7, <1>8, <1>9, <1>10, <2>1, <2>2, Zenon
<1>12. ASSUME NEW k \in 0..n - 1 - 1, k \in T PROVE k + 1 \in T
  <2> DEFINE s == secs[k + 1]
             w == Whole(s)
             h == <<Type("m")>>
  <2>1. /\ k + 1 \in 1..n /\ k + 1 # n /\ k + 1 \in 0..n - 1 /\ k + 1 \in 0..n /\ k \in 0..n
        /\ k \in 0..n - 1 /\ n - 1 \in 0..n
    BY <1>1, <1>2
  <2>2. s \in Section /\ s.type = "m" /\ types[k + 1] = "m"
    BY <1>3, Zenon
  <2>3. w \in Seq(Bytes) /\ h \in Seq(Bytes)
    <3>1. Type("m") \in Bytes
      BY ByteFacts DEF Types
    <3>2. h \in Seq(Bytes)
      BY <3>1
    <3>3. QED BY <2>2, <3>2, WholeFacts
  <2>4. JW[k + 1] = JW[k] \o w /\ JW[k] \in Seq(Bytes) /\ JW[k + 1] \in Seq(Bytes)
    <3>1. W[k + 1] = w
      BY <1>4, <2>1, Zenon
    <3>2. JW[k + 1] = JW[k] \o W[k + 1]
      BY <1>7, <2>1, Zenon
    <3>3. QED BY <1>7, <2>1, <3>1, <3>2, Zenon
  <2>5. Part(types, secs, k + 1) = h \o w
    BY <2>1, <2>2 DEF Part, Body, n
  <2> HIDE DEF s, w, h
  <2>6. PICK u \in Seq(Bytes) : JW[n - 1] = JW[k + 1] \o u
    BY <1>7, <2>1, Zenon
  <2>7. u \o c \in Seq(Bytes) /\ w \o (u \o c) \in Seq(Bytes)
    BY <2>3, ConcatBytes, Zenon
  <2>8. origin = JW[k + 1] \o (u \o c)
    <3>1. origin = (JW[k + 1] \o u) \o c
      BY <2>6, Zenon DEF origin
    <3>2. (JW[k + 1] \o u) \o c = JW[k + 1] \o (u \o c)
      BY <2>4, BytesAssociative, Zenon
    <3>3. QED BY <3>1, <3>2, Zenon
  <2>9. origin = JW[k] \o (w \o (u \o c))
    <3>1. origin = (JW[k] \o w) \o (u \o c)
      BY <2>4, <2>8, Zenon
    <3> DEFINE a == JW[k]
               v == u \o c
    <3>2. a \in Seq(Bytes) /\ w \in Seq(Bytes) /\ v \in Seq(Bytes)
      BY <2>3, <2>4, <2>7, Zenon
    <3> HIDE DEF a, v
    <3>3. (a \o w) \o v = a \o (w \o v)
      BY <3>2, BytesAssociative, Zenon
    <3>4. QED BY <3>1, <3>3, Zenon DEF a, v
  <2>10. f[k].rest = w \o (u \o c)
    <3>1. origin = JW[k] \o f[k].rest /\ f[k].rest \in Seq(Bytes)
      BY <1>12, Zenon
    <3>2. QED BY <2>4, <2>7, <2>9, <3>1, BytesCancel, Zenon
  <2>11. f[k + 1] = PutHead(f[k], "m")
    BY <1>10, <2>2, Zenon
  <2>12. f[k + 1].bytes = (f[k].bytes \o h) \o w /\ f[k + 1].rest = u \o c
    <3>1. f[k].rest = Whole(s) \o (u \o c)
      BY <2>10 DEF w
    <3>2. /\ PutHead(f[k], "m").bytes = (f[k].bytes \o <<Type("m")>>) \o Whole(s)
          /\ PutHead(f[k], "m").rest = u \o c
      BY <2>2, <2>7, <3>1, PutHeadFacts, Zenon
    <3>3. QED BY <2>11, <3>2, Zenon DEF w, h
  <2>13. f[k + 1].bytes = JP[k + 1]
    <3>1. f[k].bytes = JP[k] /\ JP[k] \in Seq(Bytes)
      BY <1>8, <1>12, <2>1, Zenon
    <3>2. (JP[k] \o h) \o w = JP[k] \o (h \o w)
      BY <2>3, <3>1, BytesAssociative, Zenon
    <3>3. JP[k + 1] = JP[k] \o (h \o w)
      BY <1>8, <2>1, <2>5, Zenon
    <3>4. QED BY <2>12, <3>1, <3>2, <3>3, Zenon
  <2>14. QED BY <2>1, <2>7, <2>8, <2>12, <2>13, Zenon
<1> HIDE DEF T
<1>13. \A k \in 0..n - 1 : k \in T
  BY <1>2, <1>11, <1>12, CountUp
<1>14. n - 1 \in T
  <2>1. n - 1 \in 0..n - 1
    BY <1>1
  <2>2. QED BY <1>13, <2>1, Zenon
<1>15. f[n - 1].bytes = JP[n - 1] /\ f[n - 1].rest = c
  <2>1. /\ f[n - 1].bytes = JP[n - 1] /\ f[n - 1].rest \in Seq(Bytes)
        /\ origin = JW[n - 1] \o f[n - 1].rest
    BY <1>14, Zenon DEF T
  <2>2. n - 1 \in 0..n
    BY <1>1
  <2>3. JW[n - 1] \in Seq(Bytes) /\ origin = JW[n - 1] \o c
    BY <1>7, <2>2, Zenon DEF origin
  <2>4. QED BY <2>1, <2>3, BytesCancel, Zenon
<1>16. QED BY <1>15, Zenon DEF f, n, origin, JW, JP, W

\* In the file, every section but the last lacks one byte, its type.
LEMMA WholesLengths ==
    ASSUME NEW secs \in Seq(Section)
    PROVE  \A k \in 0..Len(secs) :
              /\ Joined(Wholes(secs))[k] \in Seq(Bytes)
              /\ Len(Joined(Wholes(secs))[k]) + k = Ends(secs)[k]
<1> DEFINE n == Len(secs)
           W == Wholes(secs)
           J == Joined(W)
           g == [k \in 0..n |-> Len(J[k]) + k]
<1>1. n \in Nat
  OBVIOUS
<1>2. Len(W) = n /\ \A k \in 1..n : W[k] = Whole(secs[k])
  BY <1>1 DEF Wholes
<1>3. ASSUME NEW k \in 1..n
      PROVE  W[k] \in Seq(Bytes) /\ Len(W[k]) + 1 = SectionSize(secs[k])
  <2>1. secs[k] \in Section
    BY ElementOfSeq
  <2>2. Whole(secs[k]) \in Seq(Bytes) /\ Len(Whole(secs[k])) + 1 = SectionSize(secs[k])
    BY <2>1, WholeFacts
  <2>3. QED BY <1>2, <2>2
<1>4. Len(W) \in Nat /\ \A k \in 1..Len(W) : W[k] \in Seq(Bytes)
  BY <1>1, <1>2, <1>3
<1> HIDE DEF W
<1>5. /\ \A k \in 0..n : J[k] \in Seq(Bytes)
      /\ \A k \in 0..n - 1 : J[k + 1] = J[k] \o W[k + 1]
      /\ J[0] = <<>>
  <2>1. \A k \in 0..Len(W) : J[k] \in Seq(Bytes)
    BY <1>4, JoinedBytes, Zenon
  <2>2. \A k \in 0..Len(W) - 1 : J[k + 1] = J[k] \o W[k + 1]
    BY <1>4, JoinedBytes, Zenon
  <2>3. J[0] = <<>>
    BY <1>4, JoinedSteps, Zenon
  <2>4. Len(W) = n
    BY <1>2
  <2>5. QED BY <2>1, <2>2, <2>3, <2>4, Zenon
<1> HIDE DEF J
<1>6. \A k \in 0..n : g[k] = Len(J[k]) + k
  OBVIOUS
<1>7. g[0] = 0
  BY <1>1, <1>5, <1>6
<1> HIDE DEF g
<1>8. ASSUME NEW k \in 0..n - 1 PROVE g[k + 1] = g[k] + SectionSize(secs[k + 1])
  <2> DEFINE a == J[k]
             b == W[k + 1]
             z == SectionSize(secs[k + 1])
  <2>1. k \in 0..n /\ k + 1 \in 0..n /\ k + 1 \in 1..n
    BY <1>1
  <2>2. a \in Seq(Bytes) /\ b \in Seq(Bytes) /\ Len(b) + 1 = z
    BY <1>3, <1>5, <2>1, Zenon
  <2>3. g[k] = Len(a) + k /\ g[k + 1] = Len(a \o b) + (k + 1)
    BY <1>5, <1>6, <2>1, Zenon
  <2> HIDE DEF a, b, z
  <2>4. Len(a \o b) = Len(a) + Len(b) /\ Len(a) \in Nat /\ Len(b) \in Nat
    BY <2>2, ConcatBytes
  <2>5. g[k + 1] = g[k] + z
    BY <2>2, <2>3, <2>4
  <2>6. QED BY <2>5 DEF z
<1>9. \A k \in 0..n : g[k] = Ends(secs)[k]
  BY <1>7, <1>8, SizesAddUp
<1>10. QED BY <1>5, <1>6, <1>9 DEF J, W

\* GetWordData makes of what is in the file the size, and the parts of the article
\* one behind the other.
LEMMA DataLayout ==
    ASSUME NEW types, NEW secs, Fits(types, secs)
    PROVE  MakeData(types, Stored(types, secs)) =
              Guint32(Ends(secs)[Len(secs)], "host") \o Joined(Parts(types, secs))[Len(secs)]
<1> DEFINE n == Len(secs)
           e == Ends(secs)
           J == Joined(Parts(types, secs))
           origin == Stored(types, secs)
<1>1. secs \in Seq(Section) /\ n \in Nat \ {0}
  BY DEF Fits
<1>2. /\ \A k \in 0..n : J[k] \in Seq(Bytes) /\ Len(J[k]) = e[k]
      /\ \A k \in 0..n - 1 : J[k + 1] = J[k] \o Part(types, secs, k + 1)
  BY <1>1, PartsFacts, Zenon
<1>3. n \in 0..n /\ n - 1 \in 0..n /\ n - 1 \in 0..n - 1 /\ n - 1 + 1 = n /\ n \in 1..n /\ 1..n = DOMAIN secs
  BY <1>1
<1>4. CASE types = <<>>
  <2> DEFINE Q == [k \in DOMAIN secs |-> <<Type(secs[k].type)>> \o Whole(secs[k])]
  <2>1. \A k \in 1..n : Part(types, secs, k) = <<Type(secs[k].type)>> \o Whole(secs[k])
    BY <1>4 DEF Part, Body
  <2>2. Q = Parts(types, secs)
    BY <1>3, <2>1 DEF Parts
  <2>3. origin = Joined(Q)[n]
    BY <1>4 DEF Stored
  <2>4. origin = J[n]
    BY <2>2, <2>3, Zenon
  <2> HIDE DEF Q, origin, J, e
  <2>5. Len(origin) = e[n]
    BY <1>2, <1>3, <2>4, Zenon
  <2>6. MakeData(types, origin) = Guint32(Len(origin), "host") \o origin
    BY <1>4 DEF MakeData, DataSize
  <2>7. QED BY <2>4, <2>5, <2>6, Zenon DEF origin, J, e
<1>5. CASE types # <<>>
  <2> DEFINE s == secs[n]
             c == Content(s)
             JW == Joined(Wholes(secs))
             made == PutHeads(types, origin)[n - 1]
             h == <<Type(s.type)>>
             b == Body(types, secs, n)
  <2>1. Len(types) = n /\ types[n] = s.type /\ s \in Section
    BY <1>1, <1>3, <1>5, ElementOfSeq DEF Fits
  <2>2. Last(types) = s.type /\ Last(secs) = s
    BY <2>1 DEF Last
  <2>3. origin = JW[n - 1] \o c
    <3>1. Wholes(secs) = [k \in DOMAIN secs |-> Whole(secs[k])]
      BY <1>3 DEF Wholes
    <3>2. QED BY <1>5, <2>2, <3>1 DEF Stored
  <2>4. c \in Seq(Bytes) /\ Len(c) = s.len /\ s.len \in Nat
    BY <2>1, ContentFacts, SectionFacts
  <2>5. made.bytes = J[n - 1] /\ made.rest = c
    <3> DEFINE put == PutHeads(types, JW[n - 1] \o c)[n - 1]
    <3>1. put.bytes = J[n - 1] /\ put.rest = c
      <4> HIDE DEF c
      <4>1. QED BY <1>5, <2>4, HeadsInPlace
    <3>2. made = put
      <4> HIDE DEF c, JW, origin
      <4>1. QED BY <2>3, Zenon
    <3> HIDE DEF made, put
    <3>3. QED BY <3>1, <3>2, Zenon
  <2>6. b \in Seq(Bytes) /\ h \in Seq(Bytes) /\ Part(types, secs, n) = h \o b
    <3>1. b \in Seq(Bytes)
      BY <1>1, <1>3, PartFacts
    <3>2. Type(s.type) \in Bytes
      BY <2>1, SectionFacts, ByteFacts
    <3>3. QED BY <3>1, <3>2 DEF Part
  <2>7. b = IF s.type = "m" THEN Append(c, NUL) ELSE Guint32(Len(c), "host") \o c
    BY <1>5, <2>1, <2>4, SectionFacts, WholeFacts DEF Body
  <2>8. MakeData(types, origin) = Guint32(DataSize(types, origin), "host") \o PutLast(made, s.type)
    BY <1>5, <2>1, <2>2 DEF MakeData
  <2> HIDE DEF origin, made, b, h, c, s, J, JW, e
  <2>9. PutLast(made, s.type) = (J[n - 1] \o h) \o b
    BY <2>5, <2>7 DEF PutLast, h
  <2>10. J[n] = J[n - 1] \o (h \o b)
    BY <1>2, <1>3, <2>6, Zenon
  <2>11. (J[n - 1] \o h) \o b = J[n - 1] \o (h \o b)
    BY <1>2, <1>3, <2>6, BytesAssociative, Zenon
  <2>12. DataSize(types, origin) = e[n]
    <3>1. DataSize(types, origin) = Len(origin) + n + (IF s.type = "m" THEN 1 ELSE 4)
      BY <1>5, <2>1, <2>2 DEF DataSize, SizeOf
    <3>2. JW[n - 1] \in Seq(Bytes) /\ Len(JW[n - 1]) + (n - 1) = e[n - 1]
      BY <1>1, <1>3, WholesLengths, Zenon DEF JW, e
    <3>3. Len(origin) = Len(JW[n - 1]) + s.len /\ Len(JW[n - 1]) \in Nat
      <4> DEFINE a == JW[n - 1]
      <4>1. a \in Seq(Bytes)
        BY <3>2, Zenon
      <4> HIDE DEF a
      <4>2. Len(a \o c) = Len(a) + Len(c) /\ Len(a) \in Nat
        BY <2>4, <4>1, ConcatBytes, Zenon
      <4>3. QED BY <2>3, <2>4, <4>2, Zenon DEF a
    <3>4. e[n] = e[n - 1] + SectionSize(s)
      BY <1>1, <1>3, EndsSteps DEF e, s
    <3>5. SectionSize(s) = IF s.type = "m" THEN s.len + 2 ELSE s.len + 5
      BY <2>1, SizeFacts, SectionFacts
    <3> DEFINE a == Len(JW[n - 1])
               f == e[n - 1]
               x == IF s.type = "m" THEN 1 ELSE 4
               z == SectionSize(s)
               o == Len(origin)
               l == s.len
    <3>6. DataSize(types, origin) = o + n + x /\ e[n] = f + z
      BY <3>1, <3>4, Zenon
    <3>7. a + (n - 1) = f /\ o = a + l /\ a \in Nat /\ l \in Nat /\ n \in Nat
      BY <1>1, <2>4, <3>2, <3>3
    <3>8. z = l + 1 + x /\ x \in Nat
      BY <2>4, <3>5
    <3> HIDE DEF a, f, x, z, o, l, n
    <3>9. o + n + x = f + z
      BY <3>7, <3>8
    <3>10. QED BY <3>6, <3>9, Zenon
  <2>13. QED BY <2>8, <2>9, <2>10, <2>11, <2>12, Zenon DEF origin, J, e
<1>6. QED BY <1>4, <1>5

-----------------------------------------------------------------------------
(* parse_data walks from section to section.                               *)

\* Where the bytes of section k + 1 are in d, the data of an article.
LEMMA DataFacts ==
    ASSUME NEW types, NEW secs, Fits(types, secs), NEW d,
           d = MakeData(types, Stored(types, secs))
    PROVE  /\ d[1][2] = Ends(secs)[Len(secs)]
           /\ Len(d) = Ends(secs)[Len(secs)] + 4
           /\ d # <<>>
           /\ \A k \in 0..Len(secs) - 1 : \A j \in 1..SectionSize(secs[k + 1]) :
                 d[4 + (Ends(secs)[k] + j)] = Part(types, secs, k + 1)[j]
<1> DEFINE n == Len(secs)
           e == Ends(secs)
           J == Joined(Parts(types, secs))
           x == J[n]
           g == Guint32(e[n], "host")
<1>1. secs \in Seq(Section) /\ n \in Nat /\ n \in 0..n
  BY DEF Fits
<1>2. \A k \in 0..n : e[k] \in Nat
  BY <1>1, EndsFacts, Zenon
<1>3. \A k \in 0..n : J[k] \in Seq(Bytes) /\ Len(J[k]) = e[k]
  BY <1>1, PartsFacts, Zenon
<1>4. ASSUME NEW k \in 0..n - 1, NEW j \in 1..SectionSize(secs[k + 1])
      PROVE  x[e[k] + j] = Part(types, secs, k + 1)[j]
  BY <1>1, PartsFacts, Zenon
<1>5. x \in Seq(Bytes) /\ Len(x) = e[n] /\ e[n] \in Nat
  BY <1>1, <1>2, <1>3, Zenon
<1>6. g \in Seq(Bytes) /\ Len(g) = 4 /\ g[1] = <<"size", e[n], "host">>
  BY <1>5, Guint32Facts DEF SizeOf
<1>7. d = g \o x
  BY DataLayout, Zenon
<1>8. \A k \in 0..n - 1 : e[k + 1] = e[k] + SectionSize(secs[k + 1]) /\ e[k + 1] <= e[n]
                          /\ SectionSize(secs[k + 1]) \in Nat /\ e[k] \in Nat
  <2> TAKE k \in 0..n - 1
  <2>1. k + 1 \in 1..n /\ k + 1 - 1 = k /\ k + 1 \in 0..n /\ k \in 0..n
    BY <1>1
  <2>2. e[k + 1] = e[k] + SectionSize(secs[k + 1])
    <3>1. \A i \in 1..n : e[i] = e[i - 1] + SectionSize(secs[i])
      BY <1>1, EndsSteps, Zenon
    <3> DEFINE i == k + 1
    <3>2. i \in 1..n /\ i - 1 = k
      BY <2>1
    <3> HIDE DEF i, e
    <3>3. e[i] = e[k] + SectionSize(secs[i])
      BY <3>1, <3>2
    <3>4. QED BY <3>3 DEF i
  <2>3. e[k + 1] <= e[n]
    BY <1>1, <2>1, EndsFacts, Zenon
  <2>4. secs[k + 1] \in Section
    BY <1>1, <2>1, ElementOfSeq, Zenon
  <2>5. SectionSize(secs[k + 1]) \in Nat
    BY <2>4, SizeFacts, Zenon
  <2>6. QED BY <1>2, <2>1, <2>2, <2>3, <2>5
<1> HIDE DEF e, J, x, g
<1>9. /\ d \in Seq(Bytes) /\ Len(d) = 4 + e[n]
      /\ \A k \in 1..4 : d[k] = g[k]
      /\ \A k \in 1..e[n] : d[4 + k] = x[k]
  <2>1. /\ g \o x \in Seq(Bytes) /\ Len(g \o x) = Len(g) + Len(x)
        /\ \A k \in 1..Len(g) : (g \o x)[k] = g[k]
        /\ \A k \in 1..Len(x) : (g \o x)[Len(g) + k] = x[k]
    BY <1>5, <1>6, ConcatBytes, Zenon
  <2>2. Len(d) = 4 + e[n] /\ d \in Seq(Bytes)
    BY <1>5, <1>6, <1>7, <2>1, Zenon
  <2>3. \A k \in 1..4 : d[k] = g[k]
    BY <1>6, <1>7, <2>1, Zenon
  <2>4. \A k \in 1..e[n] : d[4 + k] = x[k]
    BY <1>5, <1>6, <1>7, <2>1, Zenon
  <2>5. QED BY <2>2, <2>3, <2>4, Zenon
<1>10. d[1] = <<"size", e[n], "host">>
  <2>1. 1 \in 1..4
    OBVIOUS
  <2>2. QED BY <1>6, <1>9, <2>1, Zenon
<1>11. d[1][2] = e[n]
  BY <1>10
<1>12. Len(d) = e[n] + 4 /\ d # <<>>
  BY <1>5, <1>9
<1>13. ASSUME NEW k \in 0..n - 1, NEW j \in 1..SectionSize(secs[k + 1])
       PROVE  d[4 + (e[k] + j)] = Part(types, secs, k + 1)[j]
  <2> DEFINE i == e[k] + j
             z == SectionSize(secs[k + 1])
  <2>1. e[k + 1] = e[k] + z /\ e[k + 1] <= e[n] /\ z \in Nat /\ e[k] \in Nat /\ j \in 1..z
    BY <1>8, Zenon
  <2> HIDE DEF z
  <2>2. i \in 1..e[n]
    BY <1>5, <2>1
  <2> HIDE DEF i
  <2>3. d[4 + i] = x[i]
    BY <1>9, <2>2, Zenon
  <2>4. x[i] = Part(types, secs, k + 1)[j]
    BY <1>4, Zenon DEF i
  <2>5. QED BY <2>3, <2>4, Zenon DEF i
<1>14. QED BY <1>11, <1>12, <1>13, Zenon DEF e

\* The first k sections are behind parse_data, which is at q and has shown m: it is
\* at the end of section k, or beyond the data, if the last section is a block whose
\* size it has read in the wrong order.  None of them began in the last four bytes.
TextsAmong(secs, k) == {j \in 1..k : secs[j].type = "m"}
Walked(secs, k, q, m) ==
    /\ q \in Nat
    /\ \/ q = 4 + Ends(secs)[k]
       \/ k = Len(secs) /\ q >= Ends(secs)[Len(secs)]
    /\ m \in Seq(Nat)
    /\ Marks(m, secs, TextsAmong(secs, k))
    /\ \A j \in 1..k : Ends(secs)[Len(secs)] - Ends(secs)[j - 1] > 4

\* What parse_data sees where it looks for a section.
LEMMA AtSection ==
    ASSUME NEW types, NEW secs, Fits(types, secs), NEW d,
           d = MakeData(types, Stored(types, secs)),
           NEW k \in 0..Len(secs), NEW q, NEW m, Walked(secs, k, q, m), q < d[1][2]
    PROVE  /\ k \in 0..Len(secs) - 1 /\ q = 4 + Ends(secs)[k]
           /\ secs[k + 1] \in Section
           /\ d[q + 1] = Type(secs[k + 1].type)
           /\ secs[k + 1].type = "m" => StrLen(d, q + 1) = secs[k + 1].len
           /\ secs[k + 1].type = "W" =>
                 \/ NtoHL(d, q + 1) = secs[k + 1].len
                 \/ k + 1 = Len(secs) /\ NtoHL(d, q + 1) = secs[k + 1].len * 2^24
<1> DEFINE n == Len(secs)
           e == Ends(secs)
           s == secs[k + 1]
           z == SectionSize(s)
           part == Part(types, secs, k + 1)
<1>1. secs \in Seq(Section) /\ n \in Nat
  BY DEF Fits
<1>2. d[1][2] = e[n] /\ Len(d) = e[n] + 4
  BY DataFacts
<1>3. \A i \in 0..n : e[i] \in Nat
  BY <1>1, EndsFacts, Zenon
<1>4. k \in 0..n - 1 /\ q = 4 + e[k] /\ q \in Nat /\ k + 1 \in 1..n /\ k + 1 \in 0..n
  <2>1. q \in Nat /\ (q = 4 + e[k] \/ (k = n /\ q >= e[n]))
    BY DEF Walked
  <2>2. q < e[n]
    BY <1>2
  <2>3. n \in 0..n
    BY <1>1
  <2> HIDE DEF e
  <2>4. e[n] \in Nat
    BY <1>3, <2>3
  <2>5. k # n
    BY <2>1, <2>2, <2>4
  <2>6. QED BY <1>1, <2>1, <2>5
<1>5. s \in Section /\ s.len \in Nat /\ (s.type = "m" \/ s.type = "W")
  <2>1. s \in Section
    BY <1>1, <1>4, ElementOfSeq, Zenon
  <2>2. QED BY <2>1, SectionFacts
<1>6. /\ z \in Nat
      /\ s.type = "m" => z = s.len + 2
      /\ s.type = "W" => z = s.len + 5
  BY <1>5, SizeFacts
<1>7. IsPart(part, s, k + 1 = n)
  BY <1>1, <1>4, PartFacts
<1>8. \A j \in 1..z : d[4 + (e[k] + j)] = part[j]
  <2>1. k \in 0..Len(secs) - 1
    BY <1>4
  <2>2. QED BY <2>1, DataFacts
<1>9. e[k + 1] = e[k] + z /\ e[k + 1] <= e[n]
  <2>1. e[k + 1] <= e[n]
    <3>1. n \in 0..n
      BY <1>1
    <3>2. QED BY <1>1, <1>4, <3>1, EndsFacts, Zenon
  <2>2. \A i \in 1..n : e[i] = e[i - 1] + SectionSize(secs[i])
    BY <1>1, EndsSteps, Zenon
  <2> DEFINE i == k + 1
  <2>3. i \in 1..n /\ i - 1 = k
    BY <1>1, <1>4
  <2> HIDE DEF i, e
  <2>4. e[i] = e[k] + SectionSize(secs[i])
    BY <2>2, <2>3
  <2>5. QED BY <2>1, <2>4 DEF i
<1> HIDE DEF e, z, part, s
<1>10. e[k] \in Nat /\ e[n] \in Nat /\ e[k + 1] \in Nat
  <2>1. n \in 0..n
    BY <1>1
  <2>2. QED BY <1>3, <1>4, <2>1, Zenon
<1>11. ASSUME NEW j \in 1..z PROVE d[q + j] = part[j]
  <2>1. 4 + (e[k] + j) = q + j
    BY <1>4, <1>6, <1>10
  <2>2. QED BY <1>8, <2>1, Zenon
<1>12. d[q + 1] = Type(s.type)
  <2>1. 1 \in 1..z
    BY <1>5, <1>6
  <2>2. QED BY <1>7, <1>11, <2>1, Zenon DEF IsPart
<1>13. ASSUME s.type = "m" PROVE StrLen(d, q + 1) = s.len
  <2>1. (\A j \in 1..s.len : part[j + 1] # NUL) /\ part[s.len + 2] = NUL
    BY <1>7, <1>13 DEF IsPart
  <2> DEFINE l == s.len
  <2>5. l \in Nat /\ q \in Nat /\ z = l + 2
    BY <1>4, <1>5, <1>6, <1>13, Zenon
  <2>2. ASSUME NEW j \in 1..l PROVE d[q + 1 + j] # NUL
    <3> HIDE DEF l
    <3>1. j + 1 \in 1..z /\ q + (j + 1) = q + 1 + j
      BY <2>5
    <3>2. d[q + (j + 1)] = part[j + 1]
      BY <1>11, <3>1, Zenon
    <3>3. QED BY <2>1, <3>1, <3>2, Zenon DEF l
  <2>3. d[q + 1 + l + 1] = NUL
    <3> HIDE DEF l
    <3>1. l + 2 \in 1..z /\ q + (l + 2) = q + 1 + l + 1
      BY <2>5
    <3>2. d[q + (l + 2)] = part[l + 2]
      BY <1>11, <3>1, Zenon
    <3>3. QED BY <2>1, <3>1, <3>2, Zenon DEF l
  <2>4. q + 1 + l < Len(d) /\ Len(d) \in Nat /\ q + 1 \in Nat
    <3> DEFINE a == e[k]
               b == e[k + 1]
               c == e[n]
               x == Len(d)
    <3>1. q = 4 + a /\ x = c + 4 /\ b = a + z /\ b <= c /\ a \in Nat /\ b \in Nat /\ c \in Nat
      BY <1>2, <1>4, <1>9, <1>10, Zenon
    <3> HIDE DEF l, a, b, c, x
    <3>2. q + 1 + l < x /\ x \in Nat /\ q + 1 \in Nat
      BY <2>5, <3>1
    <3>3. QED BY <3>2, Zenon DEF x
  <2>6. QED BY <2>5, <2>2, <2>3, <2>4, StrLenFinds, Zenon
<1>14. ASSUME s.type = "W"
       PROVE  NtoHL(d, q + 1) = s.len \/ (k + 1 = n /\ NtoHL(d, q + 1) = s.len * 2^24)
  <2>1. PICK order \in {"network", "host"} :
           part[2] = <<"size", s.len, order>> /\ (order = "host" => k + 1 = n)
    BY <1>7, <1>14, Zenon DEF IsPart
  <2>2. 2 \in 1..z /\ q + 1 + 1 = q + 2
    BY <1>4, <1>5, <1>6, <1>14
  <2>3. d[q + 1 + 1] = <<"size", s.len, order>>
    BY <1>11, <2>1, <2>2, Zenon
  <2> HIDE DEF s, n
  <2>4. d[q + 1 + 1][2] = s.len /\ d[q + 1 + 1][3] = order
    BY <2>3
  <2>5. NtoHL(d, q + 1) = IF order = "network" THEN s.len ELSE s.len * 2^24
    BY <2>4 DEF NtoHL
  <2>6. QED BY <2>1, <2>5
<1>15. QED BY <1>4, <1>5, <1>12, <1>13, <1>14, Zenon DEF e, s

\* The text of section k + 1 is marked next, if it is one.
LEMMA MarkText ==
    ASSUME NEW secs, NEW k \in Nat, NEW m \in Seq(Nat), NEW l \in Nat,
           Marks(m, secs, TextsAmong(secs, k)), secs[k + 1].type = "m", secs[k + 1].len = l
    PROVE  Marks(Append(m, l), secs, TextsAmong(secs, k + 1))
<1> DEFINE S == TextsAmong(secs, k)
           S2 == TextsAmong(secs, k + 1)
           n == Len(m)
           m2 == Append(m, l)
<1>1. PICK at \in [DOMAIN m -> S] :
         /\ \A i, j \in DOMAIN m : i < j => at[i] < at[j]
         /\ \A x \in S : \E i \in DOMAIN m : at[i] = x
         /\ \A i \in DOMAIN m : m[i] = secs[at[i]].len
  BY DEF Marks
<1>2. n \in Nat /\ DOMAIN m = 1..n /\ DOMAIN m2 = 1..n + 1
      /\ (\A i \in 1..n : m2[i] = m[i]) /\ m2[n + 1] = l
  OBVIOUS
<1>3. S2 = S \cup {k + 1} /\ \A x \in S : x \in Nat /\ x <= k
  BY DEF TextsAmong
<1> DEFINE at2 == [i \in 1..n + 1 |-> IF i = n + 1 THEN k + 1 ELSE at[i]]
<1> HIDE DEF S, S2, n, m2
<1>4. \A i \in 1..n : i \in 1..n + 1 /\ i # n + 1
  BY <1>2
<1>5. n + 1 \in 1..n + 1 /\ \A i \in 1..n + 1 : i = n + 1 \/ i \in 1..n
  BY <1>2
<1>6. at2[n + 1] = k + 1 /\ \A i \in 1..n : at2[i] = at[i] /\ at[i] \in S
  BY <1>1, <1>2, <1>4, <1>5
<1>7. at2 \in [1..n + 1 -> S2]
  BY <1>3, <1>5, <1>6
<1> HIDE DEF at2
<1>8. ASSUME NEW i \in 1..n + 1, NEW j \in 1..n + 1, i < j PROVE at2[i] < at2[j]
  <2>1. i \in 1..n
    BY <1>2, <1>8
  <2>2. CASE j = n + 1
    <3>1. at2[i] \in S /\ at2[j] = k + 1
      BY <1>6, <2>1, <2>2
    <3>2. at2[i] \in Nat /\ at2[i] <= k
      BY <1>3, <3>1
    <3>3. QED BY <3>1, <3>2
  <2>3. CASE j \in 1..n
    <3>1. at[i] < at[j]
      BY <1>1, <1>2, <1>8, <2>1, <2>3
    <3>2. QED BY <1>6, <2>1, <2>3, <3>1
  <2>4. QED BY <1>5, <2>2, <2>3
<1>9. ASSUME NEW x \in S2 PROVE \E i \in 1..n + 1 : at2[i] = x
  <2>1. CASE x = k + 1
    BY <1>5, <1>6, <2>1
  <2>2. CASE x \in S
    <3>1. PICK i \in 1..n : at[i] = x
      BY <1>1, <1>2, <2>2
    <3>2. QED BY <1>4, <1>6, <3>1
  <2>3. QED BY <1>3, <2>1, <2>2
<1>10. ASSUME NEW i \in 1..n + 1 PROVE m2[i] = secs[at2[i]].len
  <2>1. CASE i = n + 1
    BY <1>2, <1>6, <2>1
  <2>2. CASE i \in 1..n
    BY <1>1, <1>2, <1>6, <2>2
  <2>3. QED BY <1>5, <2>1, <2>2
<1>11. Marks(m2, secs, S2)
  <2>1. /\ at2 \in [DOMAIN m2 -> S2]
        /\ \A i, j \in DOMAIN m2 : i < j => at2[i] < at2[j]
        /\ \A x \in S2 : \E i \in DOMAIN m2 : at2[i] = x
        /\ \A i \in DOMAIN m2 : m2[i] = secs[at2[i]].len
    <3>1. DOMAIN m2 = 1..n + 1
      BY <1>2
    <3>2. QED BY <1>7, <1>8, <1>9, <1>10, <3>1, Zenon
  <2>2. QED BY <2>1, Zenon DEF Marks
<1>12. QED BY <1>11 DEF m2, S2

\* One section further.
LEMMA Onwards ==
    ASSUME NEW types, NEW secs, Fits(types, secs), NEW d,
           d = MakeData(types, Stored(types, secs)),
           NEW k \in 0..Len(secs), NEW q, NEW m, Walked(secs, k, q, m), q < d[1][2]
    PROVE  /\ d[q + 1] = Type("m") =>
                 Walked(secs, k + 1, q + 1 + StrLen(d, q + 1) + 1, Append(m, StrLen(d, q + 1)))
           /\ d[q + 1] = Type("W") =>
                 Walked(secs, k + 1, q + 1 + NtoHL(d, q + 1) + SizeOf, m)
<1> DEFINE n == Len(secs)
           e == Ends(secs)
           s == secs[k + 1]
           l == s.len
<1>1. /\ k \in 0..n - 1 /\ q = 4 + e[k] /\ s \in Section /\ d[q + 1] = Type(s.type)
      /\ s.type = "m" => StrLen(d, q + 1) = l
      /\ s.type = "W" => NtoHL(d, q + 1) = l \/ (k + 1 = n /\ NtoHL(d, q + 1) = l * 2^24)
  BY AtSection
<1>2. secs \in Seq(Section) /\ n \in Nat /\ d[1][2] = e[n]
  BY DataFacts DEF Fits
<1>3. l \in Nat /\ s.type \in Types
  BY <1>1, SectionFacts
<1>4. /\ d[q + 1] = Type("m") => s.type = "m"
      /\ d[q + 1] = Type("W") => s.type = "W"
  BY <1>1 DEF Type
<1>5. k \in Nat /\ k + 1 \in 1..n /\ k \in 0..n /\ n \in 0..n /\ k + 1 \in 0..n
  BY <1>1, <1>2
<1>6. e[k] \in Nat /\ e[n] \in Nat /\ e[k + 1] \in Nat /\ e[k + 1] <= e[n]
  BY <1>2, <1>5, EndsFacts, Zenon
<1>7. e[k + 1] = e[k] + SectionSize(s)
  <2>1. \A i \in 1..n : e[i] = e[i - 1] + SectionSize(secs[i])
    BY <1>2, EndsSteps, Zenon
  <2> DEFINE i == k + 1
  <2>2. i \in 1..n /\ i - 1 = k
    BY <1>5
  <2> HIDE DEF i, e
  <2>3. e[i] = e[k] + SectionSize(secs[i])
    BY <2>1, <2>2
  <2>4. QED BY <2>3 DEF i
<1>8. /\ s.type = "m" => SectionSize(s) = l + 2
      /\ s.type = "W" => SectionSize(s) = l + 5
  BY <1>1, SizeFacts
<1>9. m \in Seq(Nat) /\ Marks(m, secs, TextsAmong(secs, k)) /\ \A j \in 1..k : e[n] - e[j - 1] > 4
  BY DEF Walked
<1> HIDE DEF e
<1>10. \A j \in 1..k + 1 : e[n] - e[j - 1] > 4
  <2>1. e[n] - e[k] > 4
    BY <1>1, <1>2, <1>6
  <2>2. \A j \in 1..k + 1 : j \in 1..k \/ j - 1 = k
    BY <1>5
  <2>3. QED BY <1>9, <2>1, <2>2
<1>11. ASSUME d[q + 1] = Type("m")
       PROVE  Walked(secs, k + 1, q + 1 + StrLen(d, q + 1) + 1, Append(m, StrLen(d, q + 1)))
  <2>1. StrLen(d, q + 1) = l /\ s.type = "m" /\ SectionSize(s) = l + 2
    BY <1>1, <1>4, <1>8, <1>11, Zenon
  <2>2. Marks(Append(m, l), secs, TextsAmong(secs, k + 1))
    BY <1>3, <1>5, <1>9, <2>1, MarkText, Zenon
  <2>3. Append(m, l) \in Seq(Nat)
    BY <1>3, <1>9
  <2>4. q + 1 + l + 1 = 4 + e[k + 1] /\ q + 1 + l + 1 \in Nat
    <3> DEFINE a == e[k]
               b == e[k + 1]
    <3>1. q = 4 + a /\ b = a + (l + 2) /\ a \in Nat /\ l \in Nat
      BY <1>1, <1>3, <1>6, <1>7, <2>1, Zenon
    <3> HIDE DEF a, b, l
    <3>2. q + 1 + l + 1 = 4 + b /\ q + 1 + l + 1 \in Nat
      BY <3>1
    <3>3. QED BY <3>2, Zenon DEF b
  <2>5. QED BY <1>10, <2>1, <2>2, <2>3, <2>4, Zenon DEF Walked, e
<1>12. ASSUME d[q + 1] = Type("W")
       PROVE  Walked(secs, k + 1, q + 1 + NtoHL(d, q + 1) + SizeOf, m)
  <2>1. s.type = "W" /\ SectionSize(s) = l + 5
    BY <1>4, <1>8, <1>12, Zenon
  <2>2. TextsAmong(secs, k + 1) = TextsAmong(secs, k)
    <3>1. \A j \in 1..k + 1 : j \in 1..k \/ j = k + 1
      BY <1>5
    <3>2. 1..k \subseteq 1..k + 1
      BY <1>5
    <3>3. secs[k + 1].type # "m"
      BY <2>1
    <3>4. QED BY <3>1, <3>2, <3>3 DEF TextsAmong
  <2> DEFINE x == NtoHL(d, q + 1)
             q2 == q + 1 + x + SizeOf
  <2>3. x = l \/ (k + 1 = n /\ x = l * 2^24)
    BY <1>1, <2>1, Zenon
  <2> HIDE DEF l, x, s
  <2>4. q2 \in Nat /\ (q2 = 4 + e[k + 1] \/ (k + 1 = n /\ q2 >= e[k + 1]))
    <3> DEFINE a == e[k]
               b == e[k + 1]
    <3>1. q = 4 + a /\ b = a + (l + 5) /\ a \in Nat /\ l \in Nat
      BY <1>1, <1>3, <1>6, <1>7, <2>1, Zenon
    <3>2. q2 = q + 1 + x + 4
      BY DEF SizeOf
    <3> HIDE DEF a, b, q2
    <3>3. CASE x = l
      <4>1. q2 = 4 + b /\ q2 \in Nat
        BY <3>1, <3>2, <3>3
      <4>2. QED BY <4>1, Zenon DEF b
    <3>4. CASE k + 1 = n /\ x = l * 2^24
      <4>1. x >= l /\ x \in Nat
        BY <3>1, <3>4
      <4>2. q2 >= b /\ q2 \in Nat
        BY <3>1, <3>2, <4>1
      <4>3. QED BY <3>4, <4>2, Zenon DEF b
    <3>5. QED BY <2>3, <3>3, <3>4, Zenon
  <2> HIDE DEF q2
  <2>5. Walked(secs, k + 1, q2, m)
    BY <1>9, <1>10, <2>2, <2>4, Zenon DEF Walked, e
  <2>6. QED BY <2>5 DEF q2, x
<1>13. QED BY <1>11, <1>12

\* The inductive invariant of the walk: the articles fit the types of the dictionary,
\* nothing is shown before an article is asked for, and then some sections of it lie
\* behind parse_data, which stops where data ends.
WalkInv ==
    /\ \A o \in Offsets : Fits(sametypesequence, dict[o])
    /\ word \in Offsets \cup {-1}
    /\ word = -1 => data = <<>> /\ pc = "idle"
    /\ word # -1 =>
          \E k \in 0..Len(dict[word]) :
             /\ Walked(dict[word], k, p, mark)
             /\ pc = "idle" => p >= Ends(dict[word])[Len(dict[word])]

\* At the start of an article nothing lies behind.
LEMMA WalkBegins ==
    ASSUME NEW secs, Len(secs) \in Nat
    PROVE  Walked(secs, 0, SizeOf, <<>>)
<1>1. Ends(secs)[0] = 0
  BY EndsSteps
<1>2. TextsAmong(secs, 0) = {}
  BY DEF TextsAmong
<1>3. Marks(<<>>, secs, {})
  <2>1. DOMAIN <<>> = {} /\ <<>> \in [{} -> {}]
    OBVIOUS
  <2>2. QED BY <2>1 DEF Marks
<1>4. SizeOf = 4 + Ends(secs)[0] /\ SizeOf \in Nat
  BY <1>1 DEF SizeOf
<1>5. <<>> \in Seq(Nat) /\ Marks(<<>>, secs, TextsAmong(secs, 0))
  BY <1>2, <1>3, EmptySeq
<1>6. \A j \in 1..0 : Ends(secs)[Len(secs)] - Ends(secs)[j - 1] > 4
  OBVIOUS
<1>7. QED BY <1>4, <1>5, <1>6, Zenon DEF Walked

\* The invariant holds when nothing was asked for,
LEMMA WalkInit == Init => WalkInv
<1> SUFFICES ASSUME Init PROVE WalkInv
  OBVIOUS
<1>1. ASSUME NEW o \in Offsets PROVE Fits(sametypesequence, dict[o])
  <2> DEFINE secs == dict[o]
             types == sametypesequence
  <2>1. PICK n \in 1..MaxSections : secs \in [1..n -> [type : Types, len : Lens]]
    <3> DEFINE Articles == UNION {[1..i -> [type : Types, len : Lens]] : i \in 1..MaxSections}
    <3>1. dict \in [Offsets -> Articles]
      BY Zenon DEF Init
    <3> HIDE DEF Articles
    <3>2. secs \in Articles
      BY <3>1
    <3>3. QED BY <3>2, Zenon DEF Articles
  <2>2. /\ \A k \in DOMAIN types : types[k] = "W" => k = Len(types)
        /\ types # <<>> => [k \in DOMAIN secs |-> secs[k].type] = types
    BY DEF Init
  <2> HIDE DEF secs, types
  <2>3. n \in Nat \ {0}
    BY BoundAssumption
  <2>4. secs \in Seq(Section) /\ Len(secs) = n /\ DOMAIN secs = 1..n
    BY <2>1, <2>3, FunctionIsSeq DEF Section
  <2>5. ASSUME types # <<>>
        PROVE  /\ Len(types) = n
               /\ \A k \in 1..n : types[k] = secs[k].type /\ (types[k] = "W" => k = n)
    <3>1. types = [k \in 1..n |-> secs[k].type]
      BY <2>2, <2>4, <2>5
    <3>2. Len(types) = n /\ DOMAIN types = 1..n
      BY <2>3, <3>1
    <3>3. \A k \in 1..n : types[k] = secs[k].type
      BY <3>1
    <3>4. QED BY <2>2, <3>2, <3>3
  <2>6. Fits(types, secs)
    BY <2>3, <2>4, <2>5 DEF Fits
  <2>7. QED BY <2>6 DEF types, secs
<1>2. word = -1 /\ data = <<>> /\ pc = "idle"
  BY DEF Init
<1>3. QED BY <1>1, <1>2 DEF WalkInv

\* after every step,
LEMMA WalkStep == CacheInv /\ WalkInv /\ [Next]_vars => WalkInv'
<1> SUFFICES ASSUME CacheInv, WalkInv, [Next]_vars PROVE WalkInv'
  OBVIOUS
<1>1. UNCHANGED <<sametypesequence, dict>>
  BY DEF Next, Hit, Miss, Parse, ParseText, ParseBlock, ParseEnd, vars
<1>2. \A o \in Offsets : Fits(sametypesequence', dict'[o])
  BY <1>1 DEF WalkInv
<1>3. -1 \notin Offsets
  BY OffsetsAssumption
<1>4. ASSUME NEW o \in Offsets, Hit(o) \/ Miss(o) PROVE WalkInv'
  <2>1. word' = o /\ pc' = "parse" /\ p' = SizeOf /\ mark' = <<>>
    BY <1>4 DEF Hit, Miss, Parse
  <2>2. Len(dict[o]) \in Nat
    BY DEF WalkInv, Fits
  <2>3. Walked(dict[o], 0, SizeOf, <<>>) /\ 0 \in 0..Len(dict[o])
    BY <2>2, WalkBegins
  <2>4. \E k \in 0..Len(dict'[word']) :
           /\ Walked(dict'[word'], k, p', mark')
           /\ pc' = "idle" => p' >= Ends(dict'[word'])[Len(dict'[word'])]
    BY <1>1, <2>1, <2>3
  <2>5. word' # -1 /\ word' \in Offsets
    BY <1>3, <2>1
  <2>6. QED BY <1>2, <2>4, <2>5 DEF WalkInv
<1>5. ASSUME pc = "parse", UNCHANGED <<word, data>>,
             \E k \in 0..Len(dict[word]) :
                /\ Walked(dict[word], k, p', mark')
                /\ pc' = "idle" => p' >= Ends(dict[word])[Len(dict[word])]
      PROVE  WalkInv'
  <2>1. word # -1 /\ word \in Offsets
    BY <1>5 DEF WalkInv
  <2>2. QED BY <1>1, <1>2, <1>5, <2>1 DEF WalkInv
<1>6. ASSUME pc = "parse"
      PROVE  /\ Fits(sametypesequence, dict[word])
             /\ data = MakeData(sametypesequence, Stored(sametypesequence, dict[word]))
             /\ \E k \in 0..Len(dict[word]) : Walked(dict[word], k, p, mark)
  <2>1. word # -1 /\ word \in Offsets
    BY <1>6 DEF WalkInv
  <2>2. data = Data(word)
    BY <2>1 DEF CacheInv, Inv
  <2>3. QED BY <2>1, <2>2 DEF WalkInv, Data
<1>7. CASE ParseText \/ ParseBlock
  <2>1. pc = "parse" /\ UNCHANGED <<word, data, pc>> /\ p < data[1][2]
    BY <1>7 DEF ParseText, ParseBlock, data_size
  <2>2. PICK k \in 0..Len(dict[word]) : Walked(dict[word], k, p, mark)
    BY <1>6, <2>1
  <2>3. k + 1 \in 0..Len(dict[word])
    <3>1. k \in 0..Len(dict[word]) - 1
      BY <1>6, <2>1, <2>2, AtSection
    <3>2. Len(dict[word]) \in Nat
      BY <1>6, <2>1 DEF Fits
    <3>3. QED BY <3>1, <3>2
  <2>4. Walked(dict[word], k + 1, p', mark')
    <3>1. CASE ParseText
      <4>1. /\ data[p + 1] = Type("m")
            /\ p' = p + 1 + StrLen(data, p + 1) + 1 /\ mark' = Append(mark, StrLen(data, p + 1))
        BY <3>1 DEF ParseText
      <4>2. QED BY <1>6, <2>1, <2>2, <4>1, Onwards
    <3>2. CASE ParseBlock
      <4>1. /\ data[p + 1] = Type("W")
            /\ p' = p + 1 + NtoHL(data, p + 1) + SizeOf /\ mark' = mark
        BY <3>2 DEF ParseBlock
      <4>2. QED BY <1>6, <2>1, <2>2, <4>1, Onwards
    <3>3. QED BY <1>7, <3>1, <3>2
  <2>5. pc' # "idle"
    BY <2>1
  <2>6. QED BY <1>5, <2>1, <2>3, <2>4, <2>5
<1>8. CASE ParseEnd
  <2>1. pc = "parse" /\ UNCHANGED <<word, data, p, mark>> /\ p >= data[1][2]
    BY <1>8 DEF ParseEnd, data_size
  <2>2. data[1][2] = Ends(dict[word])[Len(dict[word])]
    BY <1>6, <2>1, DataFacts
  <2>3. QED BY <1>5, <1>6, <2>1, <2>2
<1>9. CASE UNCHANGED vars
  BY <1>9 DEF WalkInv, vars
<1>10. QED BY <1>4, <1>7, <1>8, <1>9 DEF Next

\* and so always.
LEMMA WalkAlways == Spec => [](CacheInv /\ WalkInv)
<1>1. Init => CacheInv /\ WalkInv
  BY CacheInit, WalkInit
<1>2. CacheInv /\ WalkInv /\ [Next]_vars => (CacheInv /\ WalkInv)'
  BY CacheStep, WalkStep
<1> QED BY <1>1, <1>2, PTL DEF Spec

\* GetWordData fills just what it has allocated, and parse_data finds a type where
\* it looks for one, whatever the sections of the articles and their lengths are.
THEOREM WalkInStep == Spec => []InStep
<1>1. CacheInv /\ WalkInv => InStep
  <2> SUFFICES ASSUME CacheInv, WalkInv PROVE InStep
    OBVIOUS
  <2>1. CASE word = -1
    BY <2>1 DEF WalkInv, InStep
  <2>2. CASE word # -1
    <3> DEFINE secs == dict[word]
               types == sametypesequence
    <3>1. Fits(types, secs) /\ data = MakeData(types, Stored(types, secs))
      BY <2>2 DEF WalkInv, CacheInv, Inv, Data
    <3>2. PICK k \in 0..Len(secs) : Walked(secs, k, p, mark)
      BY <2>2 DEF WalkInv
    <3> HIDE DEF secs, types
    <3>3. Len(data) = data_size + SizeOf
      BY <3>1, DataFacts DEF data_size, SizeOf
    <3>4. ASSUME p < data_size PROVE data[p + 1] \in {Type(t) : t \in Types}
      <4>1. secs[k + 1] \in Section /\ data[p + 1] = Type(secs[k + 1].type)
        BY <3>1, <3>2, <3>4, AtSection DEF data_size
      <4>2. secs[k + 1].type \in Types
        BY <4>1, SectionFacts
      <4>3. QED BY <4>1, <4>2
    <3>5. QED BY <3>3, <3>4 DEF InStep
  <2>3. QED BY <2>1, <2>2
<1> QED BY <1>1, WalkAlways, PTL

\* The window shows the texts of the article that was asked for, all of them, once
\* and in their order, but for those in its last four bytes, for any articles.
THEOREM TextsAreShown == Spec => []TextsShown
<1>1. CacheInv /\ WalkInv => TextsShown
  <2> SUFFICES ASSUME WalkInv, word # -1, pc = "idle"
               PROVE  TextsShown
    BY DEF TextsShown
  <2> DEFINE secs == dict[word]
             n == Len(secs)
             e == Ends(secs)
             places == {j \in DOMAIN secs : secs[j].type = "m" /\ e[n] - e[j - 1] > SizeOf}
  <2>1. secs \in Seq(Section) /\ n \in Nat /\ DOMAIN secs = 1..n
    BY DEF WalkInv, Fits
  <2>2. PICK k \in 0..n : Walked(secs, k, p, mark) /\ p >= e[n]
    BY DEF WalkInv
  <2>3. /\ \A i \in 0..n : e[i] \in Nat
        /\ \A i \in 0..n : \A j \in 0..i : e[j] <= e[i]
    BY <2>1, EndsFacts, Zenon
  <2>4. /\ p = 4 + e[k] \/ k = n
        /\ Marks(mark, secs, TextsAmong(secs, k))
        /\ \A j \in 1..k : e[n] - e[j - 1] > 4
    BY <2>2 DEF Walked
  <2>5. TextsAmong(secs, k) = places
    <3> HIDE DEF e, n, secs
    <3>1. ASSUME NEW j \in 1..n, e[n] - e[j - 1] > 4 PROVE j \in 1..k
      <4>1. SUFFICES ASSUME j > k PROVE FALSE
        BY <2>1
      <4>2. p = 4 + e[k] /\ j - 1 \in 0..n /\ k \in 0..j - 1 /\ n \in 0..n
        BY <2>1, <2>4, <4>1
      <4>3. e[k] <= e[j - 1] /\ e[k] \in Nat /\ e[j - 1] \in Nat /\ e[n] \in Nat
        BY <2>3, <4>2
      <4>4. QED BY <2>2, <3>1, <4>2, <4>3
    <3>2. \A j \in 1..k : j \in 1..n
      BY <2>1
    <3>3. \A j \in 1..n : (j \in 1..k <=> e[n] - e[j - 1] > 4)
      BY <2>4, <3>1
    <3>4. QED BY <2>1, <3>2, <3>3 DEF TextsAmong, SizeOf
  <2>6. Marks(mark, secs, places)
    BY <2>4, <2>5
  <2>7. QED BY <2>6 DEF TextsShown
<1> QED BY <1>1, WalkAlways, PTL
=============================================================================
