----------------------- MODULE PluginsAndSpeechProofs -----------------------
(***************************************************************************)
(* What holds of PluginManager, whatever plugins there are, whichever fail *)
(* to load and whatever orders are passed, and of TtsPrefs, the settings of*)
(* the speech plugins, however often the dialog is opened, whatever is     *)
(* pressed in it, whichever writes fail and whenever the program is killed.*)
(***************************************************************************)
EXTENDS PluginManager, TtsPrefs, NaturalsInduction, SequenceTheorems,
        FiniteSetTheorems, TLAPS

-----------------------------------------------------------------------------
(* Numbers.                                                                *)

\* A set of natural numbers that is not empty has a least element.
LEMMA LeastNat ==
    ASSUME NEW T \in SUBSET Nat, T # {}
    PROVE  \E x \in T : \A y \in T : x <= y
<1> DEFINE R == OpToRel(<, Nat)
<1>1. IsWellFoundedOn(R, Nat)
  BY NatLessThanWellFounded
<1>2. \A x, y \in Nat : <<y, x>> \in R <=> y < x
  BY DEF OpToRel
<1> HIDE DEF R
<1>3. PICK x \in T : \A y \in T : ~ (<<y, x>> \in R)
  BY <1>1, WFMin
<1>4. ASSUME NEW y \in T PROVE x <= y
  <2>1. x \in Nat /\ y \in Nat
    OBVIOUS
  <2>2. ~ (y < x)
    BY <1>2, <1>3, <2>1
  <2>3. QED BY <2>1, <2>2
<1>5. QED BY <1>4

\* Induction up to n: what holds of 1, and of k + 1 if of k, is said by a set.
LEMMA CountFromOne ==
    ASSUME NEW n \in Nat, NEW T, 1 \in T, \A k \in 1..n - 1 : k \in T => k + 1 \in T
    PROVE  \A k \in 1..n : k \in T
<1> DEFINE Bad == {k \in 1..n : k \notin T}
<1>1. SUFFICES ASSUME Bad # {} PROVE FALSE
  OBVIOUS
<1>2. PICK x \in Bad : \A y \in Bad : x <= y
  <2>1. Bad \in SUBSET Nat
    OBVIOUS
  <2> HIDE DEF Bad
  <2>2. QED BY <1>1, <2>1, LeastNat
<1>3. x # 1 /\ x - 1 \in 1..n - 1
  OBVIOUS
<1>4. x - 1 \in T
  BY <1>2, <1>3
<1>5. x - 1 + 1 = x
  OBVIOUS
<1>6. QED BY <1>3, <1>4, <1>5

-----------------------------------------------------------------------------
(* FlattenSeq: what its recursion builds up.                               *)

\* The recursion of FlattenSeq, up to m.
IsFlat(g, ss, m) ==
    g = [i \in 1..m |-> IF i = 1 THEN ss[i] ELSE g[i - 1] \o ss[i]]

\* There is such a function, up to any number.
LEMMA FlatExists ==
    ASSUME NEW ss, NEW n \in Nat \ {0}
    PROVE  \E g : IsFlat(g, ss, n)
<1> DEFINE T == {m \in 1..n : \E g : IsFlat(g, ss, m)}
<1>1. 1 \in T
  <2>1. IsFlat([i \in 1..1 |-> ss[1]], ss, 1)
    BY DEF IsFlat
  <2>2. QED BY <2>1
<1>2. ASSUME NEW m \in 1..n - 1, m \in T PROVE m + 1 \in T
  <2>1. PICK f : IsFlat(f, ss, m)
    BY <1>2
  <2> DEFINE g == [i \in 1..m + 1 |-> IF i <= m THEN f[i] ELSE f[m] \o ss[m + 1]]
  <2>2. \A i \in 1..m : g[i] = f[i]
    OBVIOUS
  <2>3. g[m + 1] = f[m] \o ss[m + 1]
    <3>1. m + 1 \in 1..m + 1 /\ ~(m + 1 <= m)
      OBVIOUS
    <3>2. QED BY <3>1
  <2>4. g = [i \in 1..m + 1 |-> g[i]]
    OBVIOUS
  <2>5. \A i \in 1..m : f[i] = IF i = 1 THEN ss[i] ELSE f[i - 1] \o ss[i]
    BY <2>1 DEF IsFlat
  <2> HIDE DEF g
  <2>6. ASSUME NEW i \in 1..m + 1
        PROVE  g[i] = IF i = 1 THEN ss[i] ELSE g[i - 1] \o ss[i]
    <3>1. CASE i \in 1..m
      <4>1. i # 1 => i - 1 \in 1..m
        BY <3>1
      <4>2. QED BY <2>2, <2>5, <3>1, <4>1
    <3>2. CASE i = m + 1
      <4>1. i - 1 = m /\ i # 1 /\ m \in 1..m
        BY <3>2
      <4>2. QED BY <2>2, <2>3, <3>2, <4>1
    <3>3. QED BY <3>1, <3>2
  <2>7. g = [i \in 1..m + 1 |-> IF i = 1 THEN ss[i] ELSE g[i - 1] \o ss[i]]
    BY <2>4, <2>6
  <2>8. IsFlat(g, ss, m + 1)
    BY <2>7 DEF IsFlat
  <2>9. m + 1 \in 1..n
    OBVIOUS
  <2>10. QED BY <2>8, <2>9
<1> HIDE DEF T
<1>3. n \in Nat /\ n \in 1..n
  OBVIOUS
<1>4. \A k \in 1..n : k \in T
  BY <1>1, <1>2, <1>3, CountFromOne
<1>5. n \in T
  BY <1>3, <1>4
<1>6. QED BY <1>5 DEF T

\* The sequence of a part has its elements and no other, once if each is in one part.
LEMMA ConcatRange ==
    ASSUME NEW D, NEW s \in Seq(D), NEW t \in Seq(D)
    PROVE  /\ s \o t \in Seq(D)
           /\ Range(s \o t) = Range(s) \cup Range(t)
           /\ IsInjective(s) /\ IsInjective(t) /\ Range(s) \cap Range(t) = {}
                => IsInjective(s \o t)
<1>1. s \o t \in Seq(D) /\ Len(s \o t) = Len(s) + Len(t) /\ Len(s) \in Nat /\ Len(t) \in Nat
  OBVIOUS
<1>2. \A i \in 1..Len(s) + Len(t) : (s \o t)[i] = IF i <= Len(s) THEN s[i] ELSE t[i - Len(s)]
  OBVIOUS
<1>3. DOMAIN (s \o t) = 1..Len(s) + Len(t) /\ DOMAIN s = 1..Len(s) /\ DOMAIN t = 1..Len(t)
  BY <1>1
<1>4. \A i \in 1..Len(t) : (s \o t)[i + Len(s)] = t[i]
  <2> SUFFICES ASSUME NEW i \in 1..Len(t) PROVE (s \o t)[i + Len(s)] = t[i]
    OBVIOUS
  <2>1. i + Len(s) \in 1..Len(s) + Len(t) /\ ~(i + Len(s) <= Len(s)) /\ i + Len(s) - Len(s) = i
    BY <1>1
  <2>2. QED BY <1>2, <2>1
<1> DEFINE c == s \o t
<1> HIDE DEF c
<1>5. Range(c) = Range(s) \cup Range(t)
  <2>1. ASSUME NEW x \in Range(c) PROVE x \in Range(s) \cup Range(t)
    <3>1. PICK i \in 1..Len(s) + Len(t) : x = c[i]
      BY <1>3, <2>1 DEF Range, c
    <3>2. CASE i <= Len(s)
      BY <1>1, <1>2, <1>3, <3>1, <3>2 DEF Range, c
    <3>3. CASE ~(i <= Len(s))
      <4>1. i - Len(s) \in 1..Len(t)
        BY <1>1, <3>3
      <4>2. QED BY <1>2, <1>3, <3>1, <3>3, <4>1 DEF Range, c
    <3>4. QED BY <3>2, <3>3
  <2>2. ASSUME NEW x \in Range(s) PROVE x \in Range(c)
    <3>1. PICK i \in 1..Len(s) : x = s[i]
      BY <1>3 DEF Range
    <3>2. i \in 1..Len(s) + Len(t) /\ i <= Len(s)
      BY <1>1
    <3>3. QED BY <1>2, <1>3, <3>1, <3>2 DEF Range, c
  <2>3. ASSUME NEW x \in Range(t) PROVE x \in Range(c)
    <3>1. PICK i \in 1..Len(t) : x = t[i]
      BY <1>3 DEF Range
    <3>2. i + Len(s) \in 1..Len(s) + Len(t)
      BY <1>1
    <3>3. QED BY <1>4, <1>3, <3>1, <3>2 DEF Range, c
  <2>4. QED BY <2>1, <2>2, <2>3
<1>6. ASSUME IsInjective(s), IsInjective(t), Range(s) \cap Range(t) = {},
             NEW i \in 1..Len(s) + Len(t), NEW j \in 1..Len(s) + Len(t), c[i] = c[j]
      PROVE  i = j
  <2>1. \A k \in 1..Len(s) : s[k] \in Range(s)
    BY <1>3 DEF Range
  <2>2. \A k \in 1..Len(t) : t[k] \in Range(t)
    BY <1>3 DEF Range
  <2>3. \A k \in 1..Len(s) + Len(t) :
           \/ k \in 1..Len(s) /\ c[k] = s[k]
           \/ k - Len(s) \in 1..Len(t) /\ c[k] = t[k - Len(s)]
    BY <1>1, <1>2 DEF c
  <2>4. CASE i \in 1..Len(s) /\ c[i] = s[i] /\ j \in 1..Len(s) /\ c[j] = s[j]
    BY <1>3, <1>6, <2>4 DEF IsInjective
  <2>5. CASE /\ i - Len(s) \in 1..Len(t) /\ c[i] = t[i - Len(s)]
             /\ j - Len(s) \in 1..Len(t) /\ c[j] = t[j - Len(s)]
    <3>1. i - Len(s) = j - Len(s)
      BY <1>3, <1>6, <2>5 DEF IsInjective
    <3>2. QED BY <1>1, <3>1
  <2>6. QED BY <1>6, <2>1, <2>2, <2>3, <2>4, <2>5
<1>7. IsInjective(s) /\ IsInjective(t) /\ Range(s) \cap Range(t) = {} => IsInjective(c)
  BY <1>3, <1>6 DEF IsInjective, c
<1>8. QED BY <1>1, <1>5, <1>7 DEF c

\* What FlattenSeq makes of the parts has their elements, and each once if each part
\* has it once and no two parts have it.
LEMMA FlattenFacts ==
    ASSUME NEW D, NEW ss, NEW n \in Nat, ss \in Seq(Seq(D)), n = Len(ss)
    PROVE  /\ FlattenSeq(ss) \in Seq(D)
           /\ Range(FlattenSeq(ss)) = UNION {Range(ss[i]) : i \in 1..n}
           /\ (/\ \A i \in 1..n : IsInjective(ss[i])
               /\ \A i, j \in 1..n : i # j => Range(ss[i]) \cap Range(ss[j]) = {})
                => IsInjective(FlattenSeq(ss))
<1>1. Len(ss) = n /\ DOMAIN ss = 1..n /\ \A i \in 1..n : ss[i] \in Seq(D)
  OBVIOUS
<1>2. CASE n = 0
  <2>1. FlattenSeq(ss) = ss /\ DOMAIN ss = {}
    BY <1>1, <1>2 DEF FlattenSeq
  <2>2. ss \in Seq(D)
    <3>1. ss = <<>>
      BY <1>1, <1>2, EmptySeq
    <3>2. QED BY <3>1
  <2>3. Range(ss) = {} /\ IsInjective(ss)
    BY <2>1 DEF Range, IsInjective
  <2>4. UNION {Range(ss[i]) : i \in 1..n} = {}
    BY <1>2
  <2>5. QED BY <2>1, <2>2, <2>3, <2>4
<1>3. CASE n # 0
  <2> DEFINE f == CHOOSE g : IsFlat(g, ss, n)
  <2>1. FlattenSeq(ss) = f[n]
    BY <1>1, <1>3 DEF FlattenSeq, IsFlat
  <2>2. IsFlat(f, ss, n)
    BY <1>3, FlatExists
  <2> HIDE DEF f
  <2>3. f[1] = ss[1] /\ \A i \in 1..n - 1 : f[i + 1] = f[i] \o ss[i + 1]
    <3>1. \A i \in 1..n : f[i] = IF i = 1 THEN ss[i] ELSE f[i - 1] \o ss[i]
      BY <2>2 DEF IsFlat
    <3>2. 1 \in 1..n
      BY <1>3
    <3>3. ASSUME NEW i \in 1..n - 1 PROVE f[i + 1] = f[i] \o ss[i + 1]
      <4> DEFINE j == i + 1
      <4>1. j \in 1..n /\ j # 1 /\ j - 1 = i
        OBVIOUS
      <4> HIDE DEF j
      <4>2. f[j] = f[i] \o ss[j]
        BY <3>1, <4>1
      <4>3. QED BY <4>2 DEF j
    <3>4. f[1] = ss[1]
      BY <3>1, <3>2
    <3>5. QED BY <3>3, <3>4
  <2> DEFINE Apart == /\ \A i \in 1..n : IsInjective(ss[i])
                      /\ \A i, j \in 1..n : i # j => Range(ss[i]) \cap Range(ss[j]) = {}
             Good(k) == /\ f[k] \in Seq(D)
                        /\ Range(f[k]) = UNION {Range(ss[i]) : i \in 1..k}
                        /\ Apart => IsInjective(f[k])
             T == {k \in 1..n : Good(k)}
  <2>4. 1 \in T
    <3>1. 1 \in 1..n
      BY <1>3
    <3>2. UNION {Range(ss[i]) : i \in 1..1} = Range(ss[1])
      OBVIOUS
    <3>3. f[1] \in Seq(D) /\ Range(f[1]) = UNION {Range(ss[i]) : i \in 1..1}
      BY <1>1, <2>3, <3>1, <3>2
    <3>4. Apart => IsInjective(f[1])
      BY <2>3, <3>1
    <3>5. Good(1)
      BY <3>3, <3>4
    <3>6. QED BY <3>1, <3>5
  <2>5. ASSUME NEW k \in 1..n - 1, k \in T PROVE k + 1 \in T
    <3> DEFINE s == f[k]
               t == ss[k + 1]
    <3>0. k + 1 \in 1..n /\ 1..k + 1 = 1..k \cup {k + 1} /\ 1..k \subseteq 1..n /\ k + 1 \notin 1..k
      OBVIOUS
    <3>1. s \in Seq(D) /\ t \in Seq(D) /\ f[k + 1] = s \o t
      BY <1>1, <2>3, <2>5, <3>0
    <3>2. /\ s \o t \in Seq(D)
          /\ Range(s \o t) = Range(s) \cup Range(t)
          /\ IsInjective(s) /\ IsInjective(t) /\ Range(s) \cap Range(t) = {}
                => IsInjective(s \o t)
      <4> HIDE DEF s, t
      <4>1. QED BY <3>1, ConcatRange
    <3>3. Range(s) = UNION {Range(ss[i]) : i \in 1..k}
      BY <2>5
    <3>4. Range(s) \cup Range(t) = UNION {Range(ss[i]) : i \in 1..k + 1}
      BY <3>0, <3>3
    <3>5. ASSUME Apart PROVE IsInjective(f[k + 1])
      <4>1. IsInjective(s) /\ IsInjective(t)
        BY <2>5, <3>0, <3>5
      <4>2. Range(s) \cap Range(t) = {}
        <5>1. \A i \in 1..k : Range(ss[i]) \cap Range(t) = {}
          BY <3>0, <3>5
        <5>2. QED BY <3>3, <5>1
      <4>3. QED BY <3>1, <3>2, <4>1, <4>2
    <3>6. QED BY <3>0, <3>1, <3>2, <3>4, <3>5
  <2> HIDE DEF T
  <2>6. \A k \in 1..n : k \in T
    BY <2>4, <2>5, CountFromOne
  <2>7. n \in T
    BY <1>3, <2>6
  <2>8. QED BY <2>1, <2>7 DEF T
<1>4. QED BY <1>2, <1>3

-----------------------------------------------------------------------------
(* The lists: what is left of one when plugins are taken out of it.        *)

\* The plugins of a list that are of the file f.
OfFile(list, h, f) ==
    FlattenSeq([j \in DOMAIN list |-> IF h[list[j]] = f THEN <<list[j]>> ELSE <<>>])
InOrder(list, h, order) == FlattenSeq([i \in DOMAIN order |-> OfFile(list, h, order[i])])

\* One pass over the list finds all plugins of a file, each once.
LEMMA OfFileFacts ==
    ASSUME NEW D, NEW list \in Seq(D), NEW h, NEW f, IsInjective(list)
    PROVE  /\ OfFile(list, h, f) \in Seq(D) /\ IsInjective(OfFile(list, h, f))
           /\ Range(OfFile(list, h, f)) = {o \in Range(list) : h[o] = f}
<1> DEFINE n == Len(list)
           ss == [j \in 1..n |-> IF h[list[j]] = f THEN <<list[j]>> ELSE <<>>]
<1>1. n \in Nat /\ DOMAIN list = 1..n /\ \A j \in 1..n : list[j] \in D
  OBVIOUS
<1>2. \A j \in 1..n : ss[j] = IF h[list[j]] = f THEN <<list[j]>> ELSE <<>>
  OBVIOUS
<1>3. \A x : Range(<<x>>) = {x} /\ IsInjective(<<x>>)
  BY DEF Range, IsInjective
<1>4. Range(<<>>) = {} /\ IsInjective(<<>>)
  BY DEF Range, IsInjective
<1>5. \A j \in 1..n : /\ ss[j] \in Seq(D) /\ IsInjective(ss[j])
                      /\ Range(ss[j]) = IF h[list[j]] = f THEN {list[j]} ELSE {}
  <2> SUFFICES ASSUME NEW j \in 1..n
               PROVE  /\ ss[j] \in Seq(D) /\ IsInjective(ss[j])
                      /\ Range(ss[j]) = IF h[list[j]] = f THEN {list[j]} ELSE {}
    OBVIOUS
  <2>1. CASE h[list[j]] = f
    <3>1. ss[j] = <<list[j]>>
      BY <1>2, <2>1
    <3>2. <<list[j]>> \in Seq(D)
      BY <1>1
    <3> HIDE DEF ss, n
    <3>3. QED BY <1>3, <2>1, <3>1, <3>2
  <2>2. CASE h[list[j]] # f
    <3>1. ss[j] = <<>>
      BY <1>2, <2>2
    <3>2. <<>> \in Seq(D)
      OBVIOUS
    <3> HIDE DEF ss, n
    <3>3. QED BY <1>4, <2>2, <3>1, <3>2
  <2>3. QED BY <2>1, <2>2
<1>6. \A i, j \in 1..n : i # j => list[i] # list[j]
  BY <1>1 DEF IsInjective
<1>7. DOMAIN ss = 1..n /\ ss \in Seq(Seq(D)) /\ n = Len(ss)
  BY <1>1, <1>5
<1>8. OfFile(list, h, f) = FlattenSeq(ss)
  BY <1>1 DEF OfFile
<1> HIDE DEF ss, n
<1>9. \A i, j \in 1..n : i # j => Range(ss[i]) \cap Range(ss[j]) = {}
  BY <1>5, <1>6
<1>10. /\ FlattenSeq(ss) \in Seq(D)
       /\ Range(FlattenSeq(ss)) = UNION {Range(ss[i]) : i \in 1..n}
       /\ IsInjective(FlattenSeq(ss))
  <2>1. /\ FlattenSeq(ss) \in Seq(D)
        /\ Range(FlattenSeq(ss)) = UNION {Range(ss[i]) : i \in 1..n}
        /\ (/\ \A i \in 1..n : IsInjective(ss[i])
            /\ \A i, j \in 1..n : i # j => Range(ss[i]) \cap Range(ss[j]) = {})
             => IsInjective(FlattenSeq(ss))
    BY <1>1, <1>7, FlattenFacts
  <2>2. \A i \in 1..n : IsInjective(ss[i])
    BY <1>5
  <2>3. QED BY <1>9, <2>1, <2>2
<1>11. Range(list) = {list[j] : j \in 1..n}
  BY <1>1 DEF Range
<1>12. UNION {Range(ss[i]) : i \in 1..n} = {o \in Range(list) : h[o] = f}
  <2>1. ASSUME NEW o \in UNION {Range(ss[i]) : i \in 1..n}
        PROVE  o \in Range(list) /\ h[o] = f
    <3>1. PICK i \in 1..n : o \in Range(ss[i])
      OBVIOUS
    <3>2. QED BY <1>5, <1>11, <3>1
  <2>2. ASSUME NEW o \in Range(list), h[o] = f
        PROVE  o \in UNION {Range(ss[i]) : i \in 1..n}
    <3>1. PICK i \in 1..n : o = list[i]
      BY <1>11
    <3>2. o \in Range(ss[i])
      BY <1>5, <2>2, <3>1
    <3>3. QED BY <3>2
  <2>3. QED BY <2>1, <2>2
<1>13. QED BY <1>8, <1>10, <1>12

\* A reorder keeps plugins of the list, each once, if the order has each file once.
LEMMA InOrderFacts ==
    ASSUME NEW D, NEW list \in Seq(D), NEW h, NEW order \in Seq(Files),
           IsInjective(list), IsInjective(order)
    PROVE  /\ InOrder(list, h, order) \in Seq(D) /\ IsInjective(InOrder(list, h, order))
           /\ Range(InOrder(list, h, order)) \subseteq Range(list)
<1> DEFINE n == Len(order)
           ss == [i \in 1..n |-> OfFile(list, h, order[i])]
<1>1. n \in Nat /\ DOMAIN order = 1..n
  OBVIOUS
<1>2. \A i \in 1..n : /\ ss[i] \in Seq(D) /\ IsInjective(ss[i])
                      /\ Range(ss[i]) = {o \in Range(list) : h[o] = order[i]}
  BY OfFileFacts
<1>3. \A i, j \in 1..n : i # j => order[i] # order[j]
  BY <1>1 DEF IsInjective
<1>4. DOMAIN ss = 1..n /\ ss \in Seq(Seq(D)) /\ n = Len(ss)
  BY <1>1, <1>2
<1>5. InOrder(list, h, order) = FlattenSeq(ss)
  BY <1>1 DEF InOrder
<1> HIDE DEF ss, n
<1>6. \A i, j \in 1..n : i # j => Range(ss[i]) \cap Range(ss[j]) = {}
  <2> SUFFICES ASSUME NEW i \in 1..n, NEW j \in 1..n, i # j
               PROVE  Range(ss[i]) \cap Range(ss[j]) = {}
    OBVIOUS
  <2>1. order[i] # order[j]
    BY <1>3
  <2>2. /\ Range(ss[i]) = {o \in Range(list) : h[o] = order[i]}
        /\ Range(ss[j]) = {o \in Range(list) : h[o] = order[j]}
    BY <1>2
  <2>3. QED BY <2>1, <2>2
<1>7. /\ FlattenSeq(ss) \in Seq(D)
      /\ Range(FlattenSeq(ss)) = UNION {Range(ss[i]) : i \in 1..n}
      /\ IsInjective(FlattenSeq(ss))
  <2>1. /\ FlattenSeq(ss) \in Seq(D)
        /\ Range(FlattenSeq(ss)) = UNION {Range(ss[i]) : i \in 1..n}
        /\ (/\ \A i \in 1..n : IsInjective(ss[i])
            /\ \A i, j \in 1..n : i # j => Range(ss[i]) \cap Range(ss[j]) = {})
             => IsInjective(FlattenSeq(ss))
    BY <1>1, <1>4, FlattenFacts
  <2>2. \A i \in 1..n : IsInjective(ss[i])
    BY <1>2
  <2>3. QED BY <1>6, <2>1, <2>2
<1>8. \A i \in 1..n : Range(ss[i]) \subseteq Range(list)
  BY <1>2
<1>9. UNION {Range(ss[i]) : i \in 1..n} \subseteq Range(list)
  BY <1>8
<1>10. QED BY <1>5, <1>7, <1>9

\* An element that is taken out of a sequence which has it once is gone, the others stay.
LEMMA RemoveAtFacts ==
    ASSUME NEW D, NEW s \in Seq(D), IsInjective(s), NEW k \in 1..Len(s)
    PROVE  /\ RemoveAt(s, k) \in Seq(D) /\ IsInjective(RemoveAt(s, k))
           /\ Range(RemoveAt(s, k)) = Range(s) \ {s[k]}
<1> DEFINE n == Len(s)
           r == RemoveAt(s, k)
<1>1. n \in Nat /\ DOMAIN s = 1..n /\ k \in 1..n /\ \A i \in 1..n : s[i] \in D
  OBVIOUS
<1> DEFINE m == k + 1
           front == SubSeq(s, 1, k - 1)
           back == SubSeq(s, m, n)
<1>a. /\ front \in Seq(D) /\ Len(front) = k - 1 /\ \A i \in 1..k - 1 : front[i] = s[i]
  BY <1>1
<1>m. m \in 2..n + 1 /\ m \in Int /\ n \in Int /\ m = k + 1
  BY <1>1
<1>b. /\ back \in Seq(D) /\ Len(back) = n - k /\ \A i \in 1..n - k : back[i] = s[i + k]
  <2> HIDE DEF m, n
  <2>1. \A i \in m..n : s[i] \in D
    BY <1>1, <1>m
  <2>2. /\ SubSeq(s, m, n) \in Seq(D)
        /\ Len(SubSeq(s, m, n)) = IF m <= n THEN n - m + 1 ELSE 0
        /\ \A i \in 1..n - m + 1 : SubSeq(s, m, n)[i] = s[m + i - 1]
    BY <1>m, <2>1, SubSeqProperties
  <2> HIDE DEF back
  <2>3. back \in Seq(D) /\ Len(back) = n - k
    BY <1>1, <1>m, <2>2 DEF back
  <2>4. ASSUME NEW i \in 1..n - k PROVE back[i] = s[i + k]
    <3>1. i \in 1..n - m + 1 /\ m + i - 1 = i + k
      BY <1>1, <1>m
    <3>2. back[i] = s[m + i - 1]
      BY <2>2, <3>1 DEF back
    <3>3. QED BY <3>1, <3>2
  <2>5. QED BY <2>3, <2>4
<1>c. r = front \o back
  BY DEF RemoveAt
<1> HIDE DEF r, front, back, m
<1>2. r \in Seq(D) /\ Len(r) = n - 1
  <2>1. k - 1 + (n - k) = n - 1
    BY <1>1
  <2>2. Len(r) = Len(front) + Len(back) /\ r \in Seq(D)
    BY <1>a, <1>b, <1>c, ConcatProperties
  <2>3. QED BY <1>a, <1>b, <2>1, <2>2
<1>3. \A i \in 1..n - 1 : r[i] = IF i < k THEN s[i] ELSE s[i + 1]
  <2> SUFFICES ASSUME NEW i \in 1..n - 1 PROVE r[i] = IF i < k THEN s[i] ELSE s[i + 1]
    OBVIOUS
  <2>0. i \in 1..Len(front) + Len(back)
    BY <1>1, <1>a, <1>b
  <2>1. r[i] = IF i <= k - 1 THEN front[i] ELSE back[i - (k - 1)]
    BY <1>a, <1>b, <1>c, <2>0, ConcatProperties
  <2>2. CASE i < k
    <3>1. i \in 1..k - 1 /\ i <= k - 1
      BY <1>1, <2>2
    <3>2. QED BY <1>a, <2>1, <2>2, <3>1
  <2>3. CASE ~(i < k)
    <3>1. ~(i <= k - 1) /\ i - (k - 1) \in 1..n - k /\ i - (k - 1) + k = i + 1
      BY <1>1, <2>3
    <3>2. QED BY <1>b, <2>1, <2>3, <3>1
  <2>4. QED BY <2>2, <2>3
<1>4. DOMAIN r = 1..n - 1
  BY <1>2
<1> HIDE DEF r, n
<1>5. \A i, j \in 1..n : s[i] = s[j] => i = j
  BY <1>1 DEF IsInjective
<1>6. ASSUME NEW i \in 1..n - 1, NEW j \in 1..n - 1, r[i] = r[j] PROVE i = j
  <2>1. i \in 1..n /\ i + 1 \in 1..n /\ j \in 1..n /\ j + 1 \in 1..n
    BY <1>1
  <2>2. CASE i < k /\ j < k
    BY <1>3, <1>5, <1>6, <2>1, <2>2
  <2>3. CASE i < k /\ ~(j < k)
    <3>1. i = j + 1
      BY <1>3, <1>5, <1>6, <2>1, <2>3
    <3>2. QED BY <1>1, <2>3, <3>1
  <2>4. CASE ~(i < k) /\ j < k
    <3>1. i + 1 = j
      BY <1>3, <1>5, <1>6, <2>1, <2>4
    <3>2. QED BY <1>1, <2>4, <3>1
  <2>5. CASE ~(i < k) /\ ~(j < k)
    <3>1. i + 1 = j + 1
      BY <1>3, <1>5, <1>6, <2>1, <2>5
    <3>2. QED BY <1>1, <3>1
  <2>6. QED BY <2>2, <2>3, <2>4, <2>5
<1>7. IsInjective(r)
  BY <1>4, <1>6 DEF IsInjective
<1>8. ASSUME NEW x \in Range(r) PROVE x \in Range(s) \ {s[k]}
  <2>1. PICK i \in 1..n - 1 : x = r[i]
    BY <1>4 DEF Range
  <2>2. i \in 1..n /\ i + 1 \in 1..n
    BY <1>1
  <2>3. CASE i < k
    <3>1. i # k
      BY <1>1, <2>3
    <3>2. QED BY <1>1, <1>3, <1>5, <2>1, <2>2, <2>3, <3>1 DEF Range
  <2>4. CASE ~(i < k)
    <3>1. i + 1 # k
      BY <1>1, <2>4
    <3>2. QED BY <1>1, <1>3, <1>5, <2>1, <2>2, <2>4, <3>1 DEF Range
  <2>5. QED BY <2>3, <2>4
<1>9. ASSUME NEW x \in Range(s), x # s[k] PROVE x \in Range(r)
  <2>1. PICK i \in 1..n : x = s[i]
    BY <1>1 DEF Range
  <2>2. CASE i < k
    <3>1. i \in 1..n - 1
      BY <1>1, <2>2
    <3>2. QED BY <1>3, <1>4, <2>1, <2>2, <3>1 DEF Range
  <2>3. CASE ~(i < k)
    <3> DEFINE j == i - 1
    <3>1. j \in 1..n - 1 /\ ~(j < k) /\ j + 1 = i
      BY <1>1, <1>9, <2>1, <2>3
    <3> HIDE DEF j
    <3>2. r[j] = x
      BY <1>3, <2>1, <3>1
    <3>3. QED BY <1>4, <3>1, <3>2 DEF Range
  <2>4. QED BY <2>2, <2>3
<1>10. QED BY <1>2, <1>7, <1>8, <1>9 DEF r

-----------------------------------------------------------------------------
(* PluginManager: the inductive invariant.                                 *)

\* The type of the plugins of each list.
ListType == <<"VIRTUALDICT", "NETDICT", "SPECIALDICT", "TTS", "PARSEDATA", "MISC">>

\* The lists ls hold the objects of h, each in one place, in the list of its type, and
\* no two objects are of one file.
Placed(ls, h) ==
    /\ IsFiniteSet(DOMAIN h) /\ h \in [DOMAIN h -> Files] /\ IsInjective(h)
    /\ \A k \in 1..6 : ls[k] \in Seq(DOMAIN h) /\ IsInjective(ls[k])
    /\ \A k \in 1..6 : \A o \in Range(ls[k]) : TypeOf[h[o]] = ListType[k]
    /\ \A o \in DOMAIN h : \E k \in 1..6 : o \in Range(ls[k])

\* What has been loaded is on the list of names, and its module is open once.
Named(names, h, open) ==
    /\ names \in Seq(Files) /\ IsInjective(names)
    /\ \A o \in DOMAIN h : h[o] \in Range(names)
    /\ open = [f \in Files |-> IF f \in Range(h) THEN 1 ELSE 0]

Info == {info \in [filename : Files, plugin_type : Types] :
            info.plugin_type = TypeOf[info.filename]}

PluginInv ==
    /\ Placed(lists, heap)
    /\ Named(loaded_plugin_list, heap, refs)
    /\ toload \in Seq(Files)
    /\ plugin_list \subseteq Info

\* The six lists, as one function.
LEMMA SixLists ==
    /\ DOMAIN lists = 1..6
    /\ lists[1] = VirtualDictPlugins /\ lists[2] = NetDictPlugins
    /\ lists[3] = SpecialDictPlugins /\ lists[4] = TtsPlugins
    /\ lists[5] = ParseDataPlugins /\ lists[6] = MiscPlugins
    /\ \A k \in 1..6 : k \in {1, 2, 3, 4, 5, 6}
BY DEF lists

\* Each type has its list, and another has not.
LEMMA TypeLists ==
    /\ \A k, l \in 1..6 : ListType[k] = ListType[l] => k = l
    /\ \A k \in 1..6 : ListType[k] \in Types
    /\ \A t \in Types : \E k \in 1..6 : ListType[k] = t
    /\ ListType[1] = "VIRTUALDICT" /\ ListType[2] = "NETDICT" /\ ListType[3] = "SPECIALDICT"
    /\ ListType[4] = "TTS" /\ ListType[5] = "PARSEDATA" /\ ListType[6] = "MISC"
<1>1. ListType[1] = "VIRTUALDICT" /\ ListType[2] = "NETDICT" /\ ListType[3] = "SPECIALDICT"
  BY DEF ListType
<1>2. ListType[4] = "TTS" /\ ListType[5] = "PARSEDATA" /\ ListType[6] = "MISC"
  BY DEF ListType
<1>3. \A k \in 1..6 : k = 1 \/ k = 2 \/ k = 3 \/ k = 4 \/ k = 5 \/ k = 6
  OBVIOUS
<1>4. 1 \in 1..6 /\ 2 \in 1..6 /\ 3 \in 1..6 /\ 4 \in 1..6 /\ 5 \in 1..6 /\ 6 \in 1..6
  OBVIOUS
<1>5. \A k, l \in 1..6 : ListType[k] = ListType[l] => k = l
  BY <1>1, <1>2, <1>3
<1>6. \A k \in 1..6 : ListType[k] \in Types
  BY <1>1, <1>2, <1>3 DEF Types
<1>7. \A t \in Types : \E k \in 1..6 : ListType[k] = t
  BY <1>1, <1>2, <1>4 DEF Types
<1>8. QED BY <1>1, <1>2, <1>5, <1>6, <1>7

CountOf(h, objects, f) == Cardinality({o \in objects : h[o] = f})

\* How many of the objects are of a file: one or none.
LEMMA OneOfFile ==
    ASSUME NEW h, IsInjective(h), NEW objects \in SUBSET DOMAIN h, NEW f
    PROVE  CountOf(h, objects, f) = IF \E o \in objects : h[o] = f THEN 1 ELSE 0
<1> DEFINE S == {o \in objects : h[o] = f}
<1>1. CASE \E o \in objects : h[o] = f
  <2>1. PICK o \in objects : h[o] = f
    BY <1>1
  <2>2. S = {o}
    BY <2>1 DEF IsInjective
  <2>3. Cardinality({o}) = 1
    BY FS_Singleton
  <2>4. QED BY <1>1, <2>2, <2>3 DEF CountOf
<1>2. CASE ~ \E o \in objects : h[o] = f
  <2>1. S = {}
    BY <1>2
  <2>2. QED BY <1>2, <2>1, FS_EmptySet DEF CountOf
<1>3. QED BY <1>1, <1>2

\* The elements of a sequence.
LEMMA SeqElements ==
    ASSUME NEW D, NEW s \in Seq(D)
    PROVE  Range(s) \subseteq D /\ s \in Seq(Range(s))
<1>1. Len(s) \in Nat /\ DOMAIN s = 1..Len(s) /\ \A i \in 1..Len(s) : s[i] \in D
  OBVIOUS
<1>2. Range(s) = {s[i] : i \in 1..Len(s)}
  BY <1>1 DEF Range
<1>3. s \in [1..Len(s) -> {s[i] : i \in 1..Len(s)}]
  BY <1>1
<1>4. s \in Seq({s[i] : i \in 1..Len(s)})
  BY <1>1, <1>3
<1>5. QED BY <1>1, <1>2, <1>4

\* A new element at the end of a sequence.
LEMMA AppendFacts ==
    ASSUME NEW D, NEW s \in Seq(D), IsInjective(s), NEW x \in D, x \notin Range(s)
    PROVE  /\ Append(s, x) \in Seq(D) /\ IsInjective(Append(s, x))
           /\ Range(Append(s, x)) = Range(s) \cup {x}
<1> DEFINE r == Append(s, x)
<1>1. Len(s) \in Nat /\ DOMAIN s = 1..Len(s) /\ \A i \in 1..Len(s) : s[i] \in Range(s)
  BY DEF Range
<1>2. r \in Seq(D) /\ Len(r) = Len(s) + 1
  BY AppendProperties
<1>3. r[Len(s) + 1] = x /\ \A i \in 1..Len(s) : r[i] = s[i]
  BY AppendProperties
<1>4. DOMAIN r = 1..Len(s) + 1
  BY <1>1, <1>2
<1>5. 1..Len(s) + 1 = 1..Len(s) \cup {Len(s) + 1}
  BY <1>1
<1> HIDE DEF r
<1>6. Range(r) = Range(s) \cup {x}
  BY <1>1, <1>3, <1>4, <1>5 DEF Range
<1>7. IsInjective(r)
  BY <1>1, <1>3, <1>4, <1>5 DEF IsInjective
<1>8. QED BY <1>2, <1>6, <1>7 DEF r

-----------------------------------------------------------------------------
(* What the actions do to the lists.                                       *)

With(h, o, f) == [x \in DOMAIN h \cup {o} |-> IF x \in DOMAIN h THEN h[x] ELSE f]
Put(ls, ls2, k, o) ==
    ls2[k] = Append(ls[k], o) /\ \A l \in 1..6 : l # k => ls2[l] = ls[l]
Fewer(ls, ls2, h) ==
    \A k \in 1..6 : /\ ls2[k] \in Seq(DOMAIN h) /\ IsInjective(ls2[k])
                    /\ Range(ls2[k]) \subseteq Range(ls[k])
Gone(ls, ls2) == UNION {Range(ls[k]) \ Range(ls2[k]) : k \in 1..6}

\* A new object of a file that has none is put at the end of the list of its type.
LEMMA AddKeeps ==
    ASSUME NEW ls, NEW h, Placed(ls, h), NEW k \in 1..6, NEW o, o \notin DOMAIN h,
           NEW f \in Files, f \notin Range(h), TypeOf[f] = ListType[k],
           NEW ls2, Put(ls, ls2, k, o), NEW h2, h2 = With(h, o, f)
    PROVE  Placed(ls2, h2) /\ Range(h2) = Range(h) \cup {f}
<1>0. ls2[k] = Append(ls[k], o) /\ \A l \in 1..6 : l # k => ls2[l] = ls[l]
  BY DEF Put
<1>1. /\ DOMAIN h2 = DOMAIN h \cup {o} /\ h2[o] = f
      /\ \A x \in DOMAIN h : h2[x] = h[x] /\ h[x] \in Files
  BY DEF Placed, With
<1>2. IsFiniteSet(DOMAIN h2)
  BY <1>1, FS_AddElement DEF Placed
<1>3. h2 \in [DOMAIN h2 -> Files]
  BY <1>1 DEF With
<1>4. Range(h2) = Range(h) \cup {f}
  <2>1. Range(h) = {h[x] : x \in DOMAIN h} /\ Range(h2) = {h2[x] : x \in DOMAIN h2}
    BY DEF Range
  <2>2. {h2[x] : x \in DOMAIN h2} = {h[x] : x \in DOMAIN h} \cup {f}
    <3>1. ASSUME NEW y \in {h2[x] : x \in DOMAIN h2} PROVE y \in {h[x] : x \in DOMAIN h} \cup {f}
      BY <1>1
    <3>2. ASSUME NEW y \in {h[x] : x \in DOMAIN h} PROVE y \in {h2[x] : x \in DOMAIN h2}
      BY <1>1
    <3>3. f \in {h2[x] : x \in DOMAIN h2}
      BY <1>1
    <3>4. QED BY <3>1, <3>2, <3>3
  <2>3. QED BY <2>1, <2>2
<1>5. IsInjective(h2)
  <2>1. \A x \in DOMAIN h : h[x] # f
    BY DEF Range
  <2>2. QED BY <1>1, <2>1 DEF IsInjective, Placed
<1>6. /\ ls2[k] \in Seq(DOMAIN h2) /\ IsInjective(ls2[k])
      /\ Range(ls2[k]) = Range(ls[k]) \cup {o}
  <2> DEFINE s == ls[k]
  <2>1. s \in Seq(DOMAIN h2) /\ IsInjective(s) /\ o \notin Range(s)
    BY <1>1, SeqElements, SeqMonotonic DEF Placed
  <2> HIDE DEF s
  <2>2. /\ Append(s, o) \in Seq(DOMAIN h2) /\ IsInjective(Append(s, o))
        /\ Range(Append(s, o)) = Range(s) \cup {o}
    BY <1>1, <2>1, AppendFacts
  <2>3. QED BY <1>0, <2>2 DEF s
<1>7. \A l \in 1..6 : ls2[l] \in Seq(DOMAIN h2) /\ IsInjective(ls2[l])
  BY <1>0, <1>1, <1>6, SeqMonotonic DEF Placed
<1>8. \A l \in 1..6 : \A x \in Range(ls[l]) : x \in DOMAIN h
  BY SeqElements DEF Placed
<1>9. \A l \in 1..6 : \A x \in Range(ls2[l]) : TypeOf[h2[x]] = ListType[l]
  <2>1. \A l \in 1..6 : \A x \in Range(ls[l]) : TypeOf[h2[x]] = ListType[l]
    BY <1>1, <1>8 DEF Placed
  <2> SUFFICES ASSUME NEW l \in 1..6, NEW x \in Range(ls2[l]) PROVE TypeOf[h2[x]] = ListType[l]
    OBVIOUS
  <2>2. CASE l # k
    BY <1>0, <2>1, <2>2
  <2>3. CASE l = k /\ x = o
    BY <1>1, <2>3
  <2>4. CASE l = k /\ x # o
    BY <1>6, <2>1, <2>4
  <2>5. QED BY <2>2, <2>3, <2>4
<1>10. \A x \in DOMAIN h2 : \E l \in 1..6 : x \in Range(ls2[l])
  <2>1. ASSUME NEW x \in DOMAIN h PROVE \E l \in 1..6 : x \in Range(ls2[l])
    <3>1. PICK l \in 1..6 : x \in Range(ls[l])
      BY DEF Placed
    <3>2. QED BY <1>0, <1>6, <3>1
  <2>2. QED BY <1>1, <1>6, <2>1
<1>11. QED BY <1>2, <1>3, <1>4, <1>5, <1>7, <1>9, <1>10 DEF Placed

\* Plugins are taken out of the lists and deleted: nothing else is, and what stays
\* stays where it was.
LEMMA DropKeeps ==
    ASSUME NEW ls, NEW h, Placed(ls, h), NEW ls2, Fewer(ls, ls2, h),
           NEW D, D = Gone(ls, ls2), NEW h2, h2 = Restrict(h, DOMAIN h \ D)
    PROVE  /\ Placed(ls2, h2) /\ D \subseteq DOMAIN h
           /\ \A f : f \in Range(h2) <=> f \in Range(h) /\ \A x \in D : h[x] # f
<1>f. \A k \in 1..6 : /\ ls2[k] \in Seq(DOMAIN h) /\ IsInjective(ls2[k])
                      /\ Range(ls2[k]) \subseteq Range(ls[k])
  BY DEF Fewer
<1>0. D = UNION {Range(ls[k]) \ Range(ls2[k]) : k \in 1..6} /\ h2 = [x \in DOMAIN h \ D |-> h[x]]
  BY DEF Gone, Restrict
<1>1. DOMAIN h2 = DOMAIN h \ D /\ \A x \in DOMAIN h2 : h2[x] = h[x] /\ h[x] \in Files
  BY <1>0 DEF Placed
<1>2. \A l \in 1..6 : \A x \in Range(ls[l]) : x \in DOMAIN h
  BY SeqElements DEF Placed
<1>3. D \subseteq DOMAIN h
  BY <1>0, <1>2
<1>4. \A k, l \in 1..6 : \A x : x \in Range(ls[k]) /\ x \in Range(ls[l]) => k = l
  BY TypeLists DEF Placed
<1>5. \A k \in 1..6 : Range(ls2[k]) \cap D = {}
  BY <1>f, <1>0, <1>4
<1>6. \A k \in 1..6 : ls2[k] \in Seq(DOMAIN h2)
  <2> SUFFICES ASSUME NEW k \in 1..6 PROVE ls2[k] \in Seq(DOMAIN h2)
    OBVIOUS
  <2> DEFINE s == ls2[k]
  <2>1. s \in Seq(DOMAIN h) /\ Range(s) \subseteq DOMAIN h2
    BY <1>f, <1>1, <1>2, <1>5
  <2> HIDE DEF s
  <2>2. s \in Seq(Range(s))
    BY <2>1, SeqElements
  <2>3. s \in Seq(DOMAIN h2)
    BY <2>1, <2>2, SeqMonotonic
  <2>4. QED BY <2>3 DEF s
<1>7. IsFiniteSet(DOMAIN h2)
  BY <1>1, FS_Subset DEF Placed
<1>8. h2 \in [DOMAIN h2 -> Files] /\ IsInjective(h2)
  <2>1. \A x \in DOMAIN h \ D : h[x] \in Files
    BY <1>1, <1>0
  <2>2. h2 \in [DOMAIN h2 -> Files]
    BY <1>0, <2>1
  <2>3. \A x, y \in DOMAIN h : h[x] = h[y] => x = y
    BY DEF IsInjective, Placed
  <2>4. QED BY <1>1, <2>2, <2>3 DEF IsInjective
<1>9. \A k \in 1..6 : \A x \in Range(ls2[k]) : TypeOf[h2[x]] = ListType[k]
  <2> SUFFICES ASSUME NEW k \in 1..6, NEW x \in Range(ls2[k]) PROVE TypeOf[h2[x]] = ListType[k]
    OBVIOUS
  <2>1. x \in Range(ls[k]) /\ x \in DOMAIN h2
    BY <1>0, <1>1, <1>2, <1>5, <1>f
  <2>2. TypeOf[h[x]] = ListType[k]
    BY <2>1 DEF Placed
  <2>3. QED BY <1>1, <2>1, <2>2
<1>10. \A x \in DOMAIN h2 : \E k \in 1..6 : x \in Range(ls2[k])
  <2> SUFFICES ASSUME NEW x \in DOMAIN h2 PROVE \E k \in 1..6 : x \in Range(ls2[k])
    OBVIOUS
  <2>1. PICK k \in 1..6 : x \in Range(ls[k])
    BY <1>1 DEF Placed
  <2>2. x \notin D
    BY <1>0, <1>1
  <2>3. QED BY <1>0, <2>1, <2>2
<1>11. \A f : f \in Range(h2) <=> f \in Range(h) /\ \A x \in D : h[x] # f
  <2>1. ASSUME NEW f \in Range(h2) PROVE f \in Range(h) /\ \A x \in D : h[x] # f
    <3>1. PICK y \in DOMAIN h2 : f = h[y]
      BY <1>1 DEF Range
    <3>2. \A x \in D : h[x] # h[y]
      BY <1>1, <1>3 DEF IsInjective, Placed
    <3>3. QED BY <1>1, <3>1, <3>2 DEF Range
  <2>2. ASSUME NEW f \in Range(h), \A x \in D : h[x] # f PROVE f \in Range(h2)
    <3>1. PICK y \in DOMAIN h : f = h[y]
      BY DEF Range
    <3>2. y \in DOMAIN h2
      BY <1>1, <2>2, <3>1
    <3>3. QED BY <1>1, <3>1, <3>2 DEF Range
  <2>3. QED BY <2>1, <2>2
<1>12. QED BY <1>3, <1>f, <1>6, <1>7, <1>8, <1>9, <1>10, <1>11 DEF Placed

-----------------------------------------------------------------------------
(* One list, when a plugin of a file is unloaded from it.                  *)

Found(list, h, f) == {i \in DOMAIN list : h[list[i]] = f}
Kept(list, h, f) ==
    IF Found(list, h, f) = {} THEN list ELSE RemoveAt(list, Min(Found(list, h, f)))
Doomed(list, h, f) ==
    IF Found(list, h, f) = {} THEN {} ELSE {list[Min(Found(list, h, f))]}

\* The plugin that is deleted was in the list and is of the file, and only it is gone.
LEMMA KeptFacts ==
    ASSUME NEW D, NEW list \in Seq(D), NEW h, NEW f, IsInjective(list)
    PROVE  /\ Kept(list, h, f) \in Seq(D) /\ IsInjective(Kept(list, h, f))
           /\ Range(Kept(list, h, f)) = Range(list) \ Doomed(list, h, f)
           /\ Doomed(list, h, f) \subseteq {o \in Range(list) : h[o] = f}
           /\ (\E o \in Range(list) : h[o] = f) => Doomed(list, h, f) # {}
<1> DEFINE F == Found(list, h, f)
           m == Min(F)
<1>1. DOMAIN list = 1..Len(list) /\ Len(list) \in Nat
  OBVIOUS
<1>2. CASE F = {}
  <2>1. ~ \E o \in Range(list) : h[o] = f
    BY <1>2 DEF Found, Range
  <2>2. QED BY <1>2, <2>1 DEF Kept, Doomed
<1>3. CASE F # {}
  <2>1. F \in SUBSET Nat
    BY <1>1 DEF Found
  <2>2. \E x \in F : \A y \in F : x <= y
    BY <1>3, <2>1, LeastNat
  <2>3. m \in F
    BY <2>2 DEF Min
  <2>4. m \in 1..Len(list) /\ h[list[m]] = f
    BY <1>1, <2>3 DEF Found
  <2>5. Kept(list, h, f) = RemoveAt(list, m) /\ Doomed(list, h, f) = {list[m]}
    BY <1>3 DEF Kept, Doomed
  <2> HIDE DEF m, F
  <2>6. /\ RemoveAt(list, m) \in Seq(D) /\ IsInjective(RemoveAt(list, m))
        /\ Range(RemoveAt(list, m)) = Range(list) \ {list[m]}
    BY <2>4, RemoveAtFacts
  <2>7. list[m] \in Range(list)
    BY <1>1, <2>4 DEF Range
  <2>8. QED BY <2>4, <2>5, <2>6, <2>7
<1>4. QED BY <1>2, <1>3

\* A name that is taken off the list of names.
LEMMA RemoveFirstFacts ==
    ASSUME NEW D, NEW s \in Seq(D), IsInjective(s), NEW e
    PROVE  /\ RemoveFirst(s, e) \in Seq(D) /\ IsInjective(RemoveFirst(s, e))
           /\ Range(RemoveFirst(s, e)) = Range(s) \ {e}
<1> DEFINE F == {i \in 1..Len(s) : s[i] = e}
           m == Min(F)
<1>1. DOMAIN s = 1..Len(s) /\ Len(s) \in Nat
  OBVIOUS
<1>2. RemoveFirst(s, e) = IF F # {} THEN RemoveAt(s, m) ELSE s
  <2>1. (\E i \in 1..Len(s) : s[i] = e) <=> F # {}
    OBVIOUS
  <2>2. QED BY <2>1 DEF RemoveFirst, SelectInSeq
<1>3. CASE F = {}
  <2>1. e \notin Range(s)
    BY <1>1, <1>3 DEF Range
  <2>2. QED BY <1>2, <1>3, <2>1
<1>4. CASE F # {}
  <2>1. F \in SUBSET Nat
    OBVIOUS
  <2>2. \E x \in F : \A y \in F : x <= y
    BY <1>4, <2>1, LeastNat
  <2>3. m \in F
    BY <2>2 DEF Min
  <2>4. m \in 1..Len(s) /\ s[m] = e
    BY <2>3
  <2>5. RemoveFirst(s, e) = RemoveAt(s, m)
    BY <1>2, <1>4
  <2> HIDE DEF m, F
  <2>6. /\ RemoveAt(s, m) \in Seq(D) /\ IsInjective(RemoveAt(s, m))
        /\ Range(RemoveAt(s, m)) = Range(s) \ {s[m]}
    BY <2>4, RemoveAtFacts
  <2>7. QED BY <2>4, <2>5, <2>6
<1>5. QED BY <1>3, <1>4

\* What the six instances of PluginList do, said of the list and the heap: a new
\* plugin goes to the end.
LEMMA SixAdds ==
    \A o : /\ VirtualDict!add(o) = Append(VirtualDictPlugins, o)
           /\ NetDict!add(o) = Append(NetDictPlugins, o)
           /\ SpecialDict!add(o) = Append(SpecialDictPlugins, o)
           /\ Tts!add(o) = Append(TtsPlugins, o)
           /\ ParseData!add(o) = Append(ParseDataPlugins, o)
           /\ Misc!add(o) = Append(MiscPlugins, o)
BY DEF VirtualDict!add, NetDict!add, SpecialDict!add,
    Tts!add, ParseData!add, Misc!add

\* The list without the first plugin of a file, and that plugin.
LEMMA SixUnloads ==
    \A f : /\ VirtualDict!unload_plugin(f) = Kept(VirtualDictPlugins, heap, f)
           /\ VirtualDict!Unloaded(f) = Doomed(VirtualDictPlugins, heap, f)
           /\ NetDict!unload_plugin(f) = Kept(NetDictPlugins, heap, f)
           /\ NetDict!Unloaded(f) = Doomed(NetDictPlugins, heap, f)
           /\ SpecialDict!unload_plugin(f) = Kept(SpecialDictPlugins, heap, f)
           /\ SpecialDict!Unloaded(f) = Doomed(SpecialDictPlugins, heap, f)
           /\ Tts!unload_plugin(f) = Kept(TtsPlugins, heap, f)
           /\ Tts!Unloaded(f) = Doomed(TtsPlugins, heap, f)
           /\ ParseData!unload_plugin(f) = Kept(ParseDataPlugins, heap, f)
           /\ ParseData!Unloaded(f) = Doomed(ParseDataPlugins, heap, f)
           /\ Misc!unload_plugin(f) = Kept(MiscPlugins, heap, f)
           /\ Misc!Unloaded(f) = Doomed(MiscPlugins, heap, f)
<1>1. \A f : /\ VirtualDict!unload_plugin(f) = Kept(VirtualDictPlugins, heap, f)
             /\ VirtualDict!Unloaded(f) = Doomed(VirtualDictPlugins, heap, f)
  BY DEF Kept, Doomed, Found, Min, RemoveAt, VirtualDict!unload_plugin, VirtualDict!Unloaded,
      VirtualDict!find_dict_by_id, VirtualDict!Min, VirtualDict!RemoveAt
<1>2. \A f : /\ NetDict!unload_plugin(f) = Kept(NetDictPlugins, heap, f)
             /\ NetDict!Unloaded(f) = Doomed(NetDictPlugins, heap, f)
  BY DEF Kept, Doomed, Found, Min, RemoveAt, NetDict!unload_plugin, NetDict!Unloaded,
      NetDict!find_dict_by_id, NetDict!Min, NetDict!RemoveAt
<1>3. \A f : /\ SpecialDict!unload_plugin(f) = Kept(SpecialDictPlugins, heap, f)
             /\ SpecialDict!Unloaded(f) = Doomed(SpecialDictPlugins, heap, f)
  BY DEF Kept, Doomed, Found, Min, RemoveAt, SpecialDict!unload_plugin, SpecialDict!Unloaded,
      SpecialDict!find_dict_by_id, SpecialDict!Min, SpecialDict!RemoveAt
<1>4. \A f : /\ Tts!unload_plugin(f) = Kept(TtsPlugins, heap, f)
             /\ Tts!Unloaded(f) = Doomed(TtsPlugins, heap, f)
  BY DEF Kept, Doomed, Found, Min, RemoveAt, Tts!unload_plugin, Tts!Unloaded,
      Tts!find_dict_by_id, Tts!Min, Tts!RemoveAt
<1>5. \A f : /\ ParseData!unload_plugin(f) = Kept(ParseDataPlugins, heap, f)
             /\ ParseData!Unloaded(f) = Doomed(ParseDataPlugins, heap, f)
  BY DEF Kept, Doomed, Found, Min, RemoveAt, ParseData!unload_plugin, ParseData!Unloaded,
      ParseData!find_dict_by_id, ParseData!Min, ParseData!RemoveAt
<1>6. \A f : /\ Misc!unload_plugin(f) = Kept(MiscPlugins, heap, f)
             /\ Misc!Unloaded(f) = Doomed(MiscPlugins, heap, f)
  BY DEF Kept, Doomed, Found, Min, RemoveAt, Misc!unload_plugin, Misc!Unloaded,
      Misc!find_dict_by_id, Misc!Min, Misc!RemoveAt
<1>7. QED BY <1>1, <1>2, <1>3, <1>4, <1>5, <1>6

\* The plugins an order names, and the others.
LEMMA SixReorders ==
    \A order : /\ VirtualDict!reorder(order) = InOrder(VirtualDictPlugins, heap, order)
               /\ VirtualDict!Dropped(order) = Range(VirtualDictPlugins) \ Range(VirtualDict!reorder(order))
               /\ NetDict!reorder(order) = InOrder(NetDictPlugins, heap, order)
               /\ NetDict!Dropped(order) = Range(NetDictPlugins) \ Range(NetDict!reorder(order))
               /\ SpecialDict!reorder(order) = InOrder(SpecialDictPlugins, heap, order)
               /\ SpecialDict!Dropped(order) = Range(SpecialDictPlugins) \ Range(SpecialDict!reorder(order))
               /\ Tts!reorder(order) = InOrder(TtsPlugins, heap, order)
               /\ Tts!Dropped(order) = Range(TtsPlugins) \ Range(Tts!reorder(order))
               /\ ParseData!reorder(order) = InOrder(ParseDataPlugins, heap, order)
               /\ ParseData!Dropped(order) = Range(ParseDataPlugins) \ Range(ParseData!reorder(order))
               /\ Misc!reorder(order) = InOrder(MiscPlugins, heap, order)
               /\ Misc!Dropped(order) = Range(MiscPlugins) \ Range(Misc!reorder(order))
<1>1. \A order : /\ VirtualDict!reorder(order) = InOrder(VirtualDictPlugins, heap, order)
                 /\ VirtualDict!Dropped(order) = Range(VirtualDictPlugins) \ Range(VirtualDict!reorder(order))
  <2>1. \A ss : VirtualDict!FlattenSeq(ss) = FlattenSeq(ss)
    BY DEF FlattenSeq, VirtualDict!FlattenSeq
  <2>2. \A order : VirtualDict!reorder(order) = InOrder(VirtualDictPlugins, heap, order)
    BY <2>1 DEF InOrder, OfFile, VirtualDict!reorder, VirtualDict!Named
  <2>3. \A order : VirtualDict!Dropped(order) = Range(VirtualDictPlugins) \ Range(VirtualDict!reorder(order))
    BY DEF Range, VirtualDict!Dropped, VirtualDict!Range
  <2>4. QED BY <2>2, <2>3
<1>2. \A order : /\ NetDict!reorder(order) = InOrder(NetDictPlugins, heap, order)
                 /\ NetDict!Dropped(order) = Range(NetDictPlugins) \ Range(NetDict!reorder(order))
  <2>1. \A ss : NetDict!FlattenSeq(ss) = FlattenSeq(ss)
    BY DEF FlattenSeq, NetDict!FlattenSeq
  <2>2. \A order : NetDict!reorder(order) = InOrder(NetDictPlugins, heap, order)
    BY <2>1 DEF InOrder, OfFile, NetDict!reorder, NetDict!Named
  <2>3. \A order : NetDict!Dropped(order) = Range(NetDictPlugins) \ Range(NetDict!reorder(order))
    BY DEF Range, NetDict!Dropped, NetDict!Range
  <2>4. QED BY <2>2, <2>3
<1>3. \A order : /\ SpecialDict!reorder(order) = InOrder(SpecialDictPlugins, heap, order)
                 /\ SpecialDict!Dropped(order) = Range(SpecialDictPlugins) \ Range(SpecialDict!reorder(order))
  <2>1. \A ss : SpecialDict!FlattenSeq(ss) = FlattenSeq(ss)
    BY DEF FlattenSeq, SpecialDict!FlattenSeq
  <2>2. \A order : SpecialDict!reorder(order) = InOrder(SpecialDictPlugins, heap, order)
    BY <2>1 DEF InOrder, OfFile, SpecialDict!reorder, SpecialDict!Named
  <2>3. \A order : SpecialDict!Dropped(order) = Range(SpecialDictPlugins) \ Range(SpecialDict!reorder(order))
    BY DEF Range, SpecialDict!Dropped, SpecialDict!Range
  <2>4. QED BY <2>2, <2>3
<1>4. \A order : /\ Tts!reorder(order) = InOrder(TtsPlugins, heap, order)
                 /\ Tts!Dropped(order) = Range(TtsPlugins) \ Range(Tts!reorder(order))
  <2>1. \A ss : Tts!FlattenSeq(ss) = FlattenSeq(ss)
    BY DEF FlattenSeq, Tts!FlattenSeq
  <2>2. \A order : Tts!reorder(order) = InOrder(TtsPlugins, heap, order)
    BY <2>1 DEF InOrder, OfFile, Tts!reorder, Tts!Named
  <2>3. \A order : Tts!Dropped(order) = Range(TtsPlugins) \ Range(Tts!reorder(order))
    BY DEF Range, Tts!Dropped, Tts!Range
  <2>4. QED BY <2>2, <2>3
<1>5. \A order : /\ ParseData!reorder(order) = InOrder(ParseDataPlugins, heap, order)
                 /\ ParseData!Dropped(order) = Range(ParseDataPlugins) \ Range(ParseData!reorder(order))
  <2>1. \A ss : ParseData!FlattenSeq(ss) = FlattenSeq(ss)
    BY DEF FlattenSeq, ParseData!FlattenSeq
  <2>2. \A order : ParseData!reorder(order) = InOrder(ParseDataPlugins, heap, order)
    BY <2>1 DEF InOrder, OfFile, ParseData!reorder, ParseData!Named
  <2>3. \A order : ParseData!Dropped(order) = Range(ParseDataPlugins) \ Range(ParseData!reorder(order))
    BY DEF Range, ParseData!Dropped, ParseData!Range
  <2>4. QED BY <2>2, <2>3
<1>6. \A order : /\ Misc!reorder(order) = InOrder(MiscPlugins, heap, order)
                 /\ Misc!Dropped(order) = Range(MiscPlugins) \ Range(Misc!reorder(order))
  <2>1. \A ss : Misc!FlattenSeq(ss) = FlattenSeq(ss)
    BY DEF FlattenSeq, Misc!FlattenSeq
  <2>2. \A order : Misc!reorder(order) = InOrder(MiscPlugins, heap, order)
    BY <2>1 DEF InOrder, OfFile, Misc!reorder, Misc!Named
  <2>3. \A order : Misc!Dropped(order) = Range(MiscPlugins) \ Range(Misc!reorder(order))
    BY DEF Range, Misc!Dropped, Misc!Range
  <2>4. QED BY <2>2, <2>3
<1>7. QED BY <1>1, <1>2, <1>3, <1>4, <1>5, <1>6

-----------------------------------------------------------------------------
(* PluginManager: the steps.                                               *)

\* A number up to the count of the objects, and one more, is always free.
LEMMA NewObjectIsNew ==
    ASSUME IsFiniteSet(DOMAIN heap)
    PROVE  NewObject \notin DOMAIN heap
<1> DEFINE n == Cardinality(DOMAIN heap)
<1>1. n \in Nat
  BY FS_CardinalityType
<1>2. ~(1..n + 1 \subseteq DOMAIN heap)
  <2> SUFFICES ASSUME 1..n + 1 \subseteq DOMAIN heap PROVE FALSE
    OBVIOUS
  <2>1. Cardinality(1..n + 1) <= n
    BY FS_Subset
  <2>2. Cardinality(1..n + 1) = n + 1
    <3> HIDE DEF n
    <3>1. 1 \in Int /\ n + 1 \in Int /\ ~(1 > n + 1) /\ n + 1 - 1 + 1 = n + 1
      BY <1>1
    <3> DEFINE m == n + 1
    <3> HIDE DEF m
    <3>2. Cardinality(1..m) = m - 1 + 1
      BY <3>1, FS_Interval DEF m
    <3>3. QED BY <3>1, <3>2 DEF m
  <2>3. QED BY <1>1, <2>1, <2>2
<1>3. QED BY <1>2 DEF NewObject

\* What for_each_file visits are files.
LEMMA VisitedFiles ==
    ASSUME NEW order \in Seq(Files), NEW disabled, Dir \in Seq(Files)
    PROVE  Visited(order, disabled) \in Seq(Files)
<1>1. ASSUME NEW files \in Seq(Files), NEW skipped PROVE Without(files, skipped) \in Seq(Files)
  <2> DEFINE n == Len(files)
             ss == [k \in 1..n |-> IF files[k] \in skipped THEN <<>> ELSE <<files[k]>>]
  <2>1. n \in Nat /\ DOMAIN files = 1..n /\ \A k \in 1..n : files[k] \in Files
    OBVIOUS
  <2>2. ss \in Seq(Seq(Files)) /\ n = Len(ss)
    <3>1. \A k \in 1..n : ss[k] \in Seq(Files)
      BY <2>1
    <3>2. QED BY <2>1, <3>1
  <2>3. Without(files, skipped) = FlattenSeq(ss)
    BY <2>1 DEF Without
  <2> HIDE DEF ss, n
  <2>4. FlattenSeq(ss) \in Seq(Files)
    BY <2>1, <2>2, FlattenFacts
  <2>5. QED BY <2>3, <2>4
<1>2. /\ Without(order, disabled) \in Seq(Files)
      /\ Without(Dir, disabled \cup Range(order)) \in Seq(Files)
  BY <1>1
<1> DEFINE s == Without(order, disabled)
           t == Without(Dir, disabled \cup Range(order))
<1> HIDE DEF s, t
<1>3. s \in Seq(Files) /\ t \in Seq(Files)
  BY <1>2 DEF s, t
<1>4. s \o t \in Seq(Files)
  BY <1>3
<1>5. QED BY <1>4 DEF Visited, s, t

\* A module that is not kept is closed as often as it is opened.
LEMMA RefsAfterFacts ==
    ASSUME refs = [g \in Files |-> IF g \in Range(heap) THEN 1 ELSE 0],
           NEW f \in Files, f \notin Range(heap), NEW stage \in Stages
    PROVE  RefsAfter(f, stage) =
             IF stage = "loaded"
             THEN [g \in Files |-> IF g \in Range(heap) \cup {f} THEN 1 ELSE 0]
             ELSE refs
<1>1. refs[f] = 0
  OBVIOUS
<1>2. CASE stage = "loaded"
  <2>1. RefsAfter(f, stage) = [refs EXCEPT ![f] = 1]
    BY <1>1, <1>2 DEF RefsAfter
  <2>2. QED BY <1>2, <2>1
<1>3. CASE stage # "loaded"
  <2>1. stage = "absent" \/ stage = "no init" \/ stage = "no typed init"
    BY <1>3 DEF Stages
  <2>2. RefsAfter(f, stage) = [refs EXCEPT ![f] = 0]
    <3>1. CASE stage = "absent"
      <4>1. RefsAfter(f, stage) = [refs EXCEPT ![f] = refs[f] + 0 - 0]
        BY <3>1 DEF RefsAfter
      <4>2. refs[f] + 0 - 0 = 0
        BY <1>1
      <4>3. QED BY <4>1, <4>2
    <3>2. CASE stage = "no init" \/ stage = "no typed init"
      <4>1. RefsAfter(f, stage) = [refs EXCEPT ![f] = refs[f] + 1 - 1]
        BY <3>2 DEF RefsAfter
      <4>2. refs[f] + 1 - 1 = 0
        BY <1>1
      <4>3. QED BY <4>1, <4>2
    <3>3. QED BY <2>1, <3>1, <3>2
  <2>3. QED BY <1>1, <1>3, <2>2
<1>4. QED BY <1>2, <1>3

\* The list that add() of a type puts the object in, and no other.
LEMMA IntoFacts ==
    ASSUME NEW k \in 1..6, NEW o, Into(ListType[k], o)
    PROVE  Put(lists, lists', k, o)
<1>1. /\ lists'[1] = VirtualDictPlugins' /\ lists'[2] = NetDictPlugins'
      /\ lists'[3] = SpecialDictPlugins' /\ lists'[4] = TtsPlugins'
      /\ lists'[5] = ParseDataPlugins' /\ lists'[6] = MiscPlugins'
  BY DEF lists
<1> DEFINE t == ListType[k]
<1>2. /\ VirtualDictPlugins' = IF t = ListType[1] THEN Append(VirtualDictPlugins, o) ELSE VirtualDictPlugins
      /\ NetDictPlugins' = IF t = ListType[2] THEN Append(NetDictPlugins, o) ELSE NetDictPlugins
      /\ SpecialDictPlugins' = IF t = ListType[3] THEN Append(SpecialDictPlugins, o) ELSE SpecialDictPlugins
      /\ TtsPlugins' = IF t = ListType[4] THEN Append(TtsPlugins, o) ELSE TtsPlugins
      /\ ParseDataPlugins' = IF t = ListType[5] THEN Append(ParseDataPlugins, o) ELSE ParseDataPlugins
      /\ MiscPlugins' = IF t = ListType[6] THEN Append(MiscPlugins, o) ELSE MiscPlugins
  BY SixAdds, TypeLists DEF Into
<1>3. \A l \in 1..6 : t = ListType[l] <=> l = k
  BY TypeLists
<1> HIDE DEF t
<1>4. \A l \in 1..6 : lists'[l] = IF l = k THEN Append(lists[l], o) ELSE lists[l]
  <2> SUFFICES ASSUME NEW l \in 1..6
               PROVE  lists'[l] = IF l = k THEN Append(lists[l], o) ELSE lists[l]
    OBVIOUS
  <2>1. l \in {1, 2, 3, 4, 5, 6}
    BY SixLists
  <2>2. t = ListType[l] <=> l = k
    BY <1>3
  <2>3. CASE l = 1
    BY <1>1, <1>2, <2>2, <2>3, SixLists
  <2>4. CASE l = 2
    BY <1>1, <1>2, <2>2, <2>4, SixLists
  <2>5. CASE l = 3
    BY <1>1, <1>2, <2>2, <2>5, SixLists
  <2>6. CASE l = 4
    BY <1>1, <1>2, <2>2, <2>6, SixLists
  <2>7. CASE l = 5
    BY <1>1, <1>2, <2>2, <2>7, SixLists
  <2>8. CASE l = 6
    BY <1>1, <1>2, <2>2, <2>8, SixLists
  <2>9. QED BY <2>1, <2>3, <2>4, <2>5, <2>6, <2>7, <2>8
<1>5. QED BY <1>4 DEF Put

\* load_plugin of a file.
LEMMA LoadKeeps ==
    ASSUME PluginInv, TypeOf \in [Files -> Types \cup {"UNKNOWN"}],
           NEW f \in Files, LoadFile(f)
    PROVE  Placed(lists', heap') /\ Named(loaded_plugin_list', heap', refs')
<1>1. Placed(lists, heap) /\ Named(loaded_plugin_list, heap, refs)
  BY DEF PluginInv
<1>2. CASE get_loaded(f)
  <2>1. lists' = lists /\ heap' = heap /\ loaded_plugin_list' = loaded_plugin_list /\ refs' = refs
    BY <1>2 DEF LoadFile
  <2>2. QED BY <1>1, <2>1
<1>3. CASE ~get_loaded(f)
  <2>1. PICK stage \in Stages :
          /\ loaded_plugin_list' = Append(loaded_plugin_list, f)
          /\ TypeOf[f] = "UNKNOWN" => stage # "loaded"
          /\ refs' = RefsAfter(f, stage)
          /\ IF stage = "loaded"
             THEN /\ heap' = [o \in DOMAIN heap \cup {NewObject} |->
                                IF o \in DOMAIN heap THEN heap[o] ELSE f]
                  /\ Into(TypeOf[f], NewObject)
             ELSE UNCHANGED <<heap, lists>>
    BY <1>3 DEF LoadFile
  <2>2. f \notin Range(loaded_plugin_list)
    BY <1>3 DEF get_loaded
  <2>3. f \notin Range(heap)
    BY <1>1, <2>2 DEF Named, Range
  <2>4. /\ loaded_plugin_list' \in Seq(Files) /\ IsInjective(loaded_plugin_list')
        /\ Range(loaded_plugin_list') = Range(loaded_plugin_list) \cup {f}
    BY <1>1, <2>1, <2>2, AppendFacts DEF Named
  <2>5. refs' = IF stage = "loaded"
               THEN [g \in Files |-> IF g \in Range(heap) \cup {f} THEN 1 ELSE 0]
               ELSE refs
    BY <1>1, <2>1, <2>3, RefsAfterFacts DEF Named
  <2>6. CASE stage # "loaded"
    <3>1. lists' = lists /\ heap' = heap /\ refs' = refs
      BY <2>1, <2>5, <2>6
    <3>2. QED BY <1>1, <2>4, <3>1 DEF Named
  <2>7. CASE stage = "loaded"
    <3> DEFINE o == NewObject
    <3>1. o \notin DOMAIN heap
      BY <1>1, NewObjectIsNew DEF Placed
    <3>2. TypeOf[f] \in Types
      BY <2>1, <2>7
    <3>3. PICK k \in 1..6 : ListType[k] = TypeOf[f]
      BY <3>2, TypeLists
    <3>4. Put(lists, lists', k, o)
      BY <2>1, <2>7, <3>3, IntoFacts
    <3>5. heap' = [x \in DOMAIN heap \cup {o} |-> IF x \in DOMAIN heap THEN heap[x] ELSE f]
      BY <2>1, <2>7
    <3> HIDE DEF o
    <3>6. Placed(lists', heap') /\ Range(heap') = Range(heap) \cup {f}
      <4> DEFINE ls == lists
                 ls2 == lists'
                 h2 == heap'
      <4>1. /\ Put(ls, ls2, k, o)
            /\ h2 = With(heap, o, f)
            /\ Placed(ls, heap)
        BY <1>1, <3>4, <3>5 DEF With
      <4> HIDE DEF ls, ls2, h2
      <4>2. Placed(ls2, h2) /\ Range(h2) = Range(heap) \cup {f}
        BY <2>3, <3>1, <3>3, <4>1, AddKeeps
      <4>3. QED BY <4>2 DEF ls2, h2
    <3>7. \A x \in DOMAIN heap' : heap'[x] \in Range(loaded_plugin_list')
      BY <1>1, <2>4, <3>5 DEF Named
    <3>8. QED BY <2>4, <2>5, <2>7, <3>6, <3>7 DEF Named
  <2>8. QED BY <2>6, <2>7
<1>4. QED BY <1>2, <1>3

\* Plugins are deleted that have been taken off the lists, and of the names at most
\* theirs: the modules of the others stay open.
LEMMA DeleteKeeps ==
    ASSUME PluginInv, NEW D, Delete(D),
           Fewer(lists, lists', heap), D = Gone(lists, lists'),
           loaded_plugin_list' \in Seq(Files), IsInjective(loaded_plugin_list'),
           \A o \in DOMAIN heap \ D : heap[o] \in Range(loaded_plugin_list')
    PROVE  Placed(lists', heap') /\ Named(loaded_plugin_list', heap', refs')
<1>1. Placed(lists, heap) /\ Named(loaded_plugin_list, heap, refs)
  BY DEF PluginInv
<1>0. heap' = Restrict(heap, DOMAIN heap \ D)
  BY DEF Delete
<1>2. heap' = [x \in DOMAIN heap \ D |-> heap[x]] /\ refs' = [f \in Files |-> refs[f] - Of(D, f)]
  BY DEF Delete, Restrict, Closed
<1>3. /\ Placed(lists', heap') /\ D \subseteq DOMAIN heap
      /\ \A f : f \in Range(heap') <=> f \in Range(heap) /\ \A x \in D : heap[x] # f
  <2> DEFINE ls == lists
             ls2 == lists'
             h2 == heap'
  <2>1. /\ Fewer(ls, ls2, heap)
        /\ D = Gone(ls, ls2) /\ h2 = Restrict(heap, DOMAIN heap \ D)
        /\ Placed(ls, heap)
    BY <1>0, <1>1
  <2> HIDE DEF ls, ls2, h2
  <2>2. /\ Placed(ls2, h2) /\ D \subseteq DOMAIN heap
        /\ \A f : f \in Range(h2) <=> f \in Range(heap) /\ \A x \in D : heap[x] # f
    BY <2>1, DropKeeps
  <2>3. QED BY <2>2 DEF ls2, h2
<1>4. ASSUME NEW f \in Files PROVE refs[f] - Of(D, f) = IF f \in Range(heap') THEN 1 ELSE 0
  <2>1. refs[f] = IF f \in Range(heap) THEN 1 ELSE 0
    BY <1>1 DEF Named
  <2>2. Of(D, f) = IF \E o \in D : heap[o] = f THEN 1 ELSE 0
    <3>1. IsInjective(heap) /\ D \in SUBSET DOMAIN heap
      BY <1>1, <1>3 DEF Placed
    <3>2. CountOf(heap, D, f) = IF \E o \in D : heap[o] = f THEN 1 ELSE 0
      BY <3>1, OneOfFile
    <3>3. QED BY <3>2 DEF CountOf, Of
  <2>3. (\E o \in D : heap[o] = f) => f \in Range(heap)
    BY <1>3 DEF Range
  <2>4. QED BY <1>3, <2>1, <2>2, <2>3
<1>5. refs' = [f \in Files |-> IF f \in Range(heap') THEN 1 ELSE 0]
  BY <1>2, <1>4
<1>6. \A x \in DOMAIN heap' : heap'[x] \in Range(loaded_plugin_list')
  BY <1>2
<1>7. QED BY <1>3, <1>5, <1>6 DEF Named

-----------------------------------------------------------------------------
(* The inductive invariant is kept.                                        *)

\* What an action makes of each of the six lists, from what it makes of the variables.
LEMMA SixPrimed ==
    /\ lists'[1] = VirtualDictPlugins' /\ lists'[2] = NetDictPlugins'
    /\ lists'[3] = SpecialDictPlugins' /\ lists'[4] = TtsPlugins'
    /\ lists'[5] = ParseDataPlugins' /\ lists'[6] = MiscPlugins'
BY DEF lists

\* There is no plugin at first.
LEMMA InitInv ==
    ASSUME FilesAssumption, OrdersAssumption, PluginsInit
    PROVE  PluginInv
<1>1. /\ VirtualDictPlugins = <<>> /\ NetDictPlugins = <<>> /\ SpecialDictPlugins = <<>>
      /\ TtsPlugins = <<>> /\ ParseDataPlugins = <<>> /\ MiscPlugins = <<>>
      /\ loaded_plugin_list = <<>> /\ heap = <<>> /\ refs = [f \in Files |-> 0]
      /\ plugin_list = {}
  BY DEF PluginsInit
<1>2. \A k \in 1..6 : lists[k] = <<>>
  <2> SUFFICES ASSUME NEW k \in 1..6 PROVE lists[k] = <<>>
    OBVIOUS
  <2>1. k \in {1, 2, 3, 4, 5, 6}
    BY SixLists
  <2>2. QED BY <1>1, <2>1, SixLists
<1>3. DOMAIN heap = {} /\ Range(<<>>) = {} /\ IsInjective(<<>>)
  BY <1>1 DEF Range, IsInjective
<1>4. Placed(lists, heap)
  <2>1. heap \in [DOMAIN heap -> Files] /\ IsInjective(heap)
    BY <1>1, <1>3
  <2>2. IsFiniteSet(DOMAIN heap)
    BY <1>3, FS_EmptySet
  <2>3. \A k \in 1..6 : lists[k] \in Seq(DOMAIN heap) /\ IsInjective(lists[k])
    <3>1. <<>> \in Seq(DOMAIN heap)
      OBVIOUS
    <3>2. QED BY <1>2, <1>3, <3>1
  <2>4. \A k \in 1..6 : Range(lists[k]) = {}
    BY <1>2, <1>3
  <2>5. QED BY <1>3, <2>1, <2>2, <2>3, <2>4 DEF Placed
<1>5. Named(loaded_plugin_list, heap, refs)
  <2>1. Range(heap) = {}
    BY <1>1, <1>3
  <2>2. QED BY <1>1, <1>3, <2>1 DEF Named
<1>6. toload \in Seq(Files)
  <2>1. PICK order \in Orders, disabled \in Disables : toload = Visited(order, disabled)
    BY DEF PluginsInit
  <2>2. order \in Seq(Files) /\ Dir \in Seq(Files)
    BY DEF FilesAssumption, OrdersAssumption
  <2>3. QED BY <2>1, <2>2, VisitedFiles
<1>7. QED BY <1>1, <1>4, <1>5, <1>6 DEF PluginInv

\* unload_plugin: the plugin of the file, if it runs, is the one that is deleted.
LEMMA UnloadKeeps ==
    ASSUME PluginInv, unload_plugin
    PROVE  Placed(lists', heap') /\ Named(loaded_plugin_list', heap', refs')
<1>1. Placed(lists, heap) /\ Named(loaded_plugin_list, heap, refs) /\ plugin_list \subseteq Info
  BY DEF PluginInv
<1> DEFINE Of1(t, f) == CASE t = "VIRTUALDICT" -> VirtualDict!Unloaded(f)
                          [] t = "NETDICT" -> NetDict!Unloaded(f)
                          [] t = "SPECIALDICT" -> SpecialDict!Unloaded(f)
                          [] t = "TTS" -> Tts!Unloaded(f)
                          [] t = "PARSEDATA" -> ParseData!Unloaded(f)
                          [] t = "MISC" -> Misc!Unloaded(f)
<1>2. PICK info \in plugin_list :
        /\ loaded_plugin_list' = RemoveFirst(loaded_plugin_list, info.filename)
        /\ Delete(Of1(info.plugin_type, info.filename))
        /\ VirtualDictPlugins' = IF info.plugin_type = "VIRTUALDICT"
             THEN VirtualDict!unload_plugin(info.filename) ELSE VirtualDictPlugins
        /\ NetDictPlugins' = IF info.plugin_type = "NETDICT"
             THEN NetDict!unload_plugin(info.filename) ELSE NetDictPlugins
        /\ SpecialDictPlugins' = IF info.plugin_type = "SPECIALDICT"
             THEN SpecialDict!unload_plugin(info.filename) ELSE SpecialDictPlugins
        /\ TtsPlugins' = IF info.plugin_type = "TTS"
             THEN Tts!unload_plugin(info.filename) ELSE TtsPlugins
        /\ ParseDataPlugins' = IF info.plugin_type = "PARSEDATA"
             THEN ParseData!unload_plugin(info.filename) ELSE ParseDataPlugins
        /\ MiscPlugins' = IF info.plugin_type = "MISC"
             THEN Misc!unload_plugin(info.filename) ELSE MiscPlugins
  BY DEF unload_plugin
<1> DEFINE f == info.filename
           t == info.plugin_type
           D == Of1(t, f)
<1>3. f \in Files /\ t \in Types /\ t = TypeOf[f]
  BY <1>1 DEF Info
<1>4. PICK k \in 1..6 : ListType[k] = t
  BY <1>3, TypeLists
<1>5. \A l \in 1..6 : t = ListType[l] <=> l = k
  BY <1>4, TypeLists
<1>6. D = Doomed(lists[k], heap, f)
  <2>1. k \in {1, 2, 3, 4, 5, 6}
    BY SixLists
  <2>2. CASE k = 1
    <3>1. t = "VIRTUALDICT" /\ lists[k] = VirtualDictPlugins
      BY <1>4, <2>2, TypeLists, SixLists
    <3>2. D = VirtualDict!Unloaded(f)
      BY <3>1
    <3>3. QED BY <3>1, <3>2, SixUnloads
  <2>3. CASE k = 2
    <3>1. t = "NETDICT" /\ lists[k] = NetDictPlugins
      BY <1>4, <2>3, TypeLists, SixLists
    <3>2. D = NetDict!Unloaded(f)
      BY <3>1
    <3>3. QED BY <3>1, <3>2, SixUnloads
  <2>4. CASE k = 3
    <3>1. t = "SPECIALDICT" /\ lists[k] = SpecialDictPlugins
      BY <1>4, <2>4, TypeLists, SixLists
    <3>2. D = SpecialDict!Unloaded(f)
      BY <3>1
    <3>3. QED BY <3>1, <3>2, SixUnloads
  <2>5. CASE k = 4
    <3>1. t = "TTS" /\ lists[k] = TtsPlugins
      BY <1>4, <2>5, TypeLists, SixLists
    <3>2. D = Tts!Unloaded(f)
      BY <3>1
    <3>3. QED BY <3>1, <3>2, SixUnloads
  <2>6. CASE k = 5
    <3>1. t = "PARSEDATA" /\ lists[k] = ParseDataPlugins
      BY <1>4, <2>6, TypeLists, SixLists
    <3>2. D = ParseData!Unloaded(f)
      BY <3>1
    <3>3. QED BY <3>1, <3>2, SixUnloads
  <2>7. CASE k = 6
    <3>1. t = "MISC" /\ lists[k] = MiscPlugins
      BY <1>4, <2>7, TypeLists, SixLists
    <3>2. D = Misc!Unloaded(f)
      BY <3>1
    <3>3. QED BY <3>1, <3>2, SixUnloads
  <2>8. QED BY <2>1, <2>2, <2>3, <2>4, <2>5, <2>6, <2>7
<1>7. /\ VirtualDictPlugins' = IF t = ListType[1] THEN Kept(VirtualDictPlugins, heap, f) ELSE VirtualDictPlugins
      /\ NetDictPlugins' = IF t = ListType[2] THEN Kept(NetDictPlugins, heap, f) ELSE NetDictPlugins
      /\ SpecialDictPlugins' = IF t = ListType[3] THEN Kept(SpecialDictPlugins, heap, f) ELSE SpecialDictPlugins
      /\ TtsPlugins' = IF t = ListType[4] THEN Kept(TtsPlugins, heap, f) ELSE TtsPlugins
      /\ ParseDataPlugins' = IF t = ListType[5] THEN Kept(ParseDataPlugins, heap, f) ELSE ParseDataPlugins
      /\ MiscPlugins' = IF t = ListType[6] THEN Kept(MiscPlugins, heap, f) ELSE MiscPlugins
  BY <1>2, SixUnloads, TypeLists
<1>8. Delete(D) /\ loaded_plugin_list' = RemoveFirst(loaded_plugin_list, f)
  BY <1>2
<1> HIDE DEF f, t, D, Of1
<1>9. \A l \in 1..6 : lists'[l] = IF l = k THEN Kept(lists[l], heap, f) ELSE lists[l]
  <2> SUFFICES ASSUME NEW l \in 1..6
               PROVE  lists'[l] = IF l = k THEN Kept(lists[l], heap, f) ELSE lists[l]
    OBVIOUS
  <2>1. l \in {1, 2, 3, 4, 5, 6}
    BY SixLists
  <2>2. t = ListType[l] <=> l = k
    BY <1>5
  <2>3. CASE l = 1
    BY <1>7, <2>2, <2>3, SixLists, SixPrimed
  <2>4. CASE l = 2
    BY <1>7, <2>2, <2>4, SixLists, SixPrimed
  <2>5. CASE l = 3
    BY <1>7, <2>2, <2>5, SixLists, SixPrimed
  <2>6. CASE l = 4
    BY <1>7, <2>2, <2>6, SixLists, SixPrimed
  <2>7. CASE l = 5
    BY <1>7, <2>2, <2>7, SixLists, SixPrimed
  <2>8. CASE l = 6
    BY <1>7, <2>2, <2>8, SixLists, SixPrimed
  <2>9. QED BY <2>1, <2>3, <2>4, <2>5, <2>6, <2>7, <2>8
<1>10. \A l \in 1..6 : lists[l] \in Seq(DOMAIN heap) /\ IsInjective(lists[l])
  BY <1>1 DEF Placed
<1>11. /\ Kept(lists[k], heap, f) \in Seq(DOMAIN heap) /\ IsInjective(Kept(lists[k], heap, f))
       /\ Range(Kept(lists[k], heap, f)) = Range(lists[k]) \ D
       /\ D \subseteq {o \in Range(lists[k]) : heap[o] = f}
       /\ (\E o \in Range(lists[k]) : heap[o] = f) => D # {}
  <2> DEFINE list == lists[k]
  <2>1. list \in Seq(DOMAIN heap) /\ IsInjective(list) /\ D = Doomed(list, heap, f)
    BY <1>6, <1>10
  <2> HIDE DEF list
  <2>2. /\ Kept(list, heap, f) \in Seq(DOMAIN heap) /\ IsInjective(Kept(list, heap, f))
        /\ Range(Kept(list, heap, f)) = Range(list) \ Doomed(list, heap, f)
        /\ Doomed(list, heap, f) \subseteq {o \in Range(list) : heap[o] = f}
        /\ (\E o \in Range(list) : heap[o] = f) => Doomed(list, heap, f) # {}
    BY <2>1, KeptFacts
  <2>3. QED BY <2>1, <2>2 DEF list
<1>12. Fewer(lists, lists', heap)
  BY <1>9, <1>10, <1>11 DEF Fewer
<1>13. D = Gone(lists, lists')
  <2>1. \A l \in 1..6 : Range(lists[l]) \ Range(lists'[l]) = IF l = k THEN D ELSE {}
    BY <1>9, <1>11
  <2>2. UNION {Range(lists[l]) \ Range(lists'[l]) : l \in 1..6} = D
    BY <2>1
  <2>3. QED BY <2>2 DEF Gone
<1>14. /\ loaded_plugin_list' \in Seq(Files) /\ IsInjective(loaded_plugin_list')
       /\ Range(loaded_plugin_list') = Range(loaded_plugin_list) \ {f}
  BY <1>1, <1>8, RemoveFirstFacts DEF Named
<1>15. ASSUME NEW o \in DOMAIN heap \ D PROVE heap[o] \in Range(loaded_plugin_list')
  <2>1. SUFFICES heap[o] # f
    BY <1>1, <1>14, <2>1 DEF Named
  <2>2. SUFFICES ASSUME heap[o] = f PROVE FALSE
    OBVIOUS
  <2>3. PICK l \in 1..6 : o \in Range(lists[l])
    BY <1>1 DEF Placed
  <2>4. TypeOf[f] = ListType[l]
    BY <1>1, <2>2, <2>3 DEF Placed
  <2>5. l = k
    BY <1>3, <1>5, <2>4
  <2>6. PICK d \in D : heap[d] = f /\ d \in Range(lists[k])
    BY <1>11, <2>2, <2>3, <2>5
  <2>7. d \in DOMAIN heap
    BY <1>10, <2>6, SeqElements
  <2>8. d = o
    BY <1>1, <2>2, <2>6, <2>7 DEF Placed, IsInjective
  <2>9. QED BY <2>6, <2>8
<1>16. QED BY <1>8, <1>12, <1>13, <1>14, <1>15, DeleteKeeps

\* reorder: the plugins that an order does not name are deleted, all of them.
LEMMA ReorderKeeps ==
    ASSUME OrdersAssumption, PluginInv, reorder
    PROVE  Placed(lists', heap') /\ Named(loaded_plugin_list', heap', refs')
<1>1. Placed(lists, heap) /\ Named(loaded_plugin_list, heap, refs)
  BY DEF PluginInv
<1>2. PICK order \in Orders :
        /\ VirtualDictPlugins' = VirtualDict!reorder(order)
        /\ NetDictPlugins' = NetDict!reorder(order)
        /\ SpecialDictPlugins' = SpecialDict!reorder(order)
        /\ TtsPlugins' = Tts!reorder(order)
        /\ ParseDataPlugins' = ParseData!reorder(order)
        /\ MiscPlugins' = Misc!reorder(order)
        /\ Delete(UNION {VirtualDict!Dropped(order), NetDict!Dropped(order),
                         SpecialDict!Dropped(order), Tts!Dropped(order),
                         ParseData!Dropped(order), Misc!Dropped(order)})
        /\ loaded_plugin_list' = loaded_plugin_list
  BY DEF reorder
<1> DEFINE D == UNION {VirtualDict!Dropped(order), NetDict!Dropped(order),
                       SpecialDict!Dropped(order), Tts!Dropped(order),
                       ParseData!Dropped(order), Misc!Dropped(order)}
<1>3. order \in Seq(Files) /\ IsInjective(order)
  BY DEF OrdersAssumption
<1>4. \A l \in 1..6 : lists'[l] = InOrder(lists[l], heap, order)
  <2> SUFFICES ASSUME NEW l \in 1..6 PROVE lists'[l] = InOrder(lists[l], heap, order)
    OBVIOUS
  <2>1. l \in {1, 2, 3, 4, 5, 6}
    BY SixLists
  <2>2. CASE l = 1
    <3>1. lists'[l] = VirtualDictPlugins' /\ lists[l] = VirtualDictPlugins
      BY <2>2, SixLists, SixPrimed
    <3>2. VirtualDictPlugins' = InOrder(VirtualDictPlugins, heap, order)
      BY <1>2, SixReorders
    <3>3. QED BY <3>1, <3>2
  <2>3. CASE l = 2
    <3>1. lists'[l] = NetDictPlugins' /\ lists[l] = NetDictPlugins
      BY <2>3, SixLists, SixPrimed
    <3>2. NetDictPlugins' = InOrder(NetDictPlugins, heap, order)
      BY <1>2, SixReorders
    <3>3. QED BY <3>1, <3>2
  <2>4. CASE l = 3
    <3>1. lists'[l] = SpecialDictPlugins' /\ lists[l] = SpecialDictPlugins
      BY <2>4, SixLists, SixPrimed
    <3>2. SpecialDictPlugins' = InOrder(SpecialDictPlugins, heap, order)
      BY <1>2, SixReorders
    <3>3. QED BY <3>1, <3>2
  <2>5. CASE l = 4
    <3>1. lists'[l] = TtsPlugins' /\ lists[l] = TtsPlugins
      BY <2>5, SixLists, SixPrimed
    <3>2. TtsPlugins' = InOrder(TtsPlugins, heap, order)
      BY <1>2, SixReorders
    <3>3. QED BY <3>1, <3>2
  <2>6. CASE l = 5
    <3>1. lists'[l] = ParseDataPlugins' /\ lists[l] = ParseDataPlugins
      BY <2>6, SixLists, SixPrimed
    <3>2. ParseDataPlugins' = InOrder(ParseDataPlugins, heap, order)
      BY <1>2, SixReorders
    <3>3. QED BY <3>1, <3>2
  <2>7. CASE l = 6
    <3>1. lists'[l] = MiscPlugins' /\ lists[l] = MiscPlugins
      BY <2>7, SixLists, SixPrimed
    <3>2. MiscPlugins' = InOrder(MiscPlugins, heap, order)
      BY <1>2, SixReorders
    <3>3. QED BY <3>1, <3>2
  <2>8. QED BY <2>1, <2>2, <2>3, <2>4, <2>5, <2>6, <2>7
<1>5. \A l \in 1..6 : lists[l] \in Seq(DOMAIN heap) /\ IsInjective(lists[l])
  BY <1>1 DEF Placed
<1>6. Fewer(lists, lists', heap)
  <2> SUFFICES ASSUME NEW l \in 1..6
               PROVE  /\ lists'[l] \in Seq(DOMAIN heap) /\ IsInjective(lists'[l])
                      /\ Range(lists'[l]) \subseteq Range(lists[l])
    BY DEF Fewer
  <2> DEFINE list == lists[l]
  <2>1. list \in Seq(DOMAIN heap) /\ IsInjective(list)
    BY <1>5
  <2>2. lists'[l] = InOrder(list, heap, order)
    BY <1>4
  <2> HIDE DEF list
  <2>3. /\ InOrder(list, heap, order) \in Seq(DOMAIN heap) /\ IsInjective(InOrder(list, heap, order))
        /\ Range(InOrder(list, heap, order)) \subseteq Range(list)
    BY <1>3, <2>1, InOrderFacts
  <2>4. QED BY <2>2, <2>3 DEF list
<1>7. D = Gone(lists, lists')
  <2>1. /\ VirtualDict!Dropped(order) = Range(lists[1]) \ Range(lists'[1])
        /\ NetDict!Dropped(order) = Range(lists[2]) \ Range(lists'[2])
        /\ SpecialDict!Dropped(order) = Range(lists[3]) \ Range(lists'[3])
        /\ Tts!Dropped(order) = Range(lists[4]) \ Range(lists'[4])
        /\ ParseData!Dropped(order) = Range(lists[5]) \ Range(lists'[5])
        /\ Misc!Dropped(order) = Range(lists[6]) \ Range(lists'[6])
    <3>1. VirtualDict!Dropped(order) = Range(lists[1]) \ Range(lists'[1])
      BY <1>2, SixReorders, SixLists, SixPrimed
    <3>2. NetDict!Dropped(order) = Range(lists[2]) \ Range(lists'[2])
      BY <1>2, SixReorders, SixLists, SixPrimed
    <3>3. SpecialDict!Dropped(order) = Range(lists[3]) \ Range(lists'[3])
      BY <1>2, SixReorders, SixLists, SixPrimed
    <3>4. Tts!Dropped(order) = Range(lists[4]) \ Range(lists'[4])
      BY <1>2, SixReorders, SixLists, SixPrimed
    <3>5. ParseData!Dropped(order) = Range(lists[5]) \ Range(lists'[5])
      BY <1>2, SixReorders, SixLists, SixPrimed
    <3>6. Misc!Dropped(order) = Range(lists[6]) \ Range(lists'[6])
      BY <1>2, SixReorders, SixLists, SixPrimed
    <3>7. QED BY <3>1, <3>2, <3>3, <3>4, <3>5, <3>6
  <2> DEFINE g(l) == Range(lists[l]) \ Range(lists'[l])
  <2> HIDE DEF g
  <2>2. UNION {g(1), g(2), g(3), g(4), g(5), g(6)} = UNION {g(l) : l \in 1..6}
    <3>1. 1..6 = {1, 2, 3, 4, 5, 6}
      OBVIOUS
    <3>2. QED BY <3>1
  <2>3. QED BY <2>1, <2>2 DEF Gone, g
<1>8. Delete(D)
  BY <1>2
<1> HIDE DEF D
<1>9. QED BY <1>1, <1>2, <1>6, <1>7, <1>8, DeleteKeeps DEF Named

\* The destructor: all are deleted.
LEMMA DestroyKeeps ==
    ASSUME PluginInv, destroy
    PROVE  Placed(lists', heap') /\ Named(loaded_plugin_list', heap', refs')
<1>1. Placed(lists, heap) /\ Named(loaded_plugin_list, heap, refs)
  BY DEF PluginInv
<1>2. Range(<<>>) = {} /\ IsInjective(<<>>)
  BY DEF Range, IsInjective
<1>3. \A l \in 1..6 : lists'[l] = <<>>
  <2> SUFFICES ASSUME NEW l \in 1..6 PROVE lists'[l] = <<>>
    OBVIOUS
  <2>1. l \in {1, 2, 3, 4, 5, 6}
    BY SixLists
  <2>2. QED BY <2>1, SixPrimed DEF destroy
<1>4. Fewer(lists, lists', heap)
  <2>1. <<>> \in Seq(DOMAIN heap)
    OBVIOUS
  <2>2. QED BY <1>2, <1>3, <2>1 DEF Fewer
<1>5. Held = Gone(lists, lists')
  <2>1. \A l \in 1..6 : Range(lists[l]) \ Range(lists'[l]) = Range(lists[l])
    BY <1>2, <1>3
  <2>2. QED BY <2>1, SixLists DEF Gone, Held
<1>6. Delete(Held) /\ loaded_plugin_list' = loaded_plugin_list
  BY DEF destroy
<1>7. QED BY <1>1, <1>4, <1>5, <1>6, DeleteKeeps DEF Named

\* Every step keeps the invariant.
LEMMA StepInv ==
    ASSUME FilesAssumption, OrdersAssumption, PluginInv, [PluginsNext]_plugin_vars
    PROVE  PluginInv'
<1>1. /\ Placed(lists, heap) /\ Named(loaded_plugin_list, heap, refs)
      /\ toload \in Seq(Files) /\ plugin_list \subseteq Info
  BY DEF PluginInv
<1>t. TypeOf \in [Files -> Types \cup {"UNKNOWN"}] /\ Dir \in Seq(Files)
  BY DEF FilesAssumption
<1>2. SUFFICES /\ Placed(lists', heap') /\ Named(loaded_plugin_list', heap', refs')
               /\ toload' \in Seq(Files) /\ plugin_list' \subseteq Info
  BY <1>2 DEF PluginInv, Info
<1>3. CASE load
  <2>1. Head(toload) \in Files /\ Tail(toload) \in Seq(Files)
    BY <1>1, <1>3 DEF load
  <2>2. LoadFile(Head(toload)) /\ toload' = Tail(toload) /\ plugin_list' = plugin_list
    BY <1>3 DEF load
  <2>3. QED BY <1>1, <1>t, <2>1, <2>2, LoadKeeps
<1>4. CASE load_plugin
  <2>1. PICK info \in plugin_list : LoadFile(info.filename)
    BY <1>4 DEF load_plugin
  <2>2. info.filename \in Files
    BY <1>1, <2>1 DEF Info
  <2>3. toload' = toload /\ plugin_list' = plugin_list
    BY <1>4 DEF load_plugin
  <2>4. QED BY <1>1, <1>t, <2>1, <2>2, <2>3, LoadKeeps
<1>5. CASE get_plugin_list
  <2>1. PICK answering \in SUBSET {f \in Files : TypeOf[f] # "UNKNOWN"}, order \in Orders :
          plugin_list' = {[filename |-> f, plugin_type |-> TypeOf[f]] :
                            f \in answering \cap Range(Visited(order, {}))}
    BY <1>5 DEF get_plugin_list
  <2>2. \A f \in answering : f \in Files /\ TypeOf[f] \in Types
    BY <1>t
  <2>3. plugin_list' \subseteq Info
    BY <2>1, <2>2 DEF Info
  <2>4. lists' = lists /\ heap' = heap /\ loaded_plugin_list' = loaded_plugin_list
        /\ refs' = refs /\ toload' = toload
    BY <1>5 DEF get_plugin_list
  <2>5. QED BY <1>1, <2>3, <2>4
<1>6. CASE unload_plugin
  <2>1. toload' = toload /\ plugin_list' = plugin_list
    BY <1>6 DEF unload_plugin
  <2>2. QED BY <1>1, <1>6, <2>1, UnloadKeeps
<1>7. CASE reorder
  <2>1. toload' = toload /\ plugin_list' = plugin_list
    BY <1>7 DEF reorder
  <2>2. QED BY <1>1, <1>7, <2>1, ReorderKeeps
<1>8. CASE destroy
  <2>1. toload' = toload /\ plugin_list' = plugin_list
    BY <1>8 DEF destroy
  <2>2. QED BY <1>1, <1>8, <2>1, DestroyKeeps
<1>9. CASE UNCHANGED plugin_vars
  <2>1. lists' = lists /\ heap' = heap /\ loaded_plugin_list' = loaded_plugin_list
        /\ refs' = refs /\ toload' = toload /\ plugin_list' = plugin_list
    BY <1>9 DEF plugin_vars
  <2>2. QED BY <1>1, <2>1
<1>10. QED BY <1>3, <1>4, <1>5, <1>6, <1>7, <1>8, <1>9 DEF PluginsNext

\* The invariant of the plugin manager: each object in its one place, each name and
\* each open module in step with the objects.
THEOREM PluginsInvariant == PluginsSpec => []PluginInv
<1>1. PluginsInit => PluginInv
  BY InitInv, FilesAssumption, OrdersAssumption
<1>2. PluginInv /\ [PluginsNext]_plugin_vars => PluginInv'
  BY StepInv, FilesAssumption, OrdersAssumption
<1>3. QED BY <1>1, <1>2, PTL DEF PluginsSpec

\* No plugin object is used after it was deleted, deleted twice or leaked, and each
\* module is open as often as there are plugins of it (plugins_reorder, unload_plugin,
\* load_plugin and the destructors of pluginmanager.cpp).
THEOREM PluginsAreHeld == PluginsSpec => []PluginsHeld
<1>1. ASSUME PluginInv PROVE OwnedOnce
  <2>1. Placed(lists, heap)
    BY <1>1 DEF PluginInv
  <2>2. \A k \in 1..6 : Range(lists[k]) \subseteq DOMAIN heap
    BY <2>1, SeqElements DEF Placed
  <2>3. Held \subseteq DOMAIN heap
    BY <2>2, SixLists DEF Held
  <2>4. ASSUME NEW o \in DOMAIN heap PROVE Cardinality(Places(o)) = 1
    <3>1. PICK k \in 1..6 : o \in Range(lists[k])
      BY <2>1 DEF Placed
    <3>2. PICK j \in DOMAIN lists[k] : lists[k][j] = o
      BY <3>1 DEF Range
    <3>3. ASSUME NEW i \in 1..6, NEW m \in DOMAIN lists[i], lists[i][m] = o
          PROVE  i = k /\ m = j
      <4>1. o \in Range(lists[i])
        BY <3>3 DEF Range
      <4>2. ListType[i] = ListType[k]
        BY <2>1, <3>1, <4>1 DEF Placed
      <4>3. i = k
        BY <4>2, TypeLists
      <4>4. IsInjective(lists[k])
        BY <2>1 DEF Placed
      <4>5. QED BY <3>2, <3>3, <4>3, <4>4 DEF IsInjective
    <3>4. Places(o) = {<<k, j>>}
      <4>1. ASSUME NEW p \in Places(o) PROVE p = <<k, j>>
        <5>1. PICK i \in 1..6 : p \in {i} \X {m \in DOMAIN lists[i] : lists[i][m] = o}
          BY <4>1, SixLists DEF Places
        <5>2. PICK m \in DOMAIN lists[i] : lists[i][m] = o /\ p = <<i, m>>
          BY <5>1
        <5>3. QED BY <3>3, <5>2
      <4>2. <<k, j>> \in Places(o)
        BY <3>2, SixLists DEF Places
      <4>3. QED BY <4>1, <4>2
    <3>5. QED BY <3>4, FS_Singleton
  <2>5. QED BY <2>3, <2>4 DEF OwnedOnce
<1>2. ASSUME PluginInv PROVE ModulesHeld
  <2>1. Placed(lists, heap) /\ Named(loaded_plugin_list, heap, refs)
    BY <1>2 DEF PluginInv
  <2>2. ASSUME NEW f \in Files PROVE refs[f] = Of(DOMAIN heap, f)
    <3>1. CountOf(heap, DOMAIN heap, f) = IF \E o \in DOMAIN heap : heap[o] = f THEN 1 ELSE 0
      BY <2>1, OneOfFile DEF Placed
    <3>2. f \in Range(heap) <=> \E o \in DOMAIN heap : heap[o] = f
      BY DEF Range
    <3>3. QED BY <2>1, <3>1, <3>2 DEF CountOf, Of, Named
  <2>3. QED BY <2>2 DEF ModulesHeld
<1>3. PluginInv => PluginsHeld
  BY <1>1, <1>2 DEF PluginsHeld
<1>4. QED BY <1>3, PluginsInvariant, PTL

\* No module runs as two plugins, each that runs is on the list of loaded names, and
\* stands where unload_plugin looks for it.
THEOREM PluginsRunOnce == PluginsSpec => []PluginsRun
<1>1. ASSUME PluginInv PROVE RunsOnce
  <2>1. Placed(lists, heap) /\ Named(loaded_plugin_list, heap, refs)
    BY <1>1 DEF PluginInv
  <2>2. ASSUME NEW f \in Files PROVE Of(DOMAIN heap, f) <= IF get_loaded(f) THEN 1 ELSE 0
    <3>1. CountOf(heap, DOMAIN heap, f) = IF \E o \in DOMAIN heap : heap[o] = f THEN 1 ELSE 0
      BY <2>1, OneOfFile DEF Placed
    <3>2. (\E o \in DOMAIN heap : heap[o] = f) => get_loaded(f)
      BY <2>1 DEF get_loaded, Named
    <3>3. QED BY <3>1, <3>2 DEF CountOf, Of
  <2>3. QED BY <2>2 DEF RunsOnce
<1>2. ASSUME PluginInv PROVE InItsList
  <2>1. Placed(lists, heap)
    BY <1>2 DEF PluginInv
  <2>2. \A k \in 1..6 : \A o \in Range(lists[k]) : TypeOf[heap[o]] = ListType[k]
    BY <2>1 DEF Placed
  <2>3. QED BY <2>2, SixLists DEF InItsList, ListType
<1>3. PluginInv => PluginsRun
  BY <1>1, <1>2 DEF PluginsRun
<1>4. QED BY <1>3, PluginsInvariant, PTL

-----------------------------------------------------------------------------
(* TtsPrefs: the inductive invariant.                                      *)

LoadPcs == {"load1", "load2", "load3", "load4"}
SavePcs == {"save1", "save2", "save3", "save4"}

TypeOK ==
    /\ DOMAIN conf = Keys
    /\ conf["enabled"] \in {Unset} \cup BOOLEAN
    /\ conf["engine"] \in Engines \cup {Unset}
    /\ conf["gender"] \in Genders \cup {Unset}
    /\ conf["language"] \in Languages \cup {Unset}
    /\ Enabled \in BOOLEAN
    /\ active \subseteq Buttons
    /\ picked \in Languages \cup {Unset}
    /\ pc \in {"off", "main", "dialog"} \cup LoadPcs \cup SavePcs

\* What is in gconf is what the program uses, or will be once it has been saved.
EffectInv ==
    /\ pc # "off" => Enabled = Setting("enabled")
    /\ pc \in {"main", "dialog", "save4"} \cup LoadPcs /\ "engine" \notin unsaved =>
          Engine = Setting("engine")
    /\ pc = "save3" /\ "engine" \notin unsaved => ShownEngine = Setting("engine")
    /\ pc = "save4" /\ "gender" \notin unsaved => ShownGender = Setting("gender")
    /\ pc \in {"main", "dialog"} \cup LoadPcs /\ conf["language"] # Unset /\ unsaved = {} =>
          voice = [language |-> conf["language"], gender |-> Setting("gender")]
    /\ pc \in {"dialog"} \cup SavePcs /\ picked = Unset => conf["language"] = Unset

Frame(b, at) == [button |-> b, at |-> at]

\* The handler of b runs alone, or on top of it the one of the other button of its
\* pair, which it has set.
Alone(B, n) == \E b \in B, at \in 1..n : stack = <<Frame(b, at)>>
Nested(B, n) == \E b \in B, at \in 1..n : stack = <<Frame(Other[b], at), Frame(b, 2)>>

\* One button of each pair is active.
EngineOne == "espeak" \in active <=> "realpeople" \notin active
GenderOne == "male" \in active <=> "female" \notin active

\* A pair is only off balance between a click and the first line of its handler.
Balanced(One, B) == One \/ \E b \in B : stack = <<Frame(b, 1)>>

ControlInv ==
    /\ pc \in {"off", "main", "load1"} \cup SavePcs => stack = <<>>
    /\ pc = "load1" => active = {}
    /\ pc \in {"load2", "load3", "load4"} => ("enable" \in active <=> Enabled)
    /\ pc = "load2" =>
          /\ active \cap (Engines \cup Genders) = {}
          /\ stack \in {<<>>, <<Frame("enable", 1)>>}
    /\ pc \in {"load3", "load4"} => EngineOne /\ ShownEngine = Setting("engine")
    /\ pc = "load3" =>
          /\ active \cap Genders = {}
          /\ stack = <<>> \/ Alone(Engines, 6)
    /\ pc = "load4" =>
          /\ GenderOne /\ ShownGender = Setting("gender")
          /\ stack = <<>> \/ Alone(Genders, 2)
    /\ pc = "dialog" =>
          /\ \/ stack \in {<<>>, <<Frame("enable", 1)>>}
             \/ Alone(Engines, 6) \/ Nested(Engines, 6)
             \/ Alone(Genders, 2) \/ Nested(Genders, 2)
          /\ Balanced(EngineOne, Engines)
          /\ Balanced(GenderOne, Genders)
    /\ pc \in SavePcs => EngineOne /\ GenderOne

-----------------------------------------------------------------------------
(* The stack of handlers.                                                  *)

LEMMA Pair == \A x, y : <<x>> \o <<y>> = <<x, y>>
<1>. SUFFICES ASSUME NEW x, NEW y  PROVE <<x>> \o <<y>> = <<x, y>>
  OBVIOUS
<1>. DEFINE S == {x, y}  s == <<x>>  t == <<y>>  u == <<x, y>>
<1>1. s \in Seq(S) /\ t \in Seq(S) /\ u \in Seq(S)
  OBVIOUS
<1>2. Len(s) = 1 /\ s[1] = x /\ Len(t) = 1 /\ t[1] = y /\ Len(u) = 2 /\ u[1] = x /\ u[2] = y
  OBVIOUS
<1>. HIDE DEF s, t, u
<1>3. s \o t \in Seq(S) /\ Len(s \o t) = 2 /\ (s \o t)[1] = x /\ (s \o t)[2] = y
  BY <1>1, <1>2, ConcatProperties
<1>4. \A k \in 1..2 : (s \o t)[k] = u[k]
  BY <1>2, <1>3
<1>5. s \o t = u
  BY <1>1, <1>2, <1>3, <1>4, SeqEqual
<1>. QED  BY <1>5 DEF s, t, u

LEMMA OneFrame ==
  ASSUME NEW b, NEW at, stack = <<Frame(b, at)>>
  PROVE  /\ stack # <<>> /\ Top.button = b /\ Top.at = at /\ Below = <<>>
         /\ \A n : GoOn(n) = <<Frame(b, n)>>
<1>1. Top = Frame(b, at) /\ Below = <<>>
  BY DEF Top, Below
<1>2. \A n : [Frame(b, at) EXCEPT !.at = n] = Frame(b, n)
  BY DEF Frame
<1>3. \A n : <<Frame(b, n)>> \o <<>> = <<Frame(b, n)>>
  OBVIOUS
<1>. QED  BY <1>1, <1>2, <1>3 DEF GoOn, Frame

LEMMA TwoFrames ==
  ASSUME NEW b, NEW at, NEW below, stack = <<Frame(b, at), below>>
  PROVE  /\ stack # <<>> /\ Top.button = b /\ Top.at = at /\ Below = <<below>>
         /\ \A n : GoOn(n) = <<Frame(b, n), below>>
<1>1. Top = Frame(b, at) /\ Below = <<below>>
  BY DEF Top, Below
<1>2. \A n : [Frame(b, at) EXCEPT !.at = n] = Frame(b, n)
  BY DEF Frame
<1>3. \A n : <<Frame(b, n)>> \o <<below>> = <<Frame(b, n), below>>
  BY Pair
<1>. QED  BY <1>1, <1>2, <1>3 DEF GoOn, Frame

\* A button that is clicked changes, alone, and its handler starts.
LEMMA ClickedStep ==
  ASSUME NEW b, NEW below, Clicked(b, below)
  PROVE  /\ b \in active' <=> b \notin active
         /\ \A c : c # b => (c \in active' <=> c \in active)
         /\ active' \subseteq active \cup {b}
         /\ stack' = <<Frame(b, 1)>> \o below
BY DEF Clicked, Frame

LEMMA OtherFacts ==
  /\ \A b \in Engines : Other[b] \in Engines /\ Other[b] # b /\ Other[Other[b]] = b
  /\ \A b \in Genders : Other[b] \in Genders /\ Other[b] # b /\ Other[Other[b]] = b
  /\ Engines \cap Genders = {} /\ "enable" \notin Engines \cup Genders
BY DEF Engines, Genders, Other

\* Which pair of a pair is active tells the balance, whichever button is asked.
LEMMA OneByOther ==
  /\ \A b \in Engines : EngineOne <=> (b \in active <=> Other[b] \notin active)
  /\ \A b \in Genders : GenderOne <=> (b \in active <=> Other[b] \notin active)
BY DEF Engines, Genders, Other, EngineOne, GenderOne

-----------------------------------------------------------------------------
(* The handlers.                                                           *)

\* A handler of a gender button that runs alone leaves the pair balanced; if it was
\* not, the other button is set and its handler starts on top.
LEMMA GenderAlone ==
  ASSUME GenderHandler, NEW b \in Genders, NEW at \in 1..2, stack = <<Frame(b, at)>>,
         GenderOne \/ at = 1
  PROVE  /\ GenderOne'
         /\ GenderOne => active' = active /\ (stack' = <<>> \/ Alone(Genders, 2)')
         /\ ~GenderOne => Nested(Genders, 2)'
         /\ \A c : c \notin Genders => (c \in active' <=> c \in active)
         /\ active' \subseteq active \cup Genders
<1>1. Top.button = b /\ Top.at = at /\ Below = <<>> /\ GoOn(2) = <<Frame(b, 2)>>
  BY OneFrame
<1>2. CASE at = 1
  <2>1. SetActive(Other[b], b \notin active, <<Frame(b, 2)>>)
    BY <1>1, <1>2 DEF GenderHandler
  <2>2. CASE GenderOne
    <3>1. stack' = <<Frame(b, 2)>> /\ active' = active
      BY <2>1, <2>2, OneByOther DEF SetActive
    <3>. QED  BY <2>2, <3>1 DEF GenderOne, Alone
  <2>3. CASE ~GenderOne
    <3>0. Clicked(Other[b], <<Frame(b, 2)>>)
      BY <2>1, <2>3, OneByOther DEF SetActive
    <3>1. /\ Other[b] \in active' <=> Other[b] \notin active
          /\ \A c : c # Other[b] => (c \in active' <=> c \in active)
          /\ active' \subseteq active \cup {Other[b]}
          /\ stack' = <<Frame(Other[b], 1)>> \o <<Frame(b, 2)>>
      BY <3>0, ClickedStep
    <3>2. stack' = <<Frame(Other[b], 1), Frame(b, 2)>>
      BY <3>1, Pair
    <3>3. Nested(Genders, 2)'
      BY <3>2 DEF Nested
    <3>4. GenderOne'
      BY <2>3, <3>1, OtherFacts DEF GenderOne, Genders, Other
    <3>. QED  BY <2>3, <3>1, <3>3, <3>4, OtherFacts
  <2>. QED  BY <2>2, <2>3
<1>3. CASE at = 2
  <2>1. stack' = <<>> /\ active' = active
    BY <1>1, <1>3 DEF GenderHandler
  <2>. QED  BY <1>3, <2>1 DEF GenderOne
<1>. QED  BY <1>2, <1>3

LEMMA GenderNested ==
  ASSUME GenderHandler, NEW b \in Genders, NEW at \in 1..2,
         stack = <<Frame(Other[b], at), Frame(b, 2)>>, GenderOne
  PROVE  active' = active /\ (Alone(Genders, 2)' \/ Nested(Genders, 2)')
<1>1. /\ Top.button = Other[b] /\ Top.at = at /\ Below = <<Frame(b, 2)>>
      /\ GoOn(2) = <<Frame(Other[b], 2), Frame(b, 2)>>
  BY TwoFrames
<1>2. CASE at = 1
  <2>1. SetActive(Other[Other[b]], Other[b] \notin active, <<Frame(Other[b], 2), Frame(b, 2)>>)
    BY <1>1, <1>2 DEF GenderHandler
  <2>2. stack' = <<Frame(Other[b], 2), Frame(b, 2)>> /\ active' = active
    BY <2>1, OneByOther, OtherFacts DEF SetActive
  <2>. QED  BY <2>2 DEF Nested
<1>3. CASE at = 2
  <2>1. stack' = <<Frame(b, 2)>> /\ active' = active
    BY <1>1, <1>3 DEF GenderHandler
  <2>. QED  BY <2>1 DEF Alone
<1>. QED  BY <1>2, <1>3

\* The handler of an engine button sets three buttons, the last two of which are
\* already as it wants them.
LEMMA EngineAlone ==
  ASSUME EngineHandler, NEW b \in Engines, NEW at \in 1..6, stack = <<Frame(b, at)>>,
         EngineOne \/ at = 1
  PROVE  /\ EngineOne'
         /\ EngineOne => active' = active /\ (stack' = <<>> \/ Alone(Engines, 6)')
         /\ ~EngineOne => Nested(Engines, 6)'
         /\ \A c : c \notin Engines => (c \in active' <=> c \in active)
         /\ active' \subseteq active \cup Engines
<1>1. Top.button = b /\ Top.at = at /\ Below = <<>> /\ \A n : GoOn(n) = <<Frame(b, n)>>
  BY OneFrame
<1>2. CASE at = 1
  <2>1. SetActive(Other[b], b \notin active, <<Frame(b, 2)>>)
    BY <1>1, <1>2 DEF EngineHandler
  <2>2. CASE EngineOne
    <3>1. stack' = <<Frame(b, 2)>> /\ active' = active
      BY <2>1, <2>2, OneByOther DEF SetActive
    <3>. QED  BY <2>2, <3>1 DEF EngineOne, Alone
  <2>3. CASE ~EngineOne
    <3>0. Clicked(Other[b], <<Frame(b, 2)>>)
      BY <2>1, <2>3, OneByOther DEF SetActive
    <3>1. /\ Other[b] \in active' <=> Other[b] \notin active
          /\ \A c : c # Other[b] => (c \in active' <=> c \in active)
          /\ active' \subseteq active \cup {Other[b]}
          /\ stack' = <<Frame(Other[b], 1)>> \o <<Frame(b, 2)>>
      BY <3>0, ClickedStep
    <3>2. stack' = <<Frame(Other[b], 1), Frame(b, 2)>>
      BY <3>1, Pair
    <3>3. Nested(Engines, 6)'
      BY <3>2 DEF Nested
    <3>4. EngineOne'
      BY <2>3, <3>1, OtherFacts DEF EngineOne, Engines, Other
    <3>. QED  BY <2>3, <3>1, <3>3, <3>4, OtherFacts
  <2>. QED  BY <2>2, <2>3
<1>3. CASE at \in 2..6
  <2>1. active' = active /\ (stack' = <<>> \/ \E n \in 1..6 : stack' = GoOn(n))
    <3>1. CASE at = 2
      BY <1>1, <1>3, <3>1, OneByOther DEF EngineHandler, EngineOne, SetActive
    <3>2. CASE at \in {3, 4, 6}
      BY <1>1, <3>2 DEF EngineHandler
    <3>3. CASE at = 5
      BY <1>1, <1>3, <3>3, OneByOther DEF EngineHandler, EngineOne, SetActive
    <3>. QED  BY <1>3, <3>1, <3>2, <3>3
  <2>. QED  BY <1>1, <1>3, <2>1 DEF EngineOne, Alone
<1>. QED  BY <1>2, <1>3

LEMMA EngineNested ==
  ASSUME EngineHandler, NEW b \in Engines, NEW at \in 1..6,
         stack = <<Frame(Other[b], at), Frame(b, 2)>>, EngineOne
  PROVE  active' = active /\ (Alone(Engines, 6)' \/ Nested(Engines, 6)')
<1>1. /\ Top.button = Other[b] /\ Top.at = at /\ Below = <<Frame(b, 2)>>
      /\ \A n : GoOn(n) = <<Frame(Other[b], n), Frame(b, 2)>>
  BY TwoFrames
<1>2. active' = active /\ (stack' = Below \/ \E n \in 1..6 : stack' = GoOn(n))
  <2>1. CASE at = 1
    <3>1. SetActive(Other[Other[b]], Other[b] \notin active, GoOn(2))
      BY <1>1, <2>1 DEF EngineHandler
    <3>. QED  BY <1>1, <3>1, OneByOther, OtherFacts DEF SetActive
  <2>2. CASE at = 2
    BY <1>1, <2>2, OneByOther DEF EngineHandler, EngineOne, SetActive
  <2>3. CASE at \in {3, 4, 6}
    BY <1>1, <2>3 DEF EngineHandler
  <2>4. CASE at = 5
    BY <1>1, <2>4, OneByOther DEF EngineHandler, EngineOne, SetActive
  <2>. QED  BY <2>1, <2>2, <2>3, <2>4
<1>. QED  BY <1>1, <1>2 DEF Alone, Nested

\* Whose handler is the innermost.
LEMMA WhoseHandler ==
  /\ \A b : stack = <<Frame(b, 1)>> => stack # <<>> /\ Top.button = b
  /\ Alone(Engines, 6) \/ Nested(Engines, 6) => stack # <<>> /\ Top.button \in Engines
  /\ Alone(Genders, 2) \/ Nested(Genders, 2) => stack # <<>> /\ Top.button \in Genders
<1>1. ASSUME NEW b, stack = <<Frame(b, 1)>>  PROVE stack # <<>> /\ Top.button = b
  BY <1>1, OneFrame
<1>2. ASSUME NEW b \in Engines, NEW at,
             stack = <<Frame(b, at)>> \/ stack = <<Frame(Other[b], at), Frame(b, 2)>>
      PROVE  stack # <<>> /\ Top.button \in Engines
  BY <1>2, OneFrame, TwoFrames, OtherFacts
<1>3. ASSUME NEW b \in Genders, NEW at,
             stack = <<Frame(b, at)>> \/ stack = <<Frame(Other[b], at), Frame(b, 2)>>
      PROVE  stack # <<>> /\ Top.button \in Genders
  BY <1>3, OneFrame, TwoFrames, OtherFacts
<1>. QED  BY <1>1, <1>2, <1>3 DEF Alone, Nested

\* Every handler keeps the buttons balanced, and shows what was shown unless it was
\* started by a click.
LEMMA HandlerStep == TypeOK /\ ControlInv /\ Handler => ControlInv' /\ active' \subseteq Buttons
<1>. SUFFICES ASSUME TypeOK, ControlInv, Handler  PROVE ControlInv' /\ active' \subseteq Buttons
  OBVIOUS
<1>0. /\ pc' = pc /\ UNCHANGED <<conf, Enabled>> /\ stack # <<>>
      /\ pc \in {"load2", "load3", "load4", "dialog"}
  BY DEF Handler, EnableHandler, GenderHandler, EngineHandler, ControlInv, mem, TypeOK,
         LoadPcs, SavePcs
<1>1. CASE EnableHandler
  <2>1. Top.button = "enable" /\ active' = active /\ stack' = Below
    BY <1>1 DEF EnableHandler
  <2>2. pc \in {"load2", "dialog"} /\ stack = <<Frame("enable", 1)>>
    BY <1>0, <2>1, WhoseHandler, OtherFacts DEF ControlInv
  <2>3. stack' = <<>>
    BY <2>1, <2>2, OneFrame
  <2>4. (EngineOne /\ GenderOne) \/ pc = "load2"
    BY <2>1, <2>2, WhoseHandler, OtherFacts DEF ControlInv, Balanced
  <2>. QED
    BY <1>0, <2>1, <2>2, <2>3, <2>4
       DEF ControlInv, Balanced, EngineOne, GenderOne, LoadPcs, SavePcs, TypeOK
<1>2. CASE GenderHandler
  <2>1. Top.button \in Genders
    BY <1>2 DEF GenderHandler
  <2>2. /\ \/ pc = "load4" /\ Alone(Genders, 2)
           \/ pc = "dialog" /\ (Alone(Genders, 2) \/ Nested(Genders, 2))
        /\ EngineOne
    BY <1>0, <2>1, WhoseHandler, OtherFacts DEF ControlInv, Balanced
  <2>3. CASE Alone(Genders, 2)
    <3>1. PICK b \in Genders, at \in 1..2 : stack = <<Frame(b, at)>>
      BY <2>3 DEF Alone
    <3>2. GenderOne \/ at = 1
      <4>1. CASE pc = "dialog" /\ ~GenderOne
        <5>1. PICK c \in Genders : stack = <<Frame(c, 1)>>
          BY <4>1 DEF ControlInv, Balanced
        <5>. QED  BY <3>1, <5>1, OneFrame
      <4>. QED  BY <2>2, <4>1 DEF ControlInv
    <3>3. /\ GenderOne'
          /\ GenderOne => active' = active /\ (stack' = <<>> \/ Alone(Genders, 2)')
          /\ ~GenderOne => Nested(Genders, 2)'
          /\ \A c : c \notin Genders => (c \in active' <=> c \in active)
          /\ active' \subseteq active \cup Genders
      BY <1>2, <3>1, <3>2, GenderAlone
    <3>4. EngineOne'
      BY <2>2, <3>3, OtherFacts DEF EngineOne, Engines
    <3>5. CASE pc = "load4"
      BY <1>0, <3>3, <3>4, <3>5 DEF ControlInv, SavePcs, Setting, ShownEngine, ShownGender, TypeOK
    <3>6. CASE pc = "dialog"
      BY <1>0, <3>3, <3>4, <3>6 DEF ControlInv, SavePcs, Balanced, TypeOK, Buttons
    <3>. QED  BY <2>2, <3>5, <3>6
  <2>4. CASE pc = "dialog" /\ Nested(Genders, 2)
    <3>1. PICK b \in Genders, at \in 1..2 : stack = <<Frame(Other[b], at), Frame(b, 2)>>
      BY <2>4 DEF Nested
    <3>2. GenderOne
      <4>1. \A c : stack # <<Frame(c, 1)>>
        BY <3>1, OneFrame, TwoFrames
      <4>. QED  BY <2>4, <4>1 DEF ControlInv, Balanced
    <3>3. active' = active /\ (Alone(Genders, 2)' \/ Nested(Genders, 2)')
      BY <1>2, <3>1, <3>2, GenderNested
    <3>. QED
      BY <1>0, <2>2, <2>4, <3>2, <3>3
         DEF ControlInv, SavePcs, Balanced, EngineOne, GenderOne, TypeOK
  <2>. QED  BY <2>2, <2>3, <2>4
<1>3. CASE EngineHandler
  <2>1. Top.button \in Engines
    BY <1>3 DEF EngineHandler
  <2>2. /\ \/ pc = "load3" /\ Alone(Engines, 6)
           \/ pc = "dialog" /\ (Alone(Engines, 6) \/ Nested(Engines, 6))
        /\ pc = "dialog" => GenderOne
    BY <1>0, <2>1, WhoseHandler, OtherFacts DEF ControlInv, Balanced
  <2>3. CASE Alone(Engines, 6)
    <3>1. PICK b \in Engines, at \in 1..6 : stack = <<Frame(b, at)>>
      BY <2>3 DEF Alone
    <3>2. EngineOne \/ at = 1
      <4>1. CASE pc = "dialog" /\ ~EngineOne
        <5>1. PICK c \in Engines : stack = <<Frame(c, 1)>>
          BY <4>1 DEF ControlInv, Balanced
        <5>. QED  BY <3>1, <5>1, OneFrame
      <4>. QED  BY <2>2, <4>1 DEF ControlInv
    <3>3. /\ EngineOne'
          /\ EngineOne => active' = active /\ (stack' = <<>> \/ Alone(Engines, 6)')
          /\ ~EngineOne => Nested(Engines, 6)'
          /\ \A c : c \notin Engines => (c \in active' <=> c \in active)
          /\ active' \subseteq active \cup Engines
      BY <1>3, <3>1, <3>2, EngineAlone
    <3>4. CASE pc = "load3"
      BY <1>0, <3>3, <3>4 DEF ControlInv, SavePcs, Setting, ShownEngine, TypeOK
    <3>5. CASE pc = "dialog"
      <4>1. GenderOne'
        BY <2>2, <3>3, <3>5, OtherFacts DEF GenderOne, Genders
      <4>. QED  BY <1>0, <3>3, <3>5, <4>1 DEF ControlInv, SavePcs, Balanced, TypeOK, Buttons
    <3>. QED  BY <2>2, <3>4, <3>5
  <2>4. CASE pc = "dialog" /\ Nested(Engines, 6)
    <3>1. PICK b \in Engines, at \in 1..6 : stack = <<Frame(Other[b], at), Frame(b, 2)>>
      BY <2>4 DEF Nested
    <3>2. EngineOne
      <4>1. \A c : stack # <<Frame(c, 1)>>
        BY <3>1, OneFrame, TwoFrames
      <4>. QED  BY <2>4, <4>1 DEF ControlInv, Balanced
    <3>3. active' = active /\ (Alone(Engines, 6)' \/ Nested(Engines, 6)')
      BY <1>3, <3>1, <3>2, EngineNested
    <3>. QED
      BY <1>0, <2>2, <2>4, <3>2, <3>3
         DEF ControlInv, SavePcs, Balanced, EngineOne, GenderOne, TypeOK
  <2>. QED  BY <2>2, <2>3, <2>4
<1>. QED  BY <1>1, <1>2, <1>3 DEF Handler

-----------------------------------------------------------------------------
(* The other steps.                                                        *)

LEMMA SettingType ==
  ASSUME TypeOK
  PROVE  /\ Setting("enabled") \in BOOLEAN
         /\ Setting("engine") \in Engines /\ Setting("gender") \in Genders
         /\ Setting("language") \in Languages
BY LanguagesAssumption DEF TypeOK, Setting, Default, Engines, Genders

LEMMA ShownType == ShownEngine \in Engines /\ ShownGender \in Genders
BY DEF ShownEngine, ShownGender, Engines, Genders

\* A click on a button, with no handler under way.
LEMMA FirstClick ==
  ASSUME NEW b, Clicked(b, <<>>)
  PROVE  /\ b \in active' <=> b \notin active
         /\ \A c : c # b => (c \in active' <=> c \in active)
         /\ active' \subseteq active \cup {b}
         /\ stack' = <<Frame(b, 1)>>
<1>1. <<Frame(b, 1)>> \o <<>> = <<Frame(b, 1)>>
  OBVIOUS
<1>. QED  BY <1>1, ClickedStep

LEMMA LoadStep == TypeOK /\ ControlInv /\ Load => ControlInv' /\ active' \subseteq Buttons
<1>. SUFFICES ASSUME TypeOK, ControlInv, Load  PROVE ControlInv' /\ active' \subseteq Buttons
  OBVIOUS
<1>. USE DEF LoadPcs, SavePcs
<1>1. CASE LoadEnabled
  <2>1. /\ pc = "load1" /\ pc' = "load2" /\ active = {} /\ UNCHANGED <<conf, Enabled>>
        /\ SetActive("enable", Enabled, <<>>)
    BY <1>1 DEF LoadEnabled, ControlInv, mem
  <2>2. CASE Enabled
    <3>1. Clicked("enable", <<>>)
      BY <2>1, <2>2 DEF SetActive
    <3>2. "enable" \in active' /\ active' \subseteq {"enable"} /\ stack' = <<Frame("enable", 1)>>
      BY <2>1, <3>1, FirstClick
    <3>. QED  BY <2>1, <2>2, <3>2, OtherFacts DEF ControlInv, Buttons
  <2>3. CASE ~Enabled
    <3>1. active' = {} /\ stack' = <<>>
      BY <2>1, <2>3 DEF SetActive, TypeOK
    <3>. QED  BY <2>1, <2>3, <3>1 DEF ControlInv
  <2>. QED  BY <2>2, <2>3
<1>2. CASE LoadEngine
  <2>. DEFINE e == Setting("engine")
  <2>1. /\ pc = "load2" /\ pc' = "load3" /\ stack = <<>> /\ UNCHANGED <<conf, Enabled>>
        /\ SetActive(e, TRUE, <<>>) /\ e \in Engines
    BY <1>2, SettingType DEF LoadEngine, mem
  <2>2. Clicked(e, <<>>)
    BY <2>1 DEF SetActive, ControlInv
  <2>3. /\ e \in active' /\ \A c : c # e => (c \in active' <=> c \in active)
        /\ active' \subseteq active \cup {e} /\ stack' = <<Frame(e, 1)>>
    BY <2>1, <2>2, FirstClick DEF ControlInv
  <2>4. EngineOne' /\ ShownEngine' = e
    BY <2>1, <2>3 DEF EngineOne, ShownEngine, ControlInv, Engines
  <2>5. ("enable" \in active' <=> Enabled) /\ active' \cap Genders = {}
    BY <2>1, <2>3, OtherFacts DEF ControlInv
  <2>6. Alone(Engines, 6)'
    BY <2>1, <2>3 DEF Alone
  <2>7. Setting("engine")' = e
    BY <2>1 DEF Setting
  <2>. QED  BY <2>1, <2>3, <2>4, <2>5, <2>6, <2>7 DEF ControlInv, Buttons, TypeOK
<1>3. CASE LoadGender
  <2>. DEFINE g == Setting("gender")
  <2>1. /\ pc = "load3" /\ pc' = "load4" /\ stack = <<>> /\ UNCHANGED <<conf, Enabled>>
        /\ SetActive(g, TRUE, <<>>) /\ g \in Genders
    BY <1>3, SettingType DEF LoadGender, mem
  <2>2. Clicked(g, <<>>)
    BY <2>1 DEF SetActive, ControlInv
  <2>3. /\ g \in active' /\ \A c : c # g => (c \in active' <=> c \in active)
        /\ active' \subseteq active \cup {g} /\ stack' = <<Frame(g, 1)>>
    BY <2>1, <2>2, FirstClick DEF ControlInv
  <2>4. GenderOne' /\ ShownGender' = g
    BY <2>1, <2>3 DEF GenderOne, ShownGender, ControlInv, Genders
  <2>5. ("enable" \in active' <=> Enabled) /\ \A c \in Engines : c \in active' <=> c \in active
    BY <2>1, <2>3, OtherFacts DEF ControlInv
  <2>6. EngineOne' /\ ShownEngine' = Setting("engine")
    BY <2>1, <2>5 DEF ControlInv, EngineOne, ShownEngine, Engines
  <2>7. Alone(Genders, 2)'
    BY <2>1, <2>3 DEF Alone
  <2>8. Setting("engine")' = Setting("engine") /\ Setting("gender")' = g
    BY <2>1 DEF Setting
  <2>. QED  BY <2>1, <2>3, <2>4, <2>5, <2>6, <2>7, <2>8 DEF ControlInv, Buttons, TypeOK
<1>4. CASE LoadLanguage
  <2>1. pc' = "dialog" /\ stack' = <<>> /\ UNCHANGED active /\ EngineOne /\ GenderOne
    BY <1>4 DEF LoadLanguage, ControlInv
  <2>. QED  BY <2>1 DEF ControlInv, Balanced, EngineOne, GenderOne, TypeOK
<1>. QED  BY <1>1, <1>2, <1>3, <1>4 DEF Load

LEMMA ClickStep == TypeOK /\ ControlInv /\ Click => ControlInv' /\ active' \subseteq Buttons
<1>. SUFFICES ASSUME TypeOK, ControlInv, Click  PROVE ControlInv' /\ active' \subseteq Buttons
  OBVIOUS
<1>1. PICK b \in Buttons : Clicked(b, <<>>)
  BY DEF Click, Buttons
<1>2. pc = "dialog" /\ pc' = "dialog" /\ stack = <<>> /\ EngineOne /\ GenderOne
  <2>1. \A c : stack # <<Frame(c, 1)>>
    BY WhoseHandler DEF Click
  <2>. QED  BY <2>1 DEF Click, ControlInv, Balanced
<1>3. /\ \A c : c # b => (c \in active' <=> c \in active)
      /\ active' \subseteq Buttons /\ stack' = <<Frame(b, 1)>>
  BY <1>1, FirstClick DEF TypeOK
<1>4. CASE b = "enable"
  <2>1. EngineOne' /\ GenderOne'
    BY <1>2, <1>3, <1>4 DEF EngineOne, GenderOne
  <2>. QED  BY <1>2, <1>3, <1>4, <2>1 DEF ControlInv, Balanced, SavePcs
<1>5. CASE b \in Engines
  <2>1. GenderOne' /\ Alone(Engines, 6)' /\ Balanced(EngineOne, Engines)'
    BY <1>2, <1>3, <1>5 DEF GenderOne, Engines, Alone, Balanced
  <2>. QED  BY <1>2, <1>3, <2>1 DEF ControlInv, Balanced, SavePcs
<1>6. CASE b \in Genders
  <2>1. EngineOne' /\ Alone(Genders, 2)' /\ Balanced(GenderOne, Genders)'
    BY <1>2, <1>3, <1>6 DEF EngineOne, Genders, Alone, Balanced
  <2>. QED  BY <1>2, <1>3, <2>1 DEF ControlInv, Balanced, SavePcs
<1>. QED  BY <1>4, <1>5, <1>6 DEF Buttons

LEMMA ControlStep == TypeOK /\ ControlInv /\ [Next]_vars => ControlInv' /\ active' \subseteq Buttons
<1>. SUFFICES ASSUME TypeOK, ControlInv, [Next]_vars  PROVE ControlInv' /\ active' \subseteq Buttons
  OBVIOUS
<1>1. CASE Save
  <2>1. /\ pc \in SavePcs /\ pc' \in SavePcs \cup {"main"} /\ stack' = stack
        /\ pc' \in SavePcs => active' = active
        /\ active' \subseteq active
    BY <1>1 DEF Save, SaveEnabled, SaveEngine, SaveGender, SaveLanguage, SavePcs, dialog
  <2>. QED  BY <2>1 DEF ControlInv, SavePcs, EngineOne, GenderOne, TypeOK
<1>2. CASE Start \/ Kill \/ OpenDialog \/ Close
  <2>1. /\ pc' \in {"off", "main", "load1"} /\ stack' = <<>>
        /\ pc' = "load1" => active' = {}
        /\ active' \subseteq active
    BY <1>2 DEF Start, Kill, OpenDialog, Close, ControlInv, dialog
  <2>. QED  BY <2>1 DEF ControlInv, SavePcs, TypeOK
<1>3. CASE Pick
  BY <1>3 DEF Pick, ControlInv, SavePcs, Balanced, EngineOne, GenderOne, TypeOK
<1>4. CASE Accept
  <2>1. pc = "dialog" /\ pc' = "save1" /\ stack = <<>> /\ UNCHANGED <<active, stack>>
    BY <1>4 DEF Accept, dialog
  <2>2. EngineOne /\ GenderOne
    BY <2>1, WhoseHandler DEF ControlInv, Balanced
  <2>. QED  BY <2>1, <2>2 DEF ControlInv, SavePcs, EngineOne, GenderOne, TypeOK
<1>5. CASE UNCHANGED vars
  BY <1>5 DEF vars, mem, dialog, ControlInv, Balanced, EngineOne, GenderOne, Alone, Nested,
              ShownEngine, ShownGender, Setting, TypeOK
<1>. QED  BY <1>1, <1>2, <1>3, <1>4, <1>5, HandlerStep, LoadStep, ClickStep DEF Next

\* A write sets one key, which then does not count as unsaved, or nothing.
LEMMA WriteStep ==
  ASSUME TypeOK, NEW key \in Keys, NEW value, Write(key, value)
  PROVE  /\ DOMAIN conf' = Keys
         /\ \A k \in Keys \ {key} : conf'[k] = conf[k] /\ (k \in unsaved' <=> k \in unsaved)
         /\ \/ key \in unsaved' /\ conf'[key] = conf[key]
            \/ key \notin unsaved' /\ conf'[key] = value
BY DEF TypeOK, Write

\* SaveEnabled stores a truth value.
LEMMA SaveEnabledStep ==
  ASSUME TypeOK, SaveEnabled
  PROVE  /\ DOMAIN conf' = Keys /\ \A k \in Keys \ {"enabled"} : conf'[k] = conf[k]
         /\ conf'["enabled"] \in {Unset} \cup BOOLEAN /\ Enabled' \in BOOLEAN
         /\ Enabled = Setting("enabled") => Enabled' = Setting("enabled")'
<1>. DEFINE v == "enable" \in active
<1>1. Write("enabled", v) /\ Enabled' = IF "enabled" \in unsaved' THEN Enabled ELSE v
  BY DEF SaveEnabled
<1>2. v \in BOOLEAN
  OBVIOUS
<1>. HIDE DEF v
<1>3. /\ DOMAIN conf' = Keys
      /\ \A k \in Keys \ {"enabled"} : conf'[k] = conf[k]
      /\ \/ "enabled" \in unsaved' /\ conf'["enabled"] = conf["enabled"]
         \/ "enabled" \notin unsaved' /\ conf'["enabled"] = v
  BY <1>1, WriteStep DEF Keys
<1>4. Enabled \in BOOLEAN /\ conf["enabled"] \in {Unset} \cup BOOLEAN
  BY DEF TypeOK
<1>5. CASE "enabled" \in unsaved'
  BY <1>1, <1>3, <1>4, <1>5 DEF Setting
<1>6. CASE "enabled" \notin unsaved'
  <2>1. Enabled' = v /\ conf'["enabled"] = v
    BY <1>1, <1>3, <1>6
  <2>2. v # Unset
    BY <1>2, LanguagesAssumption
  <2>. QED  BY <1>2, <1>3, <2>1, <2>2 DEF Setting
<1>. QED  BY <1>5, <1>6

LEMMA TypeStep == TypeOK /\ ControlInv /\ [Next]_vars => TypeOK'
<1>. SUFFICES ASSUME TypeOK, ControlInv, [Next]_vars  PROVE TypeOK'
  OBVIOUS
<1>. USE DEF TypeOK, LoadPcs, SavePcs
<1>1. active' \subseteq Buttons
  BY ControlStep
<1>2. CASE UNCHANGED <<conf, Enabled>>
  <2>1. picked' \in Languages \cup {Unset} /\ pc' \in {"off", "main", "dialog"} \cup LoadPcs \cup SavePcs
    BY DEF Next, Handler, EnableHandler, GenderHandler, EngineHandler, Load, LoadEnabled,
       LoadEngine, LoadGender, LoadLanguage, Save, SaveEnabled, SaveEngine, SaveGender,
       SaveLanguage, Start, Kill, OpenDialog, Click, Pick, Accept, Close, vars, mem, dialog
  <2>. QED  BY <1>1, <1>2, <2>1
<1>3. CASE ~UNCHANGED <<conf, Enabled>>
  <2>1. Save \/ Start \/ Kill
    BY <1>3 DEF Next, Handler, EnableHandler, GenderHandler, EngineHandler, Load, LoadEnabled,
       LoadEngine, LoadGender, LoadLanguage, OpenDialog, Click, Pick, Accept, Close, vars, mem
  <2>2. CASE Start \/ Kill
    BY <1>1, <2>2, SettingType DEF Start, Kill, dialog
  <2>3. CASE SaveEnabled
    BY <1>1, <2>3, SaveEnabledStep DEF SaveEnabled, Keys, dialog
  <2>4. CASE SaveEngine
    BY <1>1, <2>4, ShownType DEF SaveEngine, Write, Keys, dialog, mem
  <2>5. CASE SaveGender
    BY <1>1, <2>5, ShownType DEF SaveGender, Write, Keys, dialog
  <2>6. CASE SaveLanguage
    BY <1>1, <2>6 DEF SaveLanguage, Write, Keys
  <2>. QED  BY <2>1, <2>2, <2>3, <2>4, <2>5, <2>6 DEF Save
<1>. QED  BY <1>2, <1>3

\* Steps that leave gconf, the memory and the memory of failed writes alone.
LEMMA EffectStutter ==
  ASSUME EffectInv, UNCHANGED <<conf, mem, unsaved>>,
         pc \in {"main", "dialog"} \cup LoadPcs, pc' \in {"main", "dialog"} \cup LoadPcs,
         pc' = "dialog" /\ picked' = Unset => conf["language"] = Unset
  PROVE  EffectInv'
BY DEF EffectInv, Setting, mem, LoadPcs, SavePcs

LEMMA EffectStep == TypeOK /\ ControlInv /\ EffectInv /\ [Next]_vars => EffectInv'
<1>. SUFFICES ASSUME TypeOK, ControlInv, EffectInv, [Next]_vars  PROVE EffectInv'
  OBVIOUS
<1>1. CASE Handler \/ Click \/ Pick
  <2>1. /\ UNCHANGED <<conf, mem, unsaved, pc>> /\ (picked' = picked \/ picked' # Unset)
        /\ pc \in {"load2", "load3", "load4", "dialog"}
    <3>1. CASE Handler
      <4>1. stack # <<>> /\ UNCHANGED <<conf, mem, unsaved, pc, picked>>
        BY <3>1 DEF Handler, EnableHandler, GenderHandler, EngineHandler
      <4>. QED  BY <4>1 DEF ControlInv, TypeOK, LoadPcs
    <3>2. CASE Click
      BY <3>2 DEF Click
    <3>3. CASE Pick
      BY <3>3, LanguagesAssumption DEF Pick
    <3>. QED  BY <1>1, <3>1, <3>2, <3>3
  <2>. QED  BY <2>1, EffectStutter DEF EffectInv, LoadPcs
<1>2. CASE Load \/ OpenDialog \/ Close
  <2>1. /\ UNCHANGED <<conf, mem, unsaved>>
        /\ pc \in {"main", "dialog"} \cup LoadPcs /\ pc' \in {"main", "dialog"} \cup LoadPcs
        /\ pc' = "dialog" => picked' = conf["language"]
    BY <1>2 DEF Load, LoadEnabled, LoadEngine, LoadGender, LoadLanguage, OpenDialog, Close, LoadPcs
  <2>. QED  BY <2>1, EffectStutter
<1>3. CASE Accept
  BY <1>3 DEF Accept, EffectInv, Setting, mem, dialog, LoadPcs, SavePcs
<1>4. CASE Start
  <2>1. Setting("language") = conf["language"] \/ conf["language"] = Unset
    BY DEF Setting
  <2>. QED  BY <1>4, <2>1 DEF Start, EffectInv, Setting, LoadPcs, SavePcs
<1>5. CASE Kill
  BY <1>5 DEF Kill, EffectInv, LoadPcs, SavePcs
<1>6. CASE SaveEnabled
  <2>1. /\ pc' = "save2" /\ picked' = picked /\ pc = "save1"
    BY <1>6 DEF SaveEnabled, dialog
  <2>2. Enabled' = Setting("enabled")' /\ conf'["language"] = conf["language"]
    BY <1>6, <2>1, SaveEnabledStep DEF EffectInv, Keys
  <2>. QED  BY <2>1, <2>2 DEF EffectInv, LoadPcs, SavePcs
<1>7. CASE SaveEngine
  <2>1. /\ pc' = "save3" /\ pc = "save2" /\ UNCHANGED <<picked, active, Enabled>>
        /\ Write("engine", ShownEngine)
    BY <1>7 DEF SaveEngine, dialog, mem
  <2>2. /\ "engine" \notin unsaved' => ShownEngine = Setting("engine")'
        /\ conf'["language"] = conf["language"] /\ conf'["enabled"] = conf["enabled"]
    BY <2>1, ShownType, LanguagesAssumption DEF TypeOK, Keys, Setting, Write
  <2>3. ShownEngine' = ShownEngine
    BY <2>1 DEF ShownEngine
  <2>. QED  BY <2>1, <2>2, <2>3 DEF EffectInv, LoadPcs, SavePcs, Setting
<1>8. CASE SaveGender
  <2>1. /\ pc' = "save4" /\ pc = "save3" /\ UNCHANGED <<picked, active, Enabled>>
        /\ Write("gender", ShownGender) /\ Engine' = ShownEngine
    BY <1>8 DEF SaveGender, dialog
  <2>2. /\ "gender" \notin unsaved' => ShownGender = Setting("gender")'
        /\ "engine" \in unsaved' <=> "engine" \in unsaved
        /\ conf'["language"] = conf["language"] /\ conf'["enabled"] = conf["enabled"]
        /\ conf'["engine"] = conf["engine"]
    BY <2>1, ShownType, LanguagesAssumption DEF TypeOK, Keys, Setting, Write
  <2>3. ShownGender' = ShownGender
    BY <2>1 DEF ShownGender
  <2>. QED  BY <2>1, <2>2, <2>3 DEF EffectInv, LoadPcs, SavePcs, Setting
<1>9. CASE SaveLanguage
  <2>1. pc' = "main" /\ pc = "save4" /\ UNCHANGED <<Enabled, Engine>>
    BY <1>9 DEF SaveLanguage
  <2>2. CASE picked = Unset
    BY <1>9, <2>1, <2>2 DEF SaveLanguage, EffectInv, Setting, LoadPcs, SavePcs
  <2>3. CASE picked # Unset
    <3>1. /\ Write("language", picked)
          /\ voice' = IF "language" \in unsaved' THEN voice
                      ELSE [language |-> picked, gender |-> ShownGender]
      BY <1>9, <2>3 DEF SaveLanguage
    <3>2. /\ "engine" \in unsaved' <=> "engine" \in unsaved
          /\ "gender" \in unsaved' <=> "gender" \in unsaved
          /\ "language" \in unsaved' \/ conf'["language"] = picked
          /\ conf'["enabled"] = conf["enabled"] /\ conf'["engine"] = conf["engine"]
          /\ conf'["gender"] = conf["gender"]
      BY <3>1 DEF TypeOK, Keys, Write
    <3>3. unsaved' = {} => voice' = [language |-> conf'["language"], gender |-> Setting("gender")']
      BY <2>1, <3>1, <3>2 DEF EffectInv, Setting
    <3>. QED  BY <2>1, <3>2, <3>3 DEF EffectInv, Setting, LoadPcs, SavePcs
  <2>. QED  BY <2>2, <2>3
<1>10. CASE UNCHANGED vars
  BY <1>10 DEF vars, mem, dialog, EffectInv, Setting, ShownEngine, ShownGender
<1>. QED  BY <1>1, <1>2, <1>3, <1>4, <1>5, <1>6, <1>7, <1>8, <1>9, <1>10 DEF Next, Save

-----------------------------------------------------------------------------
(* The theorems.                                                           *)

LEMMA Inits == Init => TypeOK /\ ControlInv /\ EffectInv
<1>. SUFFICES ASSUME Init  PROVE TypeOK /\ ControlInv /\ EffectInv
  OBVIOUS
<1>1. TypeOK
  BY DEF Init, TypeOK, Keys
<1>2. ControlInv /\ EffectInv
  BY DEF Init, ControlInv, EffectInv, LoadPcs, SavePcs
<1>. QED  BY <1>1, <1>2

\* Types, and what the handlers have done to the buttons at each point.
THEOREM ControlCorrect == Spec => [](TypeOK /\ ControlInv)
<1>1. TypeOK /\ ControlInv /\ [Next]_vars => ControlInv'
  BY ControlStep
<1>. QED  BY <1>1, Inits, TypeStep, PTL DEF Spec

\* The program speaks with what gconf holds, as far as it took what was saved.
THEOREM EffectCorrect == Spec => []InEffect
<1>1. EffectInv => InEffect
  BY DEF EffectInv, InEffect
<1>2. EffectInv /\ TypeOK /\ ControlInv /\ [Next]_vars => EffectInv'
  BY EffectStep
<1>. QED  BY <1>1, <1>2, Inits, ControlCorrect, PTL DEF Spec

\* The buttons show what is in effect when the dialog appears, and a choice of one in
\* each pair whenever the user can act, whatever handlers have run.
THEOREM ButtonsCorrect == Spec => ButtonsTruthful
<1>1. ControlInv => OneOfEach
  <2>. SUFFICES ASSUME ControlInv, pc \in {"dialog"} \cup SavePcs, stack = <<>>
                PROVE  EngineOne /\ GenderOne
    BY DEF OneOfEach, EngineOne, GenderOne, SavePcs
  <2>1. \A c : stack # <<Frame(c, 1)>>
    BY WhoseHandler
  <2>. QED  BY <2>1 DEF ControlInv, Balanced
<1>2. ControlInv => ShowsSettings
  BY DEF ControlInv, ShowsSettings, LoadLanguage
<1>3. ControlInv' => OneOfEach'
  BY <1>1, PTL
<1>4. ControlInv /\ ControlInv' => [ShowsSettings /\ OneOfEach']_vars
  BY <1>2, <1>3
<1>. QED  BY <1>4, ControlCorrect, PTL DEF ButtonsTruthful
=============================================================================
