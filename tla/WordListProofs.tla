--------------------------- MODULE WordListProofs ---------------------------
(***************************************************************************)
(* What holds of WordList however many dictionaries there are and whatever *)
(* is in their lists: the word pointed to is not overwritten while it is   *)
(* used, and the words shown are the next ones of all lists, in order and  *)
(* without repetition.                                                     *)
(***************************************************************************)
EXTENDS WordList, SequenceTheorems, WellFoundedInduction, TLAPS

-----------------------------------------------------------------------------
(* The inductive invariant.                                                *)

\* A place in every list, or a mark that it has none.
Placed(from) == \A s \in Sources : from[s] \in Positions(keys[s]) \/ from[s] < 0

TypeOK ==
    /\ keys \in [Sources -> Seq(Words)] /\ \A s \in Sources : Sorted(keys[s])
    /\ iIndex \in [Sources -> Int] /\ Placed(iIndex)
    /\ start \in [Sources -> Int] /\ Placed(start)
    /\ page \in [Sources -> Int]
    /\ pc \in {"idle", "current", "next", "others"}
    /\ pc = "idle" => po = NULL
    /\ i \in 1..Len(sources) + 1
    /\ results \in Seq(Words) /\ Len(results) <= MAX_LIST

\* What poCurrentWord points to is where its list was left, one of the first n.
PointsInto(n) ==
    \E j \in 1..n : /\ j <= Len(sources) /\ po = PointerTo(sources[j])
                    /\ Usable(sources[j])
                    /\ page[sources[j]] = PageOf(iIndex[sources[j]])

\* The least word of the lists visited so far is the one pointed to.
ScanInv ==
    pc \in {"current", "next"} =>
        /\ po # NULL => PointsInto(i - 1)
        /\ \A j \in 1..i - 1 : Usable(sources[j]) => po # NULL /\ Pointed <= WordAt(sources[j])

\* The lists visited so far, but the one pointed into, are past its word.
OthersInv ==
    pc = "others" =>
        /\ po # NULL /\ PointsInto(Len(sources)) /\ Pointed = Last(results)
        /\ \A j \in 1..i - 1 :
              Usable(sources[j]) /\ sources[j] # po.list => Pointed < WordAt(sources[j])

\* The words shown so far are the least of those to show.
ShownInv ==
    LET All == Remaining(start)
        Shown == ToSet(results)
    IN  /\ \A k, l \in DOMAIN results : k < l => results[k] < results[l]
        /\ Shown \subseteq All
        /\ \A v \in Shown, w \in All \ Shown : v < w
        /\ pc = "idle" => Shown = All \/ Len(results) = MAX_LIST
        /\ pc # "idle" => Len(results) < MAX_LIST

\* The places reached give what has not been shown, and still the last word
\* shown until all lists have been advanced.
PlacesInv ==
    LET Left == Remaining(start) \ ToSet(results)
    IN  /\ pc = "current" => Remaining(iIndex) = Left
        /\ pc \in {"next", "others"} =>
              /\ results # <<>> /\ Last(results) \in Remaining(iIndex)
              /\ Remaining(iIndex) \ {Last(results)} = Left

MergeInv == ScanInv /\ OthersInv /\ ShownInv /\ PlacesInv

-----------------------------------------------------------------------------
(* The lists and what they are still to give.                              *)

LEMMA LeastNat ==
    ASSUME NEW T \in SUBSET Nat, T # {}
    PROVE  \E x \in T : \A y \in T : x <= y
<1> DEFINE R == OpToRel(<, Nat)
<1>1. IsWellFoundedOn(R, Nat)
  BY NatLessThanWellFounded
<1>2. \A x, y \in Nat : <<y, x>> \in R <=> y < x
  BY DEF OpToRel
<1> HIDE DEF R
<1>3. PICK x \in T : \A y \in T : ~ (<<y, x>> \in R)
  BY <1>1, WFMin
<1>4. ASSUME NEW y \in T PROVE x <= y
  <2>1. x \in Nat /\ y \in Nat
    OBVIOUS
  <2>2. ~ (y < x)
    BY <1>2, <1>3, <2>1
  <2>3. QED BY <2>1, <2>2
<1>5. QED BY <1>4

LEMMA SourceFacts ==
    /\ Len(sources) \in Nat
    /\ \A j \in 1..Len(sources) : sources[j] \in Sources
    /\ \A s \in Sources : \E j \in 1..Len(sources) : sources[j] = s
    /\ \A j, k \in 1..Len(sources) : sources[j] = sources[k] => j = k
<1>1. Len(sources) \in Nat /\ DOMAIN sources = 1..Len(sources)
  BY SourcesAssumption
<1>2. QED BY <1>1, SourcesAssumption DEF Sources, ToSet, IsInjective

LEMMA ListFacts ==
    ASSUME TypeOK, NEW s \in Sources
    PROVE  /\ Positions(keys[s]) = 0..Len(keys[s]) - 1 /\ Len(keys[s]) \in Nat
           /\ \A k \in Positions(keys[s]) : k \in Nat /\ KeyAt(keys[s], k) \in Words
                                            /\ KeyAt(keys[s], k) \in Int
           /\ \A k, l \in Positions(keys[s]) :
                 k <= l => KeyAt(keys[s], k) <= KeyAt(keys[s], l)
<1>1. keys[s] \in Seq(Words) /\ Sorted(keys[s])
  BY DEF TypeOK
<1> DEFINE ks == keys[s]
<1>2. ks \in Seq(Words) /\ Sorted(ks)
  BY <1>1
<1> HIDE DEF ks
<1>3. Positions(ks) = 0..Len(ks) - 1 /\ Len(ks) \in Nat
  BY <1>2 DEF Positions
<1>4. ASSUME NEW k \in Positions(ks) PROVE k \in Nat /\ KeyAt(ks, k) \in Words
                                            /\ KeyAt(ks, k) \in Int
  <2>1. k \in Nat /\ k + 1 \in 1..Len(ks)
    BY <1>3
  <2>2. ks[k + 1] \in Words
    BY <1>2, <2>1
  <2>3. QED BY <2>1, <2>2, WordsAssumption DEF KeyAt
<1>5. ASSUME NEW k \in Positions(ks), NEW l \in Positions(ks), k <= l
      PROVE  KeyAt(ks, k) <= KeyAt(ks, l)
  <2>1. CASE k = l
    BY <1>4, <2>1
  <2>2. CASE k < l
    <3>1. k + 1 \in DOMAIN ks /\ l + 1 \in DOMAIN ks /\ k + 1 < l + 1
      BY <1>2, <1>3, <2>2
    <3>2. QED BY <1>2, <3>1 DEF Sorted, KeyAt
  <2>3. QED BY <1>3, <1>5, <2>1, <2>2
<1>6. QED BY <1>3, <1>4, <1>5 DEF ks

\* The list s is still to give the word w.
Gives(from, s, w) ==
    \E k \in Positions(keys[s]) : 0 <= from[s] /\ from[s] <= k /\ KeyAt(keys[s], k) = w

LEMMA RemainingIs ==
    ASSUME NEW from, NEW w
    PROVE  w \in Remaining(from) <=> \E s \in Sources : Gives(from, s, w)
BY DEF Remaining, Gives

\* Where a list stands is the least word it is still to give.
LEMMA GivesFacts ==
    ASSUME TypeOK, NEW s \in Sources
    PROVE  /\ Usable(s) => WordAt(s) \in Int /\ WordAt(s) \in Words /\ Gives(iIndex, s, WordAt(s))
           /\ \A w : Gives(iIndex, s, w) => Usable(s) /\ w \in Int /\ WordAt(s) <= w
<1>1. /\ Positions(keys[s]) = 0..Len(keys[s]) - 1 /\ Len(keys[s]) \in Nat
      /\ \A k \in Positions(keys[s]) : k \in Nat /\ KeyAt(keys[s], k) \in Words
                                       /\ KeyAt(keys[s], k) \in Int
      /\ \A k, l \in Positions(keys[s]) : k <= l => KeyAt(keys[s], k) <= KeyAt(keys[s], l)
  BY ListFacts
<1>2. iIndex[s] \in Int /\ (iIndex[s] \in Positions(keys[s]) \/ iIndex[s] < 0)
  BY DEF TypeOK, Placed
<1>3. QED BY <1>1, <1>2 DEF Usable, WordAt, Gives

\* GetWordNext passes the entries of the word and nothing else.
LEMMA AdvanceFacts ==
    ASSUME TypeOK, NEW s \in Sources, Usable(s), GetWordNext(s)
    PROVE  /\ iIndex' \in [Sources -> Int] /\ page' \in [Sources -> Int]
           /\ \A r \in Sources \ {s} : iIndex'[r] = iIndex[r] /\ page'[r] = page[r]
           /\ iIndex'[s] \in Positions(keys[s]) \/ iIndex'[s] < 0
           /\ \A w : w # WordAt(s) => (Gives(iIndex', s, w) <=> Gives(iIndex, s, w))
           /\ ~Gives(iIndex', s, WordAt(s))
           /\ iIndex'[s] \in Positions(keys[s]) => WordAt(s) < KeyAt(keys[s], iIndex'[s])
<1> DEFINE ks == keys[s]
           here == iIndex[s]
           Later == {k \in Positions(ks) : k > here /\ KeyAt(ks, k) # WordAt(s)}
           Next1 == CHOOSE k \in Later : \A l \in Later : k <= l
<1>1. /\ Len(ks) \in Nat
      /\ \A k \in Positions(ks) : k \in Nat /\ KeyAt(ks, k) \in Int
      /\ \A k, l \in Positions(ks) : k <= l => KeyAt(ks, k) <= KeyAt(ks, l)
  BY ListFacts
<1>2. here \in Positions(ks) /\ WordAt(s) = KeyAt(ks, here) /\ here \in Nat
  BY <1>1 DEF Usable, WordAt
<1>3. IF Later = {}
      THEN /\ iIndex' = [iIndex EXCEPT ![s] = INVALID_INDEX]
           /\ page' = [page EXCEPT ![s] = PageOf(Len(ks) - 1)]
      ELSE /\ iIndex' = [iIndex EXCEPT ![s] = Next1]
           /\ page' = [page EXCEPT ![s] = PageOf(Next1)]
  BY DEF GetWordNext
<1>4. iIndex \in [Sources -> Int] /\ page \in [Sources -> Int]
  BY DEF TypeOK
<1>5. \A k \in Positions(ks) : k < here => KeyAt(ks, k) <= WordAt(s)
  BY <1>1, <1>2
<1>6. \A k \in Positions(ks) : here <= k /\ KeyAt(ks, k) # WordAt(s) => k \in Later
  <2>1. ASSUME NEW k \in Positions(ks), here <= k, KeyAt(ks, k) # WordAt(s) PROVE k \in Later
    <3>1. k # here /\ k \in Nat
      BY <1>1, <1>2, <2>1
    <3>2. k > here
      BY <1>2, <2>1, <3>1
    <3>3. QED BY <2>1, <3>2
  <2>2. QED BY <2>1
<1>7. CASE Later = {}
  <2>1. iIndex' = [iIndex EXCEPT ![s] = INVALID_INDEX]
        /\ page' = [page EXCEPT ![s] = PageOf(Len(ks) - 1)]
    BY <1>3, <1>7
  <2>2. INVALID_INDEX \in Int /\ INVALID_INDEX < 0 /\ PageOf(Len(ks) - 1) \in Int
    BY <1>1, PageAssumption DEF INVALID_INDEX, PageOf
  <2>3. iIndex'[s] < 0
    BY <1>4, <2>1, <2>2
  <2>4. \A w : ~Gives(iIndex', s, w)
    BY <2>1, <2>2, <1>4 DEF Gives
  <2>5. \A w : Gives(iIndex, s, w) => w = WordAt(s)
    BY <1>6, <1>7 DEF Gives
  <2>6. iIndex'[s] \notin Positions(ks)
    BY <1>1, <1>4, <2>1, <2>2
  <2> HIDE DEF Later, Next1
  <2>7. QED BY <1>4, <2>1, <2>2, <2>3, <2>4, <2>5, <2>6
<1>8. CASE Later # {}
  <2>1. \E k \in Later : \A l \in Later : k <= l
    <3>1. Later \in SUBSET Nat
      BY <1>1
    <3>2. QED BY <1>8, <3>1, LeastNat
  <2>2. Next1 \in Later /\ \A l \in Later : Next1 <= l
    BY <2>1
  <2>3. /\ Next1 \in Positions(ks) /\ Next1 \in Nat /\ Next1 > here
        /\ KeyAt(ks, Next1) # WordAt(s)
    BY <1>1, <2>2
  <2>4. KeyAt(ks, Next1) > WordAt(s)
    <3>1. here <= Next1
      BY <1>2, <2>3
    <3>2. KeyAt(ks, here) <= KeyAt(ks, Next1)
      BY <1>1, <1>2, <2>3, <3>1
    <3>3. KeyAt(ks, here) \in Int /\ KeyAt(ks, Next1) \in Int
      BY <1>1, <1>2, <2>3
    <3>4. QED BY <1>2, <2>3, <3>2, <3>3
  <2>5. /\ iIndex' = [iIndex EXCEPT ![s] = Next1]
        /\ page' = [page EXCEPT ![s] = PageOf(Next1)]
    BY <1>3, <1>8
  <2>6. \A k \in Positions(ks) : here <= k /\ KeyAt(ks, k) # WordAt(s) => Next1 <= k
    BY <1>6, <2>2
  <2> HIDE DEF Later, Next1
  <2>7. iIndex'[s] = Next1 /\ PageOf(Next1) \in Int
    BY <1>4, <2>3, <2>5, PageAssumption DEF PageOf
  <2>8. \A w : w # WordAt(s) => (Gives(iIndex', s, w) <=> Gives(iIndex, s, w))
    BY <1>1, <1>2, <2>3, <2>6, <2>7 DEF Gives
  <2>9. ~Gives(iIndex', s, WordAt(s))
    <3>1. SUFFICES ASSUME NEW k \in Positions(ks), Next1 <= k, KeyAt(ks, k) = WordAt(s)
                   PROVE  FALSE
      BY <2>7 DEF Gives
    <3>2. KeyAt(ks, Next1) <= KeyAt(ks, k)
      BY <1>1, <2>3, <3>1
    <3>3. QED BY <1>1, <1>2, <2>3, <2>4, <3>1, <3>2
  <2>10. /\ iIndex' \in [Sources -> Int] /\ page' \in [Sources -> Int]
         /\ \A r \in Sources \ {s} : iIndex'[r] = iIndex[r] /\ page'[r] = page[r]
    BY <1>4, <2>3, <2>5, <2>7
  <2>11. QED BY <2>3, <2>4, <2>7, <2>8, <2>9, <2>10
<1>9. QED BY <1>7, <1>8

-----------------------------------------------------------------------------
(* poGetCurrentWord, and the loops of poGetNextWord that are the same.     *)

LEMMA PointerFacts ==
    ASSUME TypeOK, NEW n, PointsInto(n)
    PROVE  /\ po # NULL /\ po.list \in Sources /\ Usable(po.list) /\ po.at = iIndex[po.list]
           /\ Pointed = WordAt(po.list) /\ page[po.list] = PageOf(po.at)
           /\ \E j \in 1..n : j <= Len(sources) /\ po.list = sources[j]
<1>1. PICK j \in 1..n : /\ j <= Len(sources) /\ po = PointerTo(sources[j])
                        /\ Usable(sources[j])
                        /\ page[sources[j]] = PageOf(iIndex[sources[j]])
  BY DEF PointsInto
<1> DEFINE s == sources[j]
<1>2. s \in Sources
  BY <1>1, SourceFacts
<1>3. po = [list |-> s, at |-> iIndex[s]]
  BY <1>1 DEF PointerTo
<1>4. po # NULL
  BY <1>3 DEF NULL
<1>5. po.list = s /\ po.at = iIndex[s]
  BY <1>3
<1>6. QED BY <1>1, <1>2, <1>4, <1>5 DEF Pointed, WordAt

\* After all lists have been visited, poCurrentWord is the least word left.
LEMMA LeastPointed ==
    ASSUME TypeOK, ScanInv, pc \in {"current", "next"}, i > Len(sources)
    PROVE  /\ po # NULL => /\ Pointed \in Remaining(iIndex) /\ Pointed \in Words
                           /\ PointsInto(Len(sources))
           /\ \A x \in Remaining(iIndex) : po # NULL /\ Pointed <= x
           /\ Remaining(iIndex) \subseteq Int
<1>1. i - 1 = Len(sources) /\ Len(sources) \in Nat
  BY SourceFacts DEF TypeOK
<1>2. po # NULL => PointsInto(Len(sources))
  BY <1>1 DEF ScanInv
<1>3. po # NULL => Pointed \in Remaining(iIndex) /\ Pointed \in Words
  <2>1. SUFFICES ASSUME po # NULL PROVE Pointed \in Remaining(iIndex) /\ Pointed \in Words
    OBVIOUS
  <2>2. po.list \in Sources /\ Usable(po.list) /\ Pointed = WordAt(po.list)
    BY <1>2, <2>1, PointerFacts
  <2>3. WordAt(po.list) \in Words /\ Gives(iIndex, po.list, WordAt(po.list))
    BY <2>2, GivesFacts
  <2>4. QED BY <2>2, <2>3, RemainingIs
<1>4. ASSUME NEW x \in Remaining(iIndex) PROVE x \in Int /\ po # NULL /\ Pointed <= x
  <2>1. PICK s \in Sources : Gives(iIndex, s, x)
    BY RemainingIs
  <2>2. Usable(s) /\ x \in Int /\ WordAt(s) <= x /\ WordAt(s) \in Int
    BY <2>1, GivesFacts
  <2>3. PICK j \in 1..i - 1 : sources[j] = s
    BY <1>1, SourceFacts
  <2>4. po # NULL /\ Pointed <= WordAt(s)
    BY <2>2, <2>3 DEF ScanInv
  <2>5. Pointed \in Int
    BY <1>3, <2>4, WordsAssumption
  <2>6. QED BY <2>2, <2>4, <2>5
<1>5. QED BY <1>2, <1>3, <1>4

LEMMA ScanStep ==
    ASSUME TypeOK, MergeInv, Scan
    PROVE  TypeOK' /\ MergeInv'
<1> DEFINE s == sources[i]
<1>1. /\ pc \in {"current", "next"} /\ i \in 1..Len(sources) /\ i' = i + 1
      /\ UNCHANGED <<keys, iIndex, start, pc, results>>
      /\ \/ /\ Usable(s)
            /\ page' = [page EXCEPT ![s] = PageOf(iIndex[s])]
            /\ po' = IF po = NULL \/ Cmp(Pointed, WordAt(s)) > 0 THEN PointerTo(s) ELSE po
         \/ ~Usable(s) /\ UNCHANGED <<page, po>>
  BY SourceFacts DEF Scan, TypeOK
<1>2. /\ s \in Sources /\ \A j \in 1..i - 1 : sources[j] \in Sources /\ sources[j] # s
      /\ Len(sources) \in Nat
  BY <1>1, SourceFacts
<1>3. /\ \A r : Usable(r)' <=> Usable(r)
      /\ \A r : PointerTo(r)' = PointerTo(r) /\ WordAt(r)' = WordAt(r)
  BY <1>1 DEF Usable, PointerTo, WordAt
<1>4. /\ page \in [Sources -> Int] /\ iIndex[s] \in Int
      /\ po # NULL => PointsInto(i - 1)
      /\ \A j \in 1..i - 1 : Usable(sources[j]) => po # NULL /\ Pointed <= WordAt(sources[j])
  BY <1>1, <1>2 DEF TypeOK, MergeInv, ScanInv
<1>5. PageOf(iIndex[s]) \in Int
  BY <1>4, PageAssumption DEF PageOf
<1>6. page' \in [Sources -> Int] /\ \A j \in 1..i - 1 : page'[sources[j]] = page[sources[j]]
  BY <1>1, <1>2, <1>4, <1>5
<1>7. TypeOK'
  <2>1. i' \in 1..Len(sources) + 1
    BY <1>1, <1>2
  <2>2. QED BY <1>1, <1>6, <2>1 DEF TypeOK, Placed
<1>8. ASSUME po # NULL, po' = po
      PROVE  PointsInto(i - 1)' /\ Pointed' = Pointed
  <2>1. PICK j \in 1..i - 1 : /\ j <= Len(sources) /\ po = PointerTo(sources[j])
                              /\ Usable(sources[j])
                              /\ page[sources[j]] = PageOf(iIndex[sources[j]])
    BY <1>4, <1>8 DEF PointsInto
  <2>2. j \in 1..i' - 1
    BY <1>1, <2>1
  <2>3. po' = PointerTo(sources[j])' /\ Usable(sources[j])'
        /\ page'[sources[j]] = PageOf(iIndex'[sources[j]])
    BY <1>1, <1>3, <1>6, <1>8, <2>1
  <2>4. Pointed' = Pointed
    BY <1>1, <1>8 DEF Pointed
  <2>5. QED BY <2>1, <2>2, <2>3, <2>4 DEF PointsInto, PageOf
<1>9. ScanInv'
  <2>1. CASE ~Usable(s)
    <3>1. \A j \in 1..i' - 1 : j \in 1..i - 1 \/ j = i
      BY <1>1
    <3>2. po' = po /\ (po # NULL => PointsInto(i - 1)' /\ Pointed' = Pointed)
      BY <1>1, <1>8, <2>1
    <3>3. QED BY <1>3, <1>4, <2>1, <3>1, <3>2 DEF ScanInv
  <2>2. CASE Usable(s)
    <3>1. WordAt(s) \in Int
      BY <1>2, <2>2, GivesFacts
    <3>2. page'[s] = PageOf(iIndex[s])
      BY <1>1, <1>2, <1>4, <2>2
    <3>3. po # NULL => Pointed \in Int
      <4>1. SUFFICES ASSUME po # NULL PROVE Pointed \in Int
        OBVIOUS
      <4>2. po.list \in Sources /\ Usable(po.list) /\ Pointed = WordAt(po.list)
        BY <1>4, <4>1, PointerFacts
      <4>3. QED BY <4>2, GivesFacts
    <3>4. CASE po = NULL \/ Cmp(Pointed, WordAt(s)) > 0
      <4>1. po' = PointerTo(s)
        BY <1>1, <2>2, <3>4
      <4>2. po' # NULL /\ Pointed' = WordAt(s)
        BY <1>1, <4>1 DEF PointerTo, NULL, Pointed, WordAt
      <4>3. PointsInto(i - 1)'
        <5>1. PICK j \in 1..i' - 1 : j = i /\ j <= Len(sources)
          BY <1>1
        <5>2. /\ po' = [list |-> sources[j], at |-> iIndex'[sources[j]]]
              /\ iIndex'[sources[j]] \in Positions(keys'[sources[j]])
              /\ page'[sources[j]] = PageOf(iIndex'[sources[j]])
          BY <1>1, <2>2, <3>2, <4>1, <5>1 DEF PointerTo, Usable
        <5>3. QED BY <5>1, <5>2 DEF PointsInto, PageOf, PointerTo, Usable
      <4>4. ASSUME NEW j \in 1..i' - 1, Usable(sources[j])'
            PROVE  Pointed' <= WordAt(sources[j])'
        <5>1. CASE j = i
          BY <1>3, <3>1, <4>2, <5>1
        <5>2. CASE j # i
          <6>1. j \in 1..i - 1
            BY <1>1, <5>2
          <6>2. po # NULL /\ Pointed <= WordAt(sources[j])
            BY <1>3, <1>4, <4>4, <6>1
          <6>3. Pointed > WordAt(s)
            BY <3>1, <3>3, <3>4, <6>2 DEF Cmp
          <6>4. WordAt(sources[j]) \in Int
            BY <1>2, <1>3, <4>4, <6>1, GivesFacts
          <6>5. QED BY <1>3, <3>1, <3>3, <4>2, <6>2, <6>3, <6>4
        <5>3. QED BY <5>1, <5>2
      <4>5. QED BY <4>2, <4>3, <4>4 DEF ScanInv
    <3>5. CASE po # NULL /\ ~(Cmp(Pointed, WordAt(s)) > 0)
      <4>1. po' = po /\ po # NULL
        BY <1>1, <2>2, <3>5
      <4>2. Pointed <= WordAt(s)
        BY <3>1, <3>3, <3>5 DEF Cmp
      <4>3. PointsInto(i - 1)' /\ Pointed' = Pointed
        BY <1>8, <4>1
      <4>4. ASSUME NEW j \in 1..i' - 1, Usable(sources[j])'
            PROVE  Pointed' <= WordAt(sources[j])'
        <5>1. j \in 1..i - 1 \/ j = i
          BY <1>1
        <5>2. QED BY <1>3, <1>4, <4>2, <4>3, <4>4, <5>1
      <4>5. QED BY <4>1, <4>3, <4>4 DEF ScanInv
    <3>6. QED BY <3>4, <3>5
  <2>3. QED BY <2>1, <2>2
<1>10. ShownInv' /\ PlacesInv'
  BY <1>1 DEF MergeInv, ShownInv, PlacesInv, Remaining
<1>11. OthersInv'
  BY <1>1 DEF OthersInv
<1>12. QED BY <1>7, <1>9, <1>10, <1>11 DEF MergeInv

LEMMA AppendFacts ==
    ASSUME NEW r \in Seq(Words), NEW w \in Words
    PROVE  /\ Append(r, w) \in Seq(Words) /\ Len(Append(r, w)) = Len(r) + 1
           /\ Append(r, w) # <<>> /\ Last(Append(r, w)) = w
           /\ \A k \in 1..Len(r) : Append(r, w)[k] = r[k]
           /\ Append(r, w)[Len(r) + 1] = w
           /\ ToSet(Append(r, w)) = ToSet(r) \cup {w}
<1> DEFINE a == Append(r, w)
<1>1. /\ a \in Seq(Words) /\ Len(a) = Len(r) + 1 /\ Len(r) \in Nat
      /\ \A k \in 1..Len(r) : a[k] = r[k]
      /\ a[Len(r) + 1] = w
  OBVIOUS
<1>2. DOMAIN a = 1..Len(r) + 1 /\ DOMAIN r = 1..Len(r)
  BY <1>1
<1> HIDE DEF a
<1>3. a # <<>> /\ Last(a) = w
  BY <1>1 DEF Last
<1>4. ToSet(a) = ToSet(r) \cup {w}
  <2>1. \A x : x \in ToSet(a) <=> \E k \in 1..Len(r) + 1 : a[k] = x
    BY <1>2 DEF ToSet
  <2>2. \A x : x \in ToSet(r) <=> \E k \in 1..Len(r) : r[k] = x
    BY <1>2 DEF ToSet
  <2>3. \A k \in 1..Len(r) + 1 : k \in 1..Len(r) \/ k = Len(r) + 1
    BY <1>1
  <2>4. \A k \in 1..Len(r) : k \in 1..Len(r) + 1
    BY <1>1
  <2>5. Len(r) + 1 \in 1..Len(r) + 1
    BY <1>1
  <2>6. QED BY <1>1, <2>1, <2>2, <2>3, <2>4, <2>5
<1>5. QED BY <1>1, <1>3, <1>4 DEF a

\* The word inserted is the least of those not shown yet.
LEMMA InsertStep ==
    ASSUME TypeOK, MergeInv, Insert
    PROVE  TypeOK' /\ MergeInv'
<1>1. /\ pc = "current" /\ i > Len(sources) /\ po' = NULL /\ i' = 1
      /\ UNCHANGED <<keys, page, iIndex, start>>
  BY DEF Insert
<1>2. /\ po # NULL => Pointed \in Remaining(iIndex) /\ Pointed \in Words
      /\ \A x \in Remaining(iIndex) : po # NULL /\ Pointed <= x
      /\ Remaining(iIndex) \subseteq Int
  BY <1>1, LeastPointed DEF MergeInv
<1> DEFINE All == Remaining(start)
           Shown == ToSet(results)
           Left == Remaining(iIndex)
<1>3. /\ \A k, l \in DOMAIN results : k < l => results[k] < results[l]
      /\ Shown \subseteq All
      /\ \A v \in Shown, w \in All \ Shown : v < w
      /\ Len(results) < MAX_LIST /\ Left = All \ Shown
      /\ results \in Seq(Words) /\ Len(results) \in Nat
  BY <1>1 DEF MergeInv, ShownInv, PlacesInv, TypeOK
<1>4. Remaining(start)' = All /\ Remaining(iIndex)' = Left
  BY <1>1 DEF Remaining
<1>5. 1 \in 1..Len(sources) + 1
  BY SourceFacts
<1>6. i' - 1 = 0 /\ 1..i' - 1 = {}
  BY <1>1
<1>7. ScanInv' /\ OthersInv'
  BY <1>1, <1>6, SourceFacts DEF ScanInv, OthersInv, Insert
<1>8. CASE po # NULL
  <2> DEFINE w == Pointed
  <2>1. /\ results' = Append(results, w) /\ w \in Words /\ w \in Int
        /\ pc' = IF Len(results') < MAX_LIST THEN "next" ELSE "idle"
    BY <1>2, <1>8, WordsAssumption DEF Insert
  <2> HIDE DEF w
  <2>2. /\ results' \in Seq(Words) /\ Len(results') = Len(results) + 1
        /\ results' # <<>> /\ Last(results') = w
        /\ \A k \in 1..Len(results) : results'[k] = results[k]
        /\ results'[Len(results) + 1] = w
        /\ ToSet(results') = Shown \cup {w}
    BY <1>3, <2>1, AppendFacts
  <2>3. w \in Left /\ \A x \in Left : w <= x /\ x \in Int
    BY <1>2, <1>8 DEF w
  <2>4. TypeOK'
    <3>1. Len(results') <= MAX_LIST
      BY <1>3, <2>2, ListAssumption
    <3>2. QED BY <1>1, <1>5, <2>1, <2>2, <3>1 DEF TypeOK, Placed
  <2>5. \A k, l \in DOMAIN results' : k < l => results'[k] < results'[l]
    <3>1. SUFFICES ASSUME NEW k \in 1..Len(results) + 1, NEW l \in 1..Len(results) + 1, k < l
                   PROVE  results'[k] < results'[l]
      BY <2>2
    <3>2. k \in 1..Len(results) /\ results[k] \in Shown
      BY <1>3, <3>1 DEF ToSet
    <3>3. CASE l = Len(results) + 1
      BY <1>3, <2>2, <2>3, <3>2, <3>3
    <3>4. CASE l # Len(results) + 1
      BY <1>3, <2>2, <3>1, <3>2, <3>4
    <3>5. QED BY <3>3, <3>4
  <2>6. Shown \cup {w} \subseteq All /\ \A v \in Shown \cup {w}, x \in All \ (Shown \cup {w}) : v < x
    <3>1. Shown \cup {w} \subseteq All
      BY <1>3, <2>3
    <3>2. ASSUME NEW v \in Shown \cup {w}, NEW x \in All \ (Shown \cup {w}) PROVE v < x
      <4>1. x \in Left /\ x # w
        BY <1>3
      <4>2. CASE v \in Shown
        BY <1>3, <4>1, <4>2
      <4>3. CASE v = w
        BY <2>1, <2>3, <4>1, <4>3
      <4>4. QED BY <4>2, <4>3
    <3>3. QED BY <3>1, <3>2
  <2> HIDE DEF All, Shown, Left
  <2>7. ShownInv'
    <3>1. pc' = "idle" => Len(results') = MAX_LIST
      BY <1>3, <2>1, <2>2, ListAssumption
    <3>2. pc' # "idle" => Len(results') < MAX_LIST
      BY <2>1
    <3>3. QED BY <1>4, <2>2, <2>5, <2>6, <3>1, <3>2 DEF ShownInv
  <2>8. PlacesInv'
    <3>1. Left \ {w} = All \ (Shown \cup {w})
      BY <1>3
    <3>2. QED BY <1>4, <2>1, <2>2, <2>3, <3>1 DEF PlacesInv
  <2>9. QED BY <1>7, <2>4, <2>7, <2>8 DEF MergeInv
<1>9. CASE po = NULL
  <2>1. pc' = "idle" /\ results' = results
    BY <1>9 DEF Insert
  <2>2. Shown = All
    BY <1>2, <1>3, <1>9
  <2>3. TypeOK'
    BY <1>1, <1>5, <2>1 DEF TypeOK, Placed
  <2>4. ShownInv' /\ PlacesInv'
    <3> HIDE DEF All, Shown, Left
    <3>1. ToSet(results') = Shown
      BY <2>1 DEF Shown
    <3>2. QED BY <1>3, <1>4, <2>1, <2>2, <3>1 DEF ShownInv, PlacesInv
  <2>5. QED BY <1>7, <2>3, <2>4 DEF MergeInv
<1>10. QED BY <1>8, <1>9

\* poGetNextWord begins from the last word shown: it is the least one left.
LEMMA PickedStep ==
    ASSUME TypeOK, MergeInv, Picked
    PROVE  TypeOK' /\ MergeInv'
<1>1. /\ pc = "next" /\ i > Len(sources) /\ i' = 1
      /\ pc' = IF po = NULL THEN "idle" ELSE "others"
      /\ UNCHANGED <<keys, page, iIndex, start, po, results>>
  BY DEF Picked
<1>2. /\ po # NULL => Pointed \in Remaining(iIndex) /\ PointsInto(Len(sources))
      /\ \A x \in Remaining(iIndex) : po # NULL /\ Pointed <= x
      /\ Remaining(iIndex) \subseteq Int
  BY <1>1, LeastPointed DEF MergeInv
<1> DEFINE w == Last(results)
           Left == Remaining(start) \ ToSet(results)
<1>3. /\ results # <<>> /\ w \in Remaining(iIndex) /\ Remaining(iIndex) \ {w} = Left
      /\ \A v \in ToSet(results), x \in Left : v < x
      /\ results \in Seq(Words)
  BY <1>1 DEF MergeInv, PlacesInv, ShownInv, TypeOK
<1>4. w \in ToSet(results)
  <2>1. Len(results) \in DOMAIN results
    BY <1>3
  <2>2. QED BY <2>1 DEF Last, ToSet
<1>5. po # NULL /\ Pointed = w
  <2>1. po # NULL /\ Pointed <= w /\ Pointed \in Remaining(iIndex) /\ w \in Int /\ Pointed \in Int
    BY <1>2, <1>3
  <2>2. Pointed # w => w < Pointed
    BY <1>3, <1>4, <2>1
  <2>3. QED BY <2>1, <2>2
<1>6. pc' = "others"
  BY <1>1, <1>5
<1>7. TypeOK'
  BY <1>1, <1>6, SourceFacts DEF TypeOK, Placed
<1>8. OthersInv'
  <2>1. 1..i' - 1 = {}
    BY <1>1
  <2>2. PointsInto(Len(sources))' /\ Pointed' = Pointed
    BY <1>1, <1>2, <1>5 DEF PointsInto, PointerTo, Usable, PageOf, Pointed
  <2>3. QED BY <1>1, <1>5, <2>1, <2>2 DEF OthersInv
<1>9. ScanInv' /\ ShownInv' /\ PlacesInv'
  BY <1>1, <1>6 DEF ScanInv, MergeInv, ShownInv, PlacesInv, Remaining
<1>10. QED BY <1>7, <1>8, <1>9 DEF MergeInv

-----------------------------------------------------------------------------
(* poGetNextWord: every list is moved past the word.                       *)

\* Moving one list past the word leaves what all are to give, but for the word.
LEMMA RemainingAdvance ==
    ASSUME TypeOK, NEW s \in Sources, Usable(s), GetWordNext(s), keys' = keys
    PROVE  Remaining(iIndex)' \ {WordAt(s)} = Remaining(iIndex) \ {WordAt(s)}
<1> DEFINE w == WordAt(s)
<1>1. /\ iIndex' \in [Sources -> Int]
      /\ \A r \in Sources \ {s} : iIndex'[r] = iIndex[r]
      /\ \A x : x # w => (Gives(iIndex', s, x) <=> Gives(iIndex, s, x))
  BY AdvanceFacts
<1> HIDE DEF w
<1>2. \A r \in Sources : \A x : x # w => (Gives(iIndex', r, x) <=> Gives(iIndex, r, x))
  <2>1. \A r \in Sources \ {s} : \A x : Gives(iIndex', r, x) <=> Gives(iIndex, r, x)
    BY <1>1 DEF Gives
  <2>2. QED BY <1>1, <2>1
<1>3. Remaining(iIndex)' = Remaining(iIndex')
  BY DEF Remaining
<1>4. \A x : x # w => (x \in Remaining(iIndex') <=> x \in Remaining(iIndex))
  BY <1>2, RemainingIs
<1>5. QED BY <1>3, <1>4 DEF w

LEMMA OthersStep ==
    ASSUME TypeOK, MergeInv, Others
    PROVE  TypeOK' /\ MergeInv'
<1> DEFINE s == sources[i]
           w == Last(results)
           Left == Remaining(start) \ ToSet(results)
<1>1. /\ pc = "others" /\ i \in 1..Len(sources) /\ i' = i + 1
      /\ UNCHANGED <<keys, start, po, pc, results>>
      /\ \/ /\ s # po.list /\ Usable(s) /\ WordAt(s) = Pointed
            /\ GetWordNext(s)
         \/ /\ s # po.list /\ Usable(s) /\ WordAt(s) # Pointed
            /\ page' = [page EXCEPT ![s] = PageOf(iIndex[s])]
            /\ UNCHANGED iIndex
         \/ /\ s = po.list \/ ~Usable(s)
            /\ UNCHANGED <<page, iIndex>>
  BY SourceFacts DEF Others, TypeOK
<1>2. s \in Sources /\ Len(sources) \in Nat /\ \A j \in 1..Len(sources) : sources[j] \in Sources
  BY <1>1, SourceFacts
<1>3. /\ PointsInto(Len(sources)) /\ Pointed = w
      /\ \A j \in 1..i - 1 : Usable(sources[j]) /\ sources[j] # po.list
                             => w < WordAt(sources[j])
  BY <1>1 DEF MergeInv, OthersInv
<1>4. /\ po # NULL /\ po.list \in Sources /\ Usable(po.list) /\ po.at = iIndex[po.list]
      /\ w = WordAt(po.list) /\ w \in Int /\ page[po.list] = PageOf(po.at)
  BY <1>3, PointerFacts, GivesFacts
<1>5. /\ results # <<>> /\ w \in Remaining(iIndex) /\ Remaining(iIndex) \ {w} = Left
      /\ \A v \in ToSet(results), x \in Left : v < x
      /\ results \in Seq(Words)
  BY <1>1 DEF MergeInv, PlacesInv, ShownInv, TypeOK
<1>6. w \in ToSet(results)
  <2>1. Len(results) \in DOMAIN results
    BY <1>5
  <2>2. QED BY <2>1 DEF Last, ToSet
<1>7. \A x \in Remaining(iIndex) : x # w => w < x
  BY <1>5, <1>6
\* What the three alternatives have in common.
<1>8. /\ iIndex' \in [Sources -> Int] /\ page' \in [Sources -> Int]
      /\ \A r \in Sources \ {s} : iIndex'[r] = iIndex[r]
      /\ iIndex'[po.list] = iIndex[po.list] /\ page'[po.list] = page[po.list]
      /\ iIndex'[s] \in Positions(keys[s]) \/ iIndex'[s] < 0
      /\ iIndex'[s] \in Positions(keys[s]) /\ s # po.list => w < KeyAt(keys[s], iIndex'[s])
      /\ Remaining(iIndex)' \ {w} = Left
  <2>1. /\ iIndex \in [Sources -> Int] /\ page \in [Sources -> Int]
        /\ iIndex[s] \in Positions(keys[s]) \/ iIndex[s] < 0
    BY <1>2 DEF TypeOK, Placed
  <2>2. CASE s # po.list /\ Usable(s) /\ WordAt(s) = Pointed /\ GetWordNext(s)
    <3>1. Remaining(iIndex)' \ {w} = Remaining(iIndex) \ {w}
      BY <1>1, <1>2, <1>3, <2>2, RemainingAdvance
    <3>2. /\ iIndex' \in [Sources -> Int] /\ page' \in [Sources -> Int]
          /\ \A r \in Sources \ {s} : iIndex'[r] = iIndex[r] /\ page'[r] = page[r]
          /\ iIndex'[s] \in Positions(keys[s]) \/ iIndex'[s] < 0
          /\ iIndex'[s] \in Positions(keys[s]) => WordAt(s) < KeyAt(keys[s], iIndex'[s])
      BY <1>2, <2>2, AdvanceFacts
    <3> HIDE DEF s, w, Left
    <3>3. QED BY <1>3, <1>4, <1>5, <2>2, <3>1, <3>2
  <2>3. CASE UNCHANGED iIndex /\ s # po.list /\ Usable(s) /\ WordAt(s) # Pointed
             /\ page' = [page EXCEPT ![s] = PageOf(iIndex[s])]
    <3>1. w < WordAt(s)
      <4>1. WordAt(s) \in Remaining(iIndex)
        BY <1>2, <2>3, GivesFacts, RemainingIs
      <4>2. QED BY <1>3, <1>7, <2>3, <4>1
    <3>2. PageOf(iIndex[s]) \in Int
      BY <1>2, <2>1, PageAssumption DEF PageOf
    <3>3. Remaining(iIndex)' = Remaining(iIndex)
      BY <1>1, <2>3 DEF Remaining
    <3>4. page' \in [Sources -> Int] /\ page'[po.list] = page[po.list]
      BY <1>2, <1>4, <2>1, <2>3, <3>2
    <3>5. WordAt(s) = KeyAt(keys[s], iIndex'[s])
      BY <2>3 DEF WordAt
    <3> HIDE DEF s, w, Left
    <3>6. QED BY <1>5, <2>1, <2>3, <3>1, <3>3, <3>4, <3>5
  <2>4. CASE (s = po.list \/ ~Usable(s)) /\ UNCHANGED <<page, iIndex>>
    <3>1. Remaining(iIndex)' = Remaining(iIndex)
      BY <1>1, <2>4 DEF Remaining
    <3>2. iIndex'[s] \in Positions(keys[s]) => s = po.list
      BY <2>4 DEF Usable
    <3> HIDE DEF s, w, Left
    <3>3. QED BY <1>5, <2>1, <2>4, <3>1, <3>2
  <2>5. QED BY <1>1, <2>2, <2>3, <2>4
<1>9. TypeOK'
  <2>1. \A r \in Sources : iIndex'[r] \in Positions(keys[r]) \/ iIndex'[r] < 0
    BY <1>8 DEF TypeOK, Placed
  <2>2. Placed(iIndex)' /\ Placed(start)'
    BY <1>1, <2>1 DEF TypeOK, Placed
  <2>3. i' \in 1..Len(sources) + 1
    BY <1>1, <1>2
  <2>4. QED BY <1>1, <1>8, <2>2, <2>3 DEF TypeOK
<1>10. PointsInto(Len(sources))' /\ Pointed' = Pointed
  <2>1. PICK j \in 1..Len(sources) : po = PointerTo(sources[j])
    BY <1>3 DEF PointsInto
  <2>2. po.list = sources[j] /\ Len(sources)' = Len(sources)
    BY <2>1 DEF PointerTo
  <2>3. /\ po' = [list |-> sources[j], at |-> iIndex'[sources[j]]]
        /\ iIndex'[sources[j]] \in Positions(keys'[sources[j]])
        /\ page'[sources[j]] = PageOf(iIndex'[sources[j]])
    BY <1>1, <1>4, <1>8, <2>1, <2>2 DEF PointerTo, Usable
  <2>4. Pointed' = Pointed
    BY <1>1 DEF Pointed
  <2>5. QED BY <2>2, <2>3, <2>4 DEF PointsInto, PageOf, PointerTo, Usable
<1>11. OthersInv'
  <2>1. ASSUME NEW j \in 1..i' - 1, Usable(sources[j])', sources[j] # po.list
        PROVE  w < WordAt(sources[j])'
    <3>1. j \in 1..i - 1 \/ j = i
      BY <1>1
    <3>2. sources[j] \in Sources /\ (j \in 1..i - 1 => sources[j] # s)
      BY <1>1, <1>2, SourceFacts
    <3>3. CASE j \in 1..i - 1
      <4>1. iIndex'[sources[j]] = iIndex[sources[j]]
        BY <1>8, <3>2, <3>3
      <4>2. Usable(sources[j]) /\ WordAt(sources[j])' = WordAt(sources[j])
        BY <1>1, <2>1, <4>1 DEF Usable, WordAt
      <4>3. QED BY <1>3, <2>1, <3>3, <4>2
    <3>4. CASE j = i
      BY <1>1, <1>8, <2>1, <3>4 DEF Usable, WordAt
    <3>5. QED BY <3>1, <3>3, <3>4
  <2>2. QED BY <1>1, <1>3, <1>4, <1>10, <2>1 DEF OthersInv
<1>12. ShownInv' /\ ScanInv'
  BY <1>1 DEF MergeInv, ShownInv, ScanInv, Remaining
<1>13. PlacesInv'
  <2>1. w \in Remaining(iIndex')
    <3>1. po.list \in Sources /\ iIndex'[po.list] = iIndex[po.list]
          /\ Gives(iIndex, po.list, w)
      BY <1>4, <1>8, GivesFacts
    <3>2. Gives(iIndex', po.list, w)
      BY <3>1 DEF Gives
    <3>3. QED BY <3>1, <3>2, RemainingIs
  <2>2. Remaining(iIndex)' = Remaining(iIndex') /\ Remaining(start)' = Remaining(start)
    BY <1>1 DEF Remaining
  <2>3. QED BY <1>1, <1>5, <1>8, <2>1, <2>2 DEF PlacesInv
<1>14. QED BY <1>9, <1>11, <1>12, <1>13 DEF MergeInv

\* After the last list no list is still to give the word.
LEMMA SelfStep ==
    ASSUME TypeOK, MergeInv, Self
    PROVE  TypeOK' /\ MergeInv'
<1> DEFINE s == po.list
           w == Last(results)
           Left == Remaining(start) \ ToSet(results)
<1>1. /\ pc = "others" /\ i > Len(sources) /\ GetWordNext(s)
      /\ po' = NULL /\ pc' = "current" /\ i' = 1
      /\ UNCHANGED <<keys, start, results>>
  BY DEF Self
<1>2. i - 1 = Len(sources) /\ Len(sources) \in Nat
  BY <1>1, SourceFacts DEF TypeOK
<1>3. /\ PointsInto(Len(sources)) /\ Pointed = w
      /\ \A j \in 1..i - 1 : Usable(sources[j]) /\ sources[j] # po.list
                             => w < WordAt(sources[j])
      /\ Remaining(iIndex) \ {w} = Left
  BY <1>1 DEF MergeInv, OthersInv, PlacesInv
<1>4. s \in Sources /\ Usable(s) /\ w = WordAt(s) /\ w \in Int
  BY <1>3, PointerFacts, GivesFacts
<1>5. /\ iIndex' \in [Sources -> Int] /\ page' \in [Sources -> Int]
      /\ \A r \in Sources \ {s} : iIndex'[r] = iIndex[r]
      /\ iIndex'[s] \in Positions(keys[s]) \/ iIndex'[s] < 0
      /\ ~Gives(iIndex', s, w)
  BY <1>1, <1>4, AdvanceFacts
<1>6. Remaining(iIndex)' \ {w} = Left
  BY <1>1, <1>3, <1>4, RemainingAdvance
<1>7. w \notin Remaining(iIndex)'
  <2>1. ASSUME NEW r \in Sources, Gives(iIndex', r, w) PROVE FALSE
    <3>1. r # s
      BY <1>5, <2>1
    <3>2. Gives(iIndex, r, w)
      BY <1>5, <2>1, <3>1 DEF Gives
    <3>3. Usable(r) /\ WordAt(r) <= w /\ WordAt(r) \in Int
      BY <3>2, GivesFacts
    <3>4. PICK j \in 1..i - 1 : sources[j] = r
      BY <1>2, SourceFacts
    <3>5. w < WordAt(r)
      BY <1>3, <3>1, <3>3, <3>4
    <3>6. QED BY <1>4, <3>3, <3>5
  <2>2. Remaining(iIndex)' = Remaining(iIndex')
    BY <1>1 DEF Remaining
  <2>3. QED BY <2>1, <2>2, RemainingIs
<1>8. TypeOK'
  <2>1. Placed(iIndex)' /\ Placed(start)'
    BY <1>1, <1>5 DEF TypeOK, Placed
  <2>2. QED BY <1>1, <1>5, <2>1, SourceFacts DEF TypeOK
<1>9. PlacesInv'
  <2>1. Remaining(start)' = Remaining(start)
    BY <1>1 DEF Remaining
  <2>2. QED BY <1>1, <1>6, <1>7, <2>1 DEF PlacesInv
<1>10. ScanInv'
  <2>1. 1..i' - 1 = {}
    BY <1>1
  <2>2. QED BY <1>1, <2>1 DEF ScanInv
<1>11. ShownInv' /\ OthersInv'
  BY <1>1 DEF MergeInv, ShownInv, OthersInv, Remaining
<1>12. QED BY <1>8, <1>9, <1>10, <1>11 DEF MergeInv

-----------------------------------------------------------------------------
(* The start of a list, and the theorems.                                  *)

\* A search leaves every list at one of its words or with a mark.
LEMMA FoundPlaced ==
    ASSUME TypeOK, NEW s \in Sources, NEW str \in Words, NEW similar \in Words
    PROVE  LET f == Found(s, str, similar)
           IN  f \in Int /\ (f \in Positions(keys[s]) \/ f < 0)
<1> DEFINE ks == keys[s]
           w == IF str \in ToSet(ks) THEN str ELSE IF similar \in ToSet(ks) THEN similar ELSE str
           Answers == Outcomes(ks, w)
           K == {o[2] : o \in Answers}
           Equal == {k \in Positions(ks) : KeyAt(ks, k) = w}
           Least == CHOOSE k \in K : \A o \in Answers : k <= o[2]
<1>1. \A x : x \in K <=> \E o \in Answers : o[2] = x
  OBVIOUS
<1>2. /\ \A k \in Positions(ks) : k \in Nat /\ KeyAt(ks, k) \in Int
      /\ Positions(ks) = 0..Len(ks) - 1 /\ Len(ks) \in Nat
      /\ w \in Int
  BY ListFacts, WordsAssumption
<1>3. Found(s, str, similar) = IF ks = <<>> THEN UNSET_INDEX ELSE Least
  BY DEF Found
<1>4. /\ K \subseteq Positions(ks) \cup {INVALID_INDEX}
      /\ \E k \in K : \A l \in K : k <= l
  <2>1. CASE Equal # {}
    <3>1. \A o : o \in Answers <=> \E k \in Equal : o = <<TRUE, k>>
      BY <2>1 DEF Outcomes
    <3>2. K = Equal
      <4> HIDE DEF Equal, Answers, K
      <4>1. ASSUME NEW k \in Equal PROVE k \in K
        <5>1. <<TRUE, k>> \in Answers /\ <<TRUE, k>>[2] = k
          BY <3>1
        <5>2. QED BY <1>1, <5>1
      <4>2. ASSUME NEW x \in K PROVE x \in Equal
        <5>1. PICK o \in Answers : o[2] = x
          BY <1>1
        <5>2. PICK k \in Equal : o = <<TRUE, k>>
          BY <3>1
        <5>3. QED BY <5>1, <5>2
      <4>3. QED BY <4>1, <4>2
    <3>3. Equal \in SUBSET Nat /\ Equal \subseteq Positions(ks)
      BY <1>2
    <3> HIDE DEF Equal, K
    <3>4. QED BY <2>1, <3>2, <3>3, LeastNat
  <2>2. CASE Equal = {} /\ \A k \in Positions(ks) : KeyAt(ks, k) < w
    <3>1. \A o : o \in Answers <=> o = <<FALSE, INVALID_INDEX>>
      BY <2>2 DEF Outcomes
    <3>2. K = {INVALID_INDEX} /\ INVALID_INDEX \in Int
      <4> HIDE DEF Answers, K
      <4>1. <<FALSE, INVALID_INDEX>>[2] = INVALID_INDEX
        OBVIOUS
      <4>2. K = {INVALID_INDEX}
        BY <1>1, <3>1, <4>1
      <4>3. QED BY <4>2 DEF INVALID_INDEX
    <3> HIDE DEF K
    <3>3. QED BY <3>2
  <2>3. CASE Equal = {} /\ ~ \A k \in Positions(ks) : KeyAt(ks, k) < w
    <3> DEFINE Greater == {p \in Positions(ks) : KeyAt(ks, p) > w}
               First == {p \in Positions(ks) :
                           KeyAt(ks, p) > w /\ \A q \in 0..p - 1 : KeyAt(ks, q) < w}
    <3>1. \A p \in Positions(ks) : KeyAt(ks, p) < w \/ KeyAt(ks, p) > w
      BY <1>2, <2>3
    <3>2. Greater # {} /\ Greater \in SUBSET Nat
      BY <1>2, <2>3, <3>1
    <3>3. PICK p \in Greater : \A q \in Greater : p <= q
      BY <3>2, LeastNat
    <3>4. \A q \in 0..p - 1 : KeyAt(ks, q) < w
      <4>1. ASSUME NEW q \in 0..p - 1 PROVE KeyAt(ks, q) < w
        <5>1. q \in Positions(ks) /\ ~(p <= q) /\ p \in Nat
          BY <1>2
        <5>2. q \notin Greater
          BY <3>3, <5>1
        <5>3. QED BY <3>1, <5>1, <5>2
      <4>2. QED BY <4>1
    <3>5. p \in First
      BY <3>4
    <3>6. \A o : o \in Answers <=> \E k \in First : o = <<FALSE, k>>
      BY <2>3 DEF Outcomes
    <3>7. K = First
      <4> HIDE DEF First, Answers, K
      <4>1. ASSUME NEW k \in First PROVE k \in K
        <5>1. <<FALSE, k>> \in Answers /\ <<FALSE, k>>[2] = k
          BY <3>6
        <5>2. QED BY <1>1, <5>1
      <4>2. ASSUME NEW x \in K PROVE x \in First
        <5>1. PICK o \in Answers : o[2] = x
          BY <1>1
        <5>2. PICK k \in First : o = <<FALSE, k>>
          BY <3>6
        <5>3. QED BY <5>1, <5>2
      <4>3. QED BY <4>1, <4>2
    <3>8. First \in SUBSET Nat /\ First \subseteq Positions(ks)
      BY <1>2
    <3> HIDE DEF First, K
    <3>9. QED BY <3>5, <3>7, <3>8, LeastNat
  <2>4. QED BY <2>1, <2>2, <2>3
<1>5. Least \in K
  <2>1. \A o \in Answers : o[2] \in K
    OBVIOUS
  <2> HIDE DEF Answers, K
  <2>2. \E k \in K : \A o \in Answers : k <= o[2]
    BY <1>4, <2>1
  <2>3. QED BY <2>2
<1> HIDE DEF Least, K
<1>6. QED BY <1>2, <1>3, <1>4, <1>5 DEF UNSET_INDEX, INVALID_INDEX

LEMMA SearchStep ==
    ASSUME TypeOK, MergeInv, NEW str \in Words, NEW similar \in [Sources -> Words],
           Search(str, similar)
    PROVE  TypeOK' /\ MergeInv'
<1>1. /\ iIndex' = [s \in Sources |-> Found(s, str, similar[s])] /\ start' = iIndex'
      /\ page' = [s \in Sources |-> IF iIndex'[s] >= 0 THEN PageOf(iIndex'[s]) ELSE page[s]]
      /\ po' = NULL /\ results' = <<>> /\ pc' = "current" /\ i' = 1 /\ keys' = keys
  BY DEF Search
<1>2. \A s \in Sources : /\ Found(s, str, similar[s]) \in Int
                         /\ \/ Found(s, str, similar[s]) \in Positions(keys[s])
                            \/ Found(s, str, similar[s]) < 0
  BY FoundPlaced
<1>3. iIndex' \in [Sources -> Int] /\ page \in [Sources -> Int]
      /\ \A s \in Sources : iIndex'[s] \in Positions(keys[s]) \/ iIndex'[s] < 0
  BY <1>1, <1>2 DEF TypeOK
<1>4. page' \in [Sources -> Int]
  <2>1. \A s \in Sources : PageOf(iIndex'[s]) \in Int
    BY <1>3, PageAssumption DEF PageOf
  <2>2. QED BY <1>1, <1>3, <2>1
<1>5. Len(results') = 0 /\ results' \in Seq(Words) /\ ToSet(results') = {}
      /\ DOMAIN results' = {}
  BY <1>1 DEF ToSet
<1>6. TypeOK'
  <2>1. Placed(iIndex)' /\ Placed(start)'
    BY <1>1, <1>3 DEF Placed
  <2>2. QED BY <1>1, <1>3, <1>4, <1>5, <2>1, SourceFacts, ListAssumption DEF TypeOK
<1>7. ScanInv' /\ OthersInv'
  <2>1. 1..i' - 1 = {}
    BY <1>1
  <2>2. QED BY <1>1, <2>1 DEF ScanInv, OthersInv
<1>8. ShownInv' /\ PlacesInv'
  <2>1. Remaining(iIndex)' = Remaining(start)'
    BY <1>1 DEF Remaining
  <2>2. QED BY <1>1, <1>5, <2>1, ListAssumption DEF ShownInv, PlacesInv
<1>9. QED BY <1>6, <1>7, <1>8 DEF MergeInv

LEMMA MergeInit == Init => TypeOK /\ MergeInv
<1> SUFFICES ASSUME Init PROVE TypeOK /\ MergeInv
  OBVIOUS
<1>1. /\ keys \in [Sources -> SortedLists(Words, MaxCount) \cup {<<>>}]
      /\ page = [s \in Sources |-> IF keys[s] = <<>> THEN UNSET_INDEX
                                   ELSE PageOf(Len(keys[s]) - 1)]
      /\ iIndex = [s \in Sources |-> UNSET_INDEX] /\ start = iIndex
      /\ po = NULL /\ pc = "idle" /\ i = 1 /\ results = <<>>
  BY DEF Init
<1>2. \A ks \in SortedLists(Words, MaxCount) \cup {<<>>} : ks \in Seq(Words) /\ Sorted(ks)
  <2>1. ASSUME NEW ks \in SortedLists(Words, MaxCount) PROVE ks \in Seq(Words) /\ Sorted(ks)
    <3>1. PICK m \in 1..MaxCount : ks \in [1..m -> Words]
      BY <2>1 DEF SortedLists
    <3>2. ks \in Seq(Words)
      BY <3>1, MaxCountAssumption
    <3>3. QED BY <2>1, <3>2 DEF SortedLists
  <2>2. <<>> \in Seq(Words) /\ Sorted(<<>>)
    BY DEF Sorted
  <2>3. QED BY <2>1, <2>2
<1>3. keys \in [Sources -> Seq(Words)] /\ \A s \in Sources : Sorted(keys[s])
  BY <1>1, <1>2
<1>4. page \in [Sources -> Int]
  <2>1. \A s \in Sources : PageOf(Len(keys[s]) - 1) \in Int
    <3>1. ASSUME NEW s \in Sources PROVE PageOf(Len(keys[s]) - 1) \in Int
      <4>1. Len(keys[s]) \in Nat
        BY <1>3
      <4>2. QED BY <4>1, PageAssumption DEF PageOf
    <3>2. QED BY <3>1
  <2>2. QED BY <1>1, <2>1 DEF UNSET_INDEX
<1>5. iIndex \in [Sources -> Int] /\ \A s \in Sources : iIndex[s] < 0 /\ ~(0 <= iIndex[s])
  BY <1>1 DEF UNSET_INDEX
<1>6. Len(results) = 0 /\ results \in Seq(Words) /\ ToSet(results) = {}
      /\ DOMAIN results = {}
  BY <1>1 DEF ToSet
<1>7. TypeOK
  <2>1. Placed(iIndex) /\ Placed(start)
    BY <1>1, <1>5 DEF Placed
  <2>2. QED BY <1>1, <1>3, <1>4, <1>5, <1>6, <2>1, SourceFacts, ListAssumption DEF TypeOK
<1>8. Remaining(start) = {}
  <2>1. \A s \in Sources : \A w : ~Gives(start, s, w)
    BY <1>1, <1>5 DEF Gives
  <2>2. QED BY <2>1, RemainingIs
<1>9. ScanInv /\ OthersInv /\ ShownInv /\ PlacesInv
  BY <1>1, <1>6, <1>8 DEF ScanInv, OthersInv, ShownInv, PlacesInv
<1>10. QED BY <1>7, <1>9 DEF MergeInv

LEMMA MergeStep == TypeOK /\ MergeInv /\ [Next]_vars => TypeOK' /\ MergeInv'
<1> SUFFICES ASSUME TypeOK, MergeInv, [Next]_vars PROVE TypeOK' /\ MergeInv'
  OBVIOUS
<1>1. CASE Step
  BY <1>1, ScanStep, InsertStep, PickedStep, OthersStep, SelfStep DEF Step
<1>2. CASE \E str \in Words, similar \in [Sources -> Words] : Search(str, similar)
  BY <1>2, SearchStep
<1>3. CASE UNCHANGED vars
  <2>1. UNCHANGED <<keys, page, iIndex, start, po, pc, i, results>>
    BY <1>3 DEF vars
  <2>2. TypeOK'
    BY <2>1 DEF TypeOK, Placed
  <2>3. ScanInv' /\ OthersInv'
    BY <2>1 DEF MergeInv, ScanInv, OthersInv, PointsInto, PointerTo, Usable, WordAt, Pointed,
                PageOf
  <2>4. Remaining(iIndex)' = Remaining(iIndex) /\ Remaining(start)' = Remaining(start)
    BY <2>1 DEF Remaining
  <2>5. ShownInv'
    BY <2>1, <2>4 DEF MergeInv, ShownInv
  <2>6. PlacesInv'
    BY <2>1, <2>4 DEF MergeInv, PlacesInv
  <2>7. QED BY <2>2, <2>3, <2>5, <2>6 DEF MergeInv
<1>4. QED BY <1>1, <1>2, <1>3 DEF Next

\* The types, and how far the merge has come at each of its steps.
THEOREM MergeCorrect == Spec => [](TypeOK /\ MergeInv)
BY MergeInit, MergeStep, PTL DEF Spec

\* However the lists share words and pages, poCurrentWord is not overwritten while
\* it is used: its list is the last to be moved.
THEOREM PointerCorrect == Spec => []PointerValid
<1>1. TypeOK /\ MergeInv => PointerValid
  <2>1. SUFFICES ASSUME TypeOK, MergeInv, po # NULL PROVE page[po.list] = PageOf(po.at)
    BY DEF PointerValid
  <2>2. PointsInto(i - 1) \/ PointsInto(Len(sources))
    BY <2>1 DEF TypeOK, MergeInv, ScanInv, OthersInv
  <2>3. QED BY <2>1, <2>2, PointerFacts
<1>2. QED BY <1>1, MergeCorrect, PTL

\* The merge shows the next words of all lists, each once and in order, and stops
\* early only when the list is full.
THEOREM ListCorrect == Spec => []ListExact
<1>1. TypeOK /\ MergeInv => ListExact
  BY DEF TypeOK, MergeInv, ShownInv, PlacesInv, ListExact, PlacesConsistent
<1>2. QED BY <1>1, MergeCorrect, PTL
=============================================================================
