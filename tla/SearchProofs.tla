---------------------------- MODULE SearchProofs ----------------------------
(***************************************************************************)
(* What the search window lists, for any dictionaries, texts and matches:  *)
(* the searches that run under each other stay where their dictionaries    *)
(* are and find what they should, patterns list every match once and in    *)
(* order, an escaped word is read as it is, and the slots of the fuzzy     *)
(* search keep the nearest words.                                          *)
(***************************************************************************)
EXTENDS SearchWindow, FuzzyMatch, FiniteSetTheorems, SequenceTheorems,
        WellFoundedInduction, TLAPS

-----------------------------------------------------------------------------
(* Numbers and loops.  A loop of the code is a recursive function on the   *)
(* number of its iterations: LoopExists gives one that makes the steps of  *)
(* any body, as its induction is on numbers, and each loop of the model is *)
(* shown to be that of its body.                                           *)

\* A set of numbers has a least one.
LEMMA LeastNat ==
    ASSUME NEW T \in SUBSET Nat, T # {}
    PROVE  \E x \in T : \A y \in T : x <= y
<1> DEFINE R == OpToRel(<, Nat)
<1>1. IsWellFoundedOn(R, Nat)
  BY NatLessThanWellFounded
<1>2. \A x, y \in Nat : <<y, x>> \in R <=> y < x
  BY DEF OpToRel
<1> HIDE DEF R
<1>3. PICK x \in T : \A y \in T : ~ (<<y, x>> \in R)
  BY <1>1, WFMin
<1>4. ASSUME NEW y \in T PROVE x <= y
  <2>1. x \in Nat /\ y \in Nat
    OBVIOUS
  <2>2. ~ (y < x)
    BY <1>2, <1>3, <2>1
  <2>3. QED BY <2>1, <2>2
<1>5. QED BY <1>4

\* Induction up to n: what holds of 0, and of k + 1 if of k, is said by a set.
LEMMA CountUp ==
    ASSUME NEW n \in Nat, NEW T, 0 \in T, \A k \in 0..n - 1 : k \in T => k + 1 \in T
    PROVE  n \in T /\ \A k \in 0..n : k \in T
<1> DEFINE Bad == {k \in 0..n : k \notin T}
<1>1. SUFFICES ASSUME Bad # {} PROVE FALSE
  OBVIOUS
<1>2. PICK x \in Bad : \A y \in Bad : x <= y
  <2>1. Bad \in SUBSET Nat
    OBVIOUS
  <2> HIDE DEF Bad
  <2>2. QED BY <1>1, <2>1, LeastNat
<1>3. x - 1 \in 0..n - 1
  OBVIOUS
<1>4. x - 1 \in T
  BY <1>2, <1>3
<1>5. x - 1 + 1 = x
  OBVIOUS
<1>6. QED BY <1>3, <1>4, <1>5

\* What a loop has computed after each of n iterations of its body step.
IsLoop(f, n, base, step) == f[0] = base /\ \A k \in 1..n : f[k] = step[k][f[k - 1]]

\* There is such a loop, and its values are those the body computes.
LEMMA LoopExists ==
    ASSUME NEW n \in Nat, NEW V, NEW base \in V, NEW step \in [1..n -> [V -> V]]
    PROVE  \E f \in [0..n -> V] : IsLoop(f, n, base, step)
<1> DEFINE T == {m \in 0..n : \E f \in [0..m -> V] : IsLoop(f, m, base, step)}
<1>1. 0 \in T
  <2> DEFINE f == [k \in 0..0 |-> base]
  <2>1. f \in [0..0 -> V] /\ f[0] = base
    OBVIOUS
  <2>2. IsLoop(f, 0, base, step)
    BY <2>1 DEF IsLoop
  <2>3. QED BY <2>1, <2>2
<1>2. ASSUME NEW m \in 0..n - 1, m \in T PROVE m + 1 \in T
  <2>1. PICK f \in [0..m -> V] : IsLoop(f, m, base, step)
    BY <1>2
  <2> DEFINE g == [k \in 0..m + 1 |-> IF k <= m THEN f[k] ELSE step[m + 1][f[m]]]
  <2>2. step[m + 1][f[m]] \in V
    <3>1. m + 1 \in 1..n /\ m \in 0..m
      OBVIOUS
    <3>2. f[m] \in V /\ step[m + 1] \in [V -> V]
      BY <2>1, <3>1
    <3>3. QED BY <3>2
  <2>3. g \in [0..m + 1 -> V]
    <3>1. ASSUME NEW k \in 0..m + 1 PROVE (IF k <= m THEN f[k] ELSE step[m + 1][f[m]]) \in V
      BY <2>1, <2>2
    <3>2. QED BY <3>1
  <2>4. \A k \in 0..m : g[k] = f[k]
    OBVIOUS
  <2>5. g[m + 1] = step[m + 1][f[m]]
    <3>1. m + 1 \in 0..m + 1 /\ ~(m + 1 <= m)
      OBVIOUS
    <3>2. QED BY <3>1
  <2> HIDE DEF g
  <2>6. ASSUME NEW k \in 1..m + 1 PROVE g[k] = step[k][g[k - 1]]
    <3>1. CASE k \in 1..m
      <4>1. k \in 0..m /\ k - 1 \in 0..m
        BY <3>1
      <4>2. f[k] = step[k][f[k - 1]]
        BY <2>1, <3>1 DEF IsLoop
      <4>3. QED BY <2>4, <4>1, <4>2
    <3>2. CASE k = m + 1
      <4>1. k - 1 = m /\ m \in 0..m
        BY <3>2
      <4>2. QED BY <2>4, <2>5, <3>2, <4>1
    <3>3. QED BY <3>1, <3>2
  <2>7. g[0] = base
    BY <2>1, <2>4 DEF IsLoop
  <2>8. IsLoop(g, m + 1, base, step)
    BY <2>6, <2>7 DEF IsLoop
  <2>9. m + 1 \in 0..n
    OBVIOUS
  <2>10. QED BY <2>3, <2>8, <2>9
<1> HIDE DEF T
<1>3. n \in T
  BY <1>1, <1>2, CountUp
<1>4. QED BY <1>3 DEF T

-----------------------------------------------------------------------------
(* Words that match: FirstMatches, AddNew, Matches.                        *)

\* One iteration of the loop over an index.
Hit(hits, w, pattern, iBuffLen) ==
    IF Len(hits) < iBuffLen - 1 /\ w \in Matching[pattern] THEN Append(hits, w) ELSE hits

IsHits(f, pattern, index, iBuffLen) ==
    f = [k \in 0..Len(index) |->
            IF k = 0 THEN <<>>
            ELSE IF Len(f[k - 1]) < iBuffLen - 1 /\ index[k] \in Matching[pattern]
                 THEN Append(f[k - 1], index[k])
                 ELSE f[k - 1]]

\* f is what the loop of FirstMatches has collected after each word.
HitRun(f, D, pattern, index, iBuffLen) ==
    /\ f \in [0..Len(index) -> Seq(D)]
    /\ FirstMatches(pattern, index, iBuffLen) = f[Len(index)]
    /\ f[0] = <<>>
    /\ \A k \in 1..Len(index) : f[k] = Hit(f[k - 1], index[k], pattern, iBuffLen)

\* The loop of FirstMatches, step by step.
LEMMA HitSteps ==
    ASSUME NEW D, NEW pattern, NEW index \in Seq(D), NEW iBuffLen
    PROVE  \E f : HitRun(f, D, pattern, index, iBuffLen)
<1> DEFINE n == Len(index)
           step == [k \in 1..n |-> [l \in Seq(D) |-> Hit(l, index[k], pattern, iBuffLen)]]
<1>1. n \in Nat /\ \A k \in 1..n : index[k] \in D
  OBVIOUS
<1>2. step \in [1..n -> [Seq(D) -> Seq(D)]]
  <2>1. ASSUME NEW k \in 1..n, NEW l \in Seq(D)
        PROVE  Hit(l, index[k], pattern, iBuffLen) \in Seq(D)
    BY <1>1 DEF Hit
  <2>2. QED BY <2>1
<1>3. <<>> \in Seq(D)
  OBVIOUS
<1>4. \A k \in 1..n, l \in Seq(D) : step[k][l] = Hit(l, index[k], pattern, iBuffLen)
  OBVIOUS
<1> HIDE DEF n, step
<1>5. PICK f \in [0..n -> Seq(D)] : IsLoop(f, n, <<>>, step)
  BY <1>1, <1>2, <1>3, LoopExists
<1>6. f[0] = <<>> /\ \A k \in 1..n : f[k] = Hit(f[k - 1], index[k], pattern, iBuffLen)
  <2>1. \A k \in 1..n : f[k - 1] \in Seq(D)
    BY <1>1
  <2>2. QED BY <1>4, <1>5, <2>1 DEF IsLoop
<1>7. \A k \in 0..n :
         f[k] = IF k = 0 THEN <<>>
                ELSE IF Len(f[k - 1]) < iBuffLen - 1 /\ index[k] \in Matching[pattern]
                     THEN Append(f[k - 1], index[k])
                     ELSE f[k - 1]
  <2>1. \A k \in 0..n : k # 0 => k \in 1..n
    BY <1>1
  <2>2. QED BY <1>6, <2>1 DEF Hit
<1>8. IsHits(f, pattern, index, iBuffLen)
  <2>1. f = [k \in 0..n |-> f[k]]
    OBVIOUS
  <2>2. QED BY <1>7, <2>1 DEF IsHits, n
<1> DEFINE g == CHOOSE h : IsHits(h, pattern, index, iBuffLen)
<1>9. FirstMatches(pattern, index, iBuffLen) = g[n]
  BY DEF FirstMatches, IsHits, n
<1>10. IsHits(g, pattern, index, iBuffLen)
  BY <1>8
<1> HIDE DEF g
<1>11. g[0] = <<>> /\ \A k \in 1..n : g[k] = Hit(g[k - 1], index[k], pattern, iBuffLen)
  <2>1. \A k \in 0..n :
           g[k] = IF k = 0 THEN <<>>
                  ELSE IF Len(g[k - 1]) < iBuffLen - 1 /\ index[k] \in Matching[pattern]
                       THEN Append(g[k - 1], index[k])
                       ELSE g[k - 1]
    BY <1>10 DEF IsHits, n
  <2>2. 0 \in 0..n /\ \A k \in 1..n : k \in 0..n /\ k # 0
    BY <1>1
  <2>3. QED BY <2>1, <2>2 DEF Hit
<1> DEFINE T == {k \in 0..n : g[k] = f[k]}
<1>12. 0 \in T
  BY <1>1, <1>6, <1>11
<1>13. ASSUME NEW k \in 0..n - 1, k \in T PROVE k + 1 \in T
  <2>1. k + 1 \in 1..n /\ k + 1 - 1 = k
    BY <1>1
  <2>2. QED BY <1>6, <1>11, <1>13, <2>1
<1> HIDE DEF T
<1>14. n \in T
  BY <1>1, <1>12, <1>13, CountUp
<1>15. g[n] = f[n]
  BY <1>14 DEF T
<1>16. HitRun(f, D, pattern, index, iBuffLen)
  BY <1>5, <1>6, <1>9, <1>15 DEF n, HitRun
<1>17. QED BY <1>16

\* What is in a sequence when an element is added to it.
LEMMA ToSetFacts ==
    ASSUME NEW D
    PROVE  /\ ToSet(<<>>) = {}
           /\ \A s \in Seq(D) : ToSet(s) \subseteq D
           /\ \A s \in Seq(D), e \in D : ToSet(Append(s, e)) = ToSet(s) \cup {e}
           /\ \A s \in Seq(D) : \A w : w \in ToSet(s) <=> \E k \in 1..Len(s) : s[k] = w
<1>1. \A s \in Seq(D) : \A w : w \in ToSet(s) <=> \E k \in 1..Len(s) : s[k] = w
  BY DEF ToSet
<1>2. \A s \in Seq(D) : ToSet(s) \subseteq D
  BY DEF ToSet
<1>3. ToSet(<<>>) = {}
  BY DEF ToSet
<1>4. ASSUME NEW s \in Seq(D), NEW e \in D PROVE ToSet(Append(s, e)) = ToSet(s) \cup {e}
  <2>1. /\ Append(s, e) \in Seq(D) /\ Len(s) \in Nat /\ Len(Append(s, e)) = Len(s) + 1
        /\ \A k \in 1..Len(s) : Append(s, e)[k] = s[k]
        /\ Append(s, e)[Len(s) + 1] = e
    BY AppendProperties
  <2> DEFINE t == Append(s, e)
  <2> HIDE DEF t
  <2>2. \A w : w \in ToSet(t) <=> \E k \in 1..Len(t) : t[k] = w
    BY <1>1, <2>1 DEF t
  <2>3. \A w : w \in ToSet(s) <=> \E k \in 1..Len(s) : s[k] = w
    BY <1>1
  <2>4. \A k \in 1..Len(t) : k \in 1..Len(s) \/ k = Len(s) + 1
    BY <2>1 DEF t
  <2>5. (\A k \in 1..Len(s) : k \in 1..Len(t)) /\ Len(s) + 1 \in 1..Len(t)
    BY <2>1 DEF t
  <2>6. ASSUME NEW w \in ToSet(t) PROVE w \in ToSet(s) \cup {e}
    BY <2>1, <2>2, <2>3, <2>4 DEF t
  <2>7. ASSUME NEW w \in ToSet(s) \cup {e} PROVE w \in ToSet(t)
    BY <2>1, <2>2, <2>3, <2>5 DEF t
  <2>8. QED BY <2>6, <2>7 DEF t
<1>5. QED BY <1>1, <1>2, <1>3, <1>4

\* The places up to m where an index has a word that matches.
HitsUpTo(pattern, index, m) == {k \in 1..m : index[k] \in Matching[pattern]}

\* Their number grows by one at each of them.
LEMMA HitsCounted ==
    ASSUME NEW pattern, NEW index, NEW m \in Nat
    PROVE  /\ Cardinality(HitsUpTo(pattern, index, 0)) = 0
           /\ Cardinality(HitsUpTo(pattern, index, m)) \in Nat
           /\ Cardinality(HitsUpTo(pattern, index, m + 1)) =
                IF index[m + 1] \in Matching[pattern]
                THEN Cardinality(HitsUpTo(pattern, index, m)) + 1
                ELSE Cardinality(HitsUpTo(pattern, index, m))
<1> DEFINE H == HitsUpTo(pattern, index, m)
           H1 == HitsUpTo(pattern, index, m + 1)
<1>1. IsFiniteSet(1..m)
  BY FS_Interval
<1>2. IsFiniteSet(H)
  BY <1>1, FS_Subset DEF HitsUpTo
<1>3. m + 1 \notin H
  BY DEF HitsUpTo
<1>4. H1 = IF index[m + 1] \in Matching[pattern] THEN H \cup {m + 1} ELSE H
  <2>1. \A k : k \in 1..m + 1 <=> k \in 1..m \/ k = m + 1
    OBVIOUS
  <2>2. QED BY <2>1 DEF HitsUpTo
<1> HIDE DEF H, H1
<1>5. Cardinality(H) \in Nat /\ Cardinality(H \cup {m + 1}) = Cardinality(H) + 1
  BY <1>2, <1>3, FS_AddElement, FS_CardinalityType
<1>6. HitsUpTo(pattern, index, 0) = {}
  BY DEF HitsUpTo
<1>7. Cardinality(HitsUpTo(pattern, index, 0)) = 0
  BY <1>6, FS_EmptySet
<1>8. QED BY <1>4, <1>5, <1>7 DEF H, H1

\* What is collected fits, matches, and is all that matches if that fits.
LEMMA FirstMatchesFacts ==
    ASSUME NEW D, NEW pattern, NEW index \in Seq(D), NEW size \in Nat
    PROVE  /\ FirstMatches(pattern, index, size + 1) \in Seq(D)
           /\ Len(FirstMatches(pattern, index, size + 1)) <= size
           /\ ToSet(FirstMatches(pattern, index, size + 1))
                \subseteq ToSet(index) \cap Matching[pattern]
           /\ Cardinality(HitsUpTo(pattern, index, Len(index))) <= size =>
                ToSet(index) \cap Matching[pattern]
                    \subseteq ToSet(FirstMatches(pattern, index, size + 1))
           /\ Len(index) = 0 => FirstMatches(pattern, index, size + 1) = <<>>
<1> DEFINE n == Len(index)
           b == size + 1
           count(m) == Cardinality(HitsUpTo(pattern, index, m))
<1> HIDE DEF b
<1>0. PICK f : HitRun(f, D, pattern, index, b)
  BY HitSteps
<1>1. /\ f \in [0..n -> Seq(D)]
      /\ FirstMatches(pattern, index, b) = f[n]
      /\ f[0] = <<>>
      /\ \A k \in 1..n : f[k] = Hit(f[k - 1], index[k], pattern, b)
  BY <1>0 DEF HitRun
<1>2. n \in Nat /\ \A k \in 1..n : index[k] \in D /\ index[k] \in ToSet(index)
  BY ToSetFacts
<1>3. b - 1 = size
  BY DEF b
<1>4. count(0) = 0 /\ \A m \in 0..n : count(m) \in Nat
  BY <1>2, HitsCounted
<1>5. \A m \in 0..n - 1 :
         count(m + 1) = IF index[m + 1] \in Matching[pattern] THEN count(m) + 1 ELSE count(m)
  <2> SUFFICES ASSUME NEW m \in 0..n - 1
               PROVE  count(m + 1) =
                        IF index[m + 1] \in Matching[pattern] THEN count(m) + 1 ELSE count(m)
    OBVIOUS
  <2>1. m \in Nat
    BY <1>2
  <2>2. QED BY <2>1, HitsCounted
<1> HIDE DEF n, count
<1> DEFINE Good(m) ==
             /\ Len(f[m]) \in 0..size /\ Len(f[m]) <= count(m)
             /\ ToSet(f[m]) \subseteq ToSet(index) \cap Matching[pattern]
             /\ \/ count(m) > size
                \/ \A k \in 1..m : index[k] \in Matching[pattern] => index[k] \in ToSet(f[m])
           T == {m \in 0..n : Good(m)}
<1>6. 0 \in T
  <2>1. Len(<<>>) = 0 /\ ToSet(<<>>) = {} /\ 1..0 = {}
    BY ToSetFacts
  <2>2. Good(0)
    BY <1>1, <1>4, <2>1
  <2>3. QED BY <1>2, <2>2
<1>7. ASSUME NEW m \in 0..n - 1, m \in T PROVE m + 1 \in T
  <2>1. /\ m + 1 \in 1..n /\ m + 1 - 1 = m /\ m \in 0..n /\ m + 1 \in 0..n
        /\ \A k \in 1..m + 1 : k \in 1..m \/ k = m + 1
    BY <1>2
  <2>2. f[m] \in Seq(D) /\ index[m + 1] \in D /\ index[m + 1] \in ToSet(index)
    BY <1>1, <1>2, <2>1
  <2>3. Good(m)
    BY <1>7
  <2>4. f[m + 1] = IF Len(f[m]) < size /\ index[m + 1] \in Matching[pattern]
                   THEN Append(f[m], index[m + 1]) ELSE f[m]
    BY <1>1, <1>3, <2>1 DEF Hit
  <2>5. count(m) \in Nat /\ count(m + 1) \in Nat
    BY <1>4, <2>1
  <2>6. count(m + 1) = IF index[m + 1] \in Matching[pattern] THEN count(m) + 1 ELSE count(m)
    BY <1>5
  <2>7. CASE Len(f[m]) < size /\ index[m + 1] \in Matching[pattern]
    <3>1. Len(f[m + 1]) = Len(f[m]) + 1
      BY <2>2, <2>4, <2>7, AppendProperties
    <3>2. ToSet(f[m + 1]) = ToSet(f[m]) \cup {index[m + 1]}
      BY <2>2, <2>4, <2>7, ToSetFacts
    <3>3. count(m + 1) = count(m) + 1
      BY <2>6, <2>7
    <3>4. Len(f[m + 1]) \in 0..size /\ Len(f[m + 1]) <= count(m + 1)
      BY <2>3, <2>5, <2>7, <3>1, <3>3
    <3>5. \/ count(m + 1) > size
          \/ \A k \in 1..m + 1 :
                index[k] \in Matching[pattern] => index[k] \in ToSet(f[m + 1])
      <4>1. CASE count(m) > size
        BY <2>5, <3>3, <4>1
      <4>2. CASE \A k \in 1..m : index[k] \in Matching[pattern] => index[k] \in ToSet(f[m])
        BY <2>1, <3>2, <4>2
      <4>3. QED BY <2>3, <4>1, <4>2
    <3>6. Good(m + 1)
      BY <2>2, <2>3, <2>7, <3>2, <3>4, <3>5
    <3>7. QED BY <2>1, <3>6
  <2>8. CASE ~(Len(f[m]) < size /\ index[m + 1] \in Matching[pattern])
    <3>1. f[m + 1] = f[m]
      BY <2>4, <2>8
    <3>2. index[m + 1] \in Matching[pattern] => count(m + 1) > size
      BY <2>3, <2>5, <2>6, <2>8
    <3>3. Len(f[m + 1]) \in 0..size /\ Len(f[m + 1]) <= count(m + 1)
      BY <2>3, <2>5, <2>6, <3>1
    <3>4. \/ count(m + 1) > size
          \/ \A k \in 1..m + 1 :
                index[k] \in Matching[pattern] => index[k] \in ToSet(f[m + 1])
      BY <2>1, <2>3, <2>5, <2>6, <3>1, <3>2
    <3>5. Good(m + 1)
      BY <2>3, <3>1, <3>3, <3>4
    <3>6. QED BY <2>1, <3>5
  <2>9. QED BY <2>7, <2>8
<1> HIDE DEF T
<1>8. n \in T
  BY <1>2, <1>6, <1>7, CountUp
<1>9. Good(n)
  BY <1>8 DEF T
<1> HIDE DEF Good
<1>10. f[n] \in Seq(D)
  BY <1>1, <1>2
<1>11. Len(f[n]) <= size /\ ToSet(f[n]) \subseteq ToSet(index) \cap Matching[pattern]
  BY <1>9 DEF Good
<1>12. count(n) <= size => ToSet(index) \cap Matching[pattern] \subseteq ToSet(f[n])
  <2>1. SUFFICES ASSUME count(n) <= size, NEW w \in ToSet(index) \cap Matching[pattern]
                 PROVE  w \in ToSet(f[n])
    OBVIOUS
  <2>2. PICK k \in 1..n : index[k] = w
    BY ToSetFacts DEF n
  <2>3. ~(count(n) > size)
    BY <1>2, <1>4, <2>1
  <2>4. QED BY <1>9, <2>2, <2>3 DEF Good
<1>13. n = 0 => f[n] = <<>>
  BY <1>1
<1>14. QED BY <1>1, <1>10, <1>11, <1>12, <1>13 DEF n, count, b

\* One iteration of the loop that adds words.
Put(list, w) == IF Contains(list, w) THEN list ELSE Append(list, w)

\* The recursion of AddNew defines a function.
IsAdds(f, list, new) ==
    f = [k \in 0..Len(new) |->
            IF k = 0 THEN list
            ELSE IF Contains(f[k - 1], new[k]) THEN f[k - 1]
                 ELSE Append(f[k - 1], new[k])]

\* f is the list after each of the new words.
AddRun(f, D, list, new) ==
    /\ f \in [0..Len(new) -> Seq(D)]
    /\ AddNew(list, new) = f[Len(new)]
    /\ f[0] = list
    /\ \A k \in 1..Len(new) : f[k] = Put(f[k - 1], new[k])

\* The loop of AddNew, step by step.
LEMMA AddSteps ==
    ASSUME NEW D, NEW list \in Seq(D), NEW new \in Seq(D)
    PROVE  \E f : AddRun(f, D, list, new)
<1> DEFINE n == Len(new)
           step == [k \in 1..n |-> [v \in Seq(D) |-> Put(v, new[k])]]
<1>1. n \in Nat
  OBVIOUS
<1>2. step \in [1..n -> [Seq(D) -> Seq(D)]]
  <2>1. ASSUME NEW k \in 1..n, NEW v \in Seq(D)
        PROVE  Put(v, new[k]) \in Seq(D)
    <3>1. new[k] \in D
      OBVIOUS
    <3>2. QED BY <3>1, <2>1, AppendProperties DEF Put
  <2>2. QED BY <2>1
<1>3. list \in Seq(D)
  OBVIOUS
<1>4. \A k \in 1..n, v \in Seq(D) : step[k][v] = Put(v, new[k])
  OBVIOUS
<1> HIDE DEF n, step
<1>5. PICK f \in [0..n -> Seq(D)] : IsLoop(f, n, list, step)
  BY <1>1, <1>2, <1>3, LoopExists
<1>6. f[0] = list /\ \A k \in 1..n : f[k] = Put(f[k - 1], new[k])
  <2>1. \A k \in 1..n : f[k - 1] \in Seq(D)
    BY <1>1
  <2>2. QED BY <1>4, <1>5, <2>1 DEF IsLoop
<1>7. \A k \in 0..n :
         f[k] = IF k = 0 THEN list
                ELSE IF Contains(f[k - 1], new[k]) THEN f[k - 1]
                     ELSE Append(f[k - 1], new[k])
  <2>1. \A k \in 0..n : k # 0 => k \in 1..n
    BY <1>1
  <2>2. QED BY <1>6, <2>1 DEF Put
<1>8. IsAdds(f, list, new)
  <2>1. f = [k \in 0..n |-> f[k]]
    OBVIOUS
  <2>2. QED BY <1>7, <2>1 DEF IsAdds, n
<1> DEFINE g == CHOOSE h : IsAdds(h, list, new)
<1>9. AddNew(list, new) = g[n]
  BY DEF AddNew, IsAdds, n
<1>10. IsAdds(g, list, new)
  BY <1>8
<1> HIDE DEF g
<1>11. g[0] = list /\ \A k \in 1..n : g[k] = Put(g[k - 1], new[k])
  <2>1. \A k \in 0..n :
           g[k] = IF k = 0 THEN list
                  ELSE IF Contains(g[k - 1], new[k]) THEN g[k - 1]
                       ELSE Append(g[k - 1], new[k])
    BY <1>10 DEF IsAdds, n
  <2>2. 0 \in 0..n /\ \A k \in 1..n : k \in 0..n /\ k # 0
    BY <1>1
  <2>3. QED BY <2>1, <2>2 DEF Put
<1> DEFINE T == {k \in 0..n : g[k] = f[k]}
<1>12. 0 \in T
  BY <1>1, <1>6, <1>11
<1>13. ASSUME NEW k \in 0..n - 1, k \in T PROVE k + 1 \in T
  <2> DEFINE j == k + 1
  <2>1. j \in 1..n /\ j \in 0..n /\ j - 1 = k
    BY <1>1
  <2> HIDE DEF j
  <2>2. g[k] = f[k]
    BY <1>13
  <2>3. f[j] = Put(f[k], new[j]) /\ g[j] = Put(g[k], new[j])
    BY <1>6, <1>11, <2>1
  <2>4. QED BY <2>1, <2>2, <2>3 DEF j
<1> HIDE DEF T
<1>14. n \in T
  BY <1>1, <1>12, <1>13, CountUp
<1>15. g[n] = f[n]
  BY <1>14 DEF T
<1>16. AddRun(f, D, list, new)
  BY <1>5, <1>6, <1>9, <1>15 DEF n, AddRun
<1>17. QED BY <1>16

\* What an iteration does to the list.
LEMMA PutFacts ==
    ASSUME NEW D, NEW list \in Seq(D), NEW w \in D
    PROVE  /\ Put(list, w) \in Seq(D)
           /\ Len(Put(list, w)) <= Len(list) + 1
           /\ ToSet(Put(list, w)) = ToSet(list) \cup {w}
           /\ IsInjective(list) => IsInjective(Put(list, w))
<1>1. Contains(list, w) <=> w \in ToSet(list)
  BY ToSetFacts DEF Contains
<1>2. CASE Contains(list, w)
  <2>1. Put(list, w) = list /\ w \in ToSet(list)
    BY <1>1, <1>2 DEF Put
  <2>2. QED BY <2>1
<1>3. CASE ~Contains(list, w)
  <2>1. Put(list, w) = Append(list, w)
    BY <1>3 DEF Put
  <2> DEFINE t == Append(list, w)
  <2>2. /\ t \in Seq(D) /\ Len(list) \in Nat /\ Len(t) = Len(list) + 1
        /\ \A k \in 1..Len(list) : t[k] = list[k]
        /\ t[Len(list) + 1] = w /\ ToSet(t) = ToSet(list) \cup {w}
    BY AppendProperties, ToSetFacts
  <2> HIDE DEF t
  <2>3. DOMAIN t = 1..Len(list) + 1 /\ DOMAIN list = 1..Len(list)
    BY <2>2
  <2>4. \A k \in 1..Len(list) : list[k] # w
    BY <1>3 DEF Contains
  <2>5. \A k \in 1..Len(list) + 1 : k \in 1..Len(list) \/ k = Len(list) + 1
    BY <2>2
  <2>6. ASSUME IsInjective(list), NEW j \in DOMAIN t, NEW k \in DOMAIN t, t[j] = t[k]
        PROVE  j = k
    <3>1. CASE j \in 1..Len(list) /\ k \in 1..Len(list)
      BY <2>2, <2>3, <2>6, <3>1 DEF IsInjective
    <3>2. CASE j = Len(list) + 1 /\ k \in 1..Len(list)
      BY <2>2, <2>4, <2>6, <3>2
    <3>3. CASE j \in 1..Len(list) /\ k = Len(list) + 1
      BY <2>2, <2>4, <2>6, <3>3
    <3>4. QED BY <2>3, <2>5, <3>1, <3>2, <3>3
  <2>7. IsInjective(list) => IsInjective(t)
    BY <2>6 DEF IsInjective
  <2>8. QED BY <2>1, <2>2, <2>7 DEF t
<1>4. QED BY <1>2, <1>3

\* AddNew adds what is new and keeps a list without repetitions without them.
LEMMA AddNewFacts ==
    ASSUME NEW D, NEW list \in Seq(D), NEW new \in Seq(D)
    PROVE  /\ AddNew(list, new) \in Seq(D)
           /\ Len(AddNew(list, new)) <= Len(list) + Len(new)
           /\ ToSet(AddNew(list, new)) = ToSet(list) \cup ToSet(new)
           /\ IsInjective(list) => IsInjective(AddNew(list, new))
<1> DEFINE n == Len(new)
<1>1. PICK f : AddRun(f, D, list, new)
  BY AddSteps
<1>2. /\ f \in [0..n -> Seq(D)] /\ AddNew(list, new) = f[n] /\ f[0] = list
      /\ \A k \in 1..n : f[k] = Put(f[k - 1], new[k])
  BY <1>1 DEF AddRun
<1>3. n \in Nat /\ Len(list) \in Nat /\ \A k \in 1..n : new[k] \in D /\ new[k] \in ToSet(new)
  BY ToSetFacts
<1>4. \A w \in ToSet(new) : \E k \in 1..n : new[k] = w
  BY ToSetFacts
<1> HIDE DEF n
<1> DEFINE Good(m) ==
             /\ Len(f[m]) <= Len(list) + m
             /\ ToSet(list) \subseteq ToSet(f[m])
             /\ ToSet(f[m]) \subseteq ToSet(list) \cup ToSet(new)
             /\ \A k \in 1..m : new[k] \in ToSet(f[m])
             /\ IsInjective(list) => IsInjective(f[m])
           T == {m \in 0..n : Good(m)}
<1>5. 0 \in T
  BY <1>2, <1>3
<1>6. ASSUME NEW m \in 0..n - 1, m \in T PROVE m + 1 \in T
  <2>1. /\ m + 1 \in 1..n /\ m + 1 - 1 = m /\ m \in 0..n /\ m + 1 \in 0..n
        /\ \A k \in 1..m + 1 : k \in 1..m \/ k = m + 1
    BY <1>3
  <2>2. Good(m)
    BY <1>6
  <2> DEFINE l == f[m]
             w == new[m + 1]
  <2>3. l \in Seq(D) /\ w \in D /\ w \in ToSet(new) /\ f[m + 1] = Put(l, w)
    BY <1>2, <1>3, <2>1
  <2> HIDE DEF l, w
  <2>4. /\ Len(Put(l, w)) <= Len(l) + 1
        /\ ToSet(Put(l, w)) = ToSet(l) \cup {w}
        /\ IsInjective(l) => IsInjective(Put(l, w))
        /\ Put(l, w) \in Seq(D)
    BY <2>3, PutFacts
  <2>5. Len(f[m + 1]) <= Len(list) + (m + 1)
    <3>1. Len(l) \in Nat /\ Len(Put(l, w)) \in Nat
      BY <2>3, <2>4, LenProperties
    <3>2. Len(l) <= Len(list) + m
      BY <2>2 DEF l
    <3>3. QED BY <1>3, <2>1, <2>3, <2>4, <3>1, <3>2
  <2>6. \A k \in 1..m + 1 : new[k] \in ToSet(f[m + 1])
    <3>1. \A k \in 1..m : new[k] \in ToSet(l)
      BY <2>2 DEF l
    <3>2. QED BY <2>1, <2>3, <2>4, <3>1 DEF w
  <2>7. /\ ToSet(list) \subseteq ToSet(f[m + 1])
        /\ ToSet(f[m + 1]) \subseteq ToSet(list) \cup ToSet(new)
    BY <2>2, <2>3, <2>4 DEF l
  <2>8. IsInjective(list) => IsInjective(f[m + 1])
    BY <2>2, <2>3, <2>4 DEF l
  <2>9. Good(m + 1)
    BY <2>5, <2>6, <2>7, <2>8
  <2>10. QED BY <2>1, <2>9
<1> HIDE DEF T
<1>7. n \in T
  BY <1>3, <1>5, <1>6, CountUp
<1>8. Good(n)
  BY <1>7 DEF T
<1>9. ToSet(f[n]) = ToSet(list) \cup ToSet(new)
  BY <1>4, <1>8
<1>10. f[n] \in Seq(D)
  BY <1>2, <1>3
<1>11. QED BY <1>2, <1>8, <1>9, <1>10 DEF n

\* What has been collected when one more dictionary has been asked.
Collected(list, d, pattern) ==
    AddNew(AddNew(list, FirstMatches(pattern, d.words, MAX_MATCH_ITEM_PER_LIB + 1)),
           FirstMatches(pattern, d.syns, MAX_MATCH_ITEM_PER_LIB + 1))

\* The indexes of the dictionaries are lists of words.
Indexes(dictmask, D) ==
    /\ Len(dictmask) \in Nat
    /\ \A k \in 1..Len(dictmask) : dictmask[k].words \in Seq(D) /\ dictmask[k].syns \in Seq(D)

\* It is a list of words again.
LEMMA CollectedType ==
    ASSUME NEW D, NEW list \in Seq(D), NEW d, d.words \in Seq(D), d.syns \in Seq(D), NEW pattern
    PROVE  Collected(list, d, pattern) \in Seq(D)
<1>1. MAX_MATCH_ITEM_PER_LIB \in Nat
  BY MaxMatchAssumption
<1>2. /\ FirstMatches(pattern, d.words, MAX_MATCH_ITEM_PER_LIB + 1) \in Seq(D)
      /\ FirstMatches(pattern, d.syns, MAX_MATCH_ITEM_PER_LIB + 1) \in Seq(D)
  BY <1>1, FirstMatchesFacts
<1>3. QED BY <1>2, AddNewFacts DEF Collected

\* The recursion of Matches defines a function.
IsMatchs(f, pattern, dictmask) ==
    f = [k \in 0..Len(dictmask) |->
            IF k = 0 THEN <<>>
            ELSE AddNew(AddNew(f[k - 1], FirstMatches(pattern, dictmask[k].words,
                                                       MAX_MATCH_ITEM_PER_LIB + 1)),
                        FirstMatches(pattern, dictmask[k].syns, MAX_MATCH_ITEM_PER_LIB + 1))]

\* f is the list after each of the dictionaries.
MatchRun(f, D, pattern, dictmask) ==
    /\ f \in [0..Len(dictmask) -> Seq(D)]
    /\ Matches(pattern, dictmask) = f[Len(dictmask)]
    /\ f[0] = <<>>
    /\ \A k \in 1..Len(dictmask) : f[k] = Collected(f[k - 1], dictmask[k], pattern)

\* The loop of Matches, step by step.
LEMMA MatchSteps ==
    ASSUME NEW D, NEW pattern, NEW dictmask, Indexes(dictmask, D)
    PROVE  \E f : MatchRun(f, D, pattern, dictmask)
<1> DEFINE n == Len(dictmask)
           step == [k \in 1..n |-> [v \in Seq(D) |-> Collected(v, dictmask[k], pattern)]]
<1>1. n \in Nat
  BY DEF Indexes
<1>2. step \in [1..n -> [Seq(D) -> Seq(D)]]
  <2>1. ASSUME NEW k \in 1..n, NEW v \in Seq(D)
        PROVE  Collected(v, dictmask[k], pattern) \in Seq(D)
    <3>1. dictmask[k].words \in Seq(D) /\ dictmask[k].syns \in Seq(D)
      BY DEF Indexes
    <3>2. QED BY <3>1, <2>1, CollectedType
  <2>2. QED BY <2>1
<1>3. <<>> \in Seq(D)
  OBVIOUS
<1>4. \A k \in 1..n, v \in Seq(D) : step[k][v] = Collected(v, dictmask[k], pattern)
  OBVIOUS
<1> HIDE DEF n, step
<1>5. PICK f \in [0..n -> Seq(D)] : IsLoop(f, n, <<>>, step)
  BY <1>1, <1>2, <1>3, LoopExists
<1>6. f[0] = <<>> /\ \A k \in 1..n : f[k] = Collected(f[k - 1], dictmask[k], pattern)
  <2>1. \A k \in 1..n : f[k - 1] \in Seq(D)
    BY <1>1
  <2>2. QED BY <1>4, <1>5, <2>1 DEF IsLoop
<1>7. \A k \in 0..n :
         f[k] = IF k = 0 THEN <<>>
                ELSE AddNew(AddNew(f[k - 1], FirstMatches(pattern, dictmask[k].words,
                                                           MAX_MATCH_ITEM_PER_LIB + 1)),
                            FirstMatches(pattern, dictmask[k].syns, MAX_MATCH_ITEM_PER_LIB + 1))
  <2>1. \A k \in 0..n : k # 0 => k \in 1..n
    BY <1>1
  <2>2. QED BY <1>6, <2>1 DEF Collected
<1>8. IsMatchs(f, pattern, dictmask)
  <2>1. f = [k \in 0..n |-> f[k]]
    OBVIOUS
  <2>2. QED BY <1>7, <2>1 DEF IsMatchs, n
<1> DEFINE g == CHOOSE h : IsMatchs(h, pattern, dictmask)
<1>9. Matches(pattern, dictmask) = g[n]
  BY DEF Matches, IsMatchs, n
<1>10. IsMatchs(g, pattern, dictmask)
  BY <1>8
<1> HIDE DEF g
<1>11. g[0] = <<>> /\ \A k \in 1..n : g[k] = Collected(g[k - 1], dictmask[k], pattern)
  <2>1. \A k \in 0..n :
           g[k] = IF k = 0 THEN <<>>
                  ELSE AddNew(AddNew(g[k - 1], FirstMatches(pattern, dictmask[k].words,
                                                             MAX_MATCH_ITEM_PER_LIB + 1)),
                              FirstMatches(pattern, dictmask[k].syns, MAX_MATCH_ITEM_PER_LIB + 1))
    BY <1>10 DEF IsMatchs, n
  <2>2. 0 \in 0..n /\ \A k \in 1..n : k \in 0..n /\ k # 0
    BY <1>1
  <2>3. QED BY <2>1, <2>2 DEF Collected
<1> DEFINE T == {k \in 0..n : g[k] = f[k]}
<1>12. 0 \in T
  BY <1>1, <1>6, <1>11
<1>13. ASSUME NEW k \in 0..n - 1, k \in T PROVE k + 1 \in T
  <2> DEFINE j == k + 1
  <2>1. j \in 1..n /\ j \in 0..n /\ j - 1 = k
    BY <1>1
  <2> HIDE DEF j
  <2>2. g[k] = f[k]
    BY <1>13
  <2>3. f[j] = Collected(f[k], dictmask[j], pattern) /\ g[j] = Collected(g[k], dictmask[j], pattern)
    BY <1>6, <1>11, <2>1
  <2>4. QED BY <2>1, <2>2, <2>3 DEF j
<1> HIDE DEF T
<1>14. n \in T
  BY <1>1, <1>12, <1>13, CountUp
<1>15. g[n] = f[n]
  BY <1>14 DEF T
<1>16. MatchRun(f, D, pattern, dictmask)
  BY <1>5, <1>6, <1>9, <1>15 DEF n, MatchRun
<1>17. QED BY <1>16

\* No index of the dictionary has more matches than are collected of one.
Few(d, pattern) ==
    /\ Cardinality(HitsUpTo(pattern, d.words, Len(d.words))) <= MAX_MATCH_ITEM_PER_LIB
    /\ Cardinality(HitsUpTo(pattern, d.syns, Len(d.syns))) <= MAX_MATCH_ITEM_PER_LIB

WordsOf(d) == ToSet(d.words) \cup ToSet(d.syns)

\* What a dictionary adds, and how much.
LEMMA CollectedFacts ==
    ASSUME NEW D, NEW list \in Seq(D), NEW d, d.words \in Seq(D), d.syns \in Seq(D), NEW pattern
    PROVE  /\ d.syns = <<>> =>
                Len(Collected(list, d, pattern)) <= Len(list) + MAX_MATCH_ITEM_PER_LIB
           /\ IsInjective(list) => IsInjective(Collected(list, d, pattern))
           /\ ToSet(list) \subseteq ToSet(Collected(list, d, pattern))
           /\ ToSet(Collected(list, d, pattern))
                \subseteq ToSet(list) \cup (WordsOf(d) \cap Matching[pattern])
           /\ Few(d, pattern) =>
                WordsOf(d) \cap Matching[pattern] \subseteq ToSet(Collected(list, d, pattern))
<1> DEFINE max == MAX_MATCH_ITEM_PER_LIB
           u == FirstMatches(pattern, d.words, max + 1)
           v == FirstMatches(pattern, d.syns, max + 1)
           l == AddNew(list, u)
<1>1. max \in Nat
  BY MaxMatchAssumption
<1>2. /\ u \in Seq(D) /\ Len(u) <= max
      /\ ToSet(u) \subseteq ToSet(d.words) \cap Matching[pattern]
      /\ Cardinality(HitsUpTo(pattern, d.words, Len(d.words))) <= max =>
            ToSet(d.words) \cap Matching[pattern] \subseteq ToSet(u)
  BY <1>1, FirstMatchesFacts
<1>3. /\ v \in Seq(D)
      /\ ToSet(v) \subseteq ToSet(d.syns) \cap Matching[pattern]
      /\ Cardinality(HitsUpTo(pattern, d.syns, Len(d.syns))) <= max =>
            ToSet(d.syns) \cap Matching[pattern] \subseteq ToSet(v)
      /\ Len(d.syns) = 0 => v = <<>>
  BY <1>1, FirstMatchesFacts
<1> HIDE DEF u, v
<1>4. /\ l \in Seq(D) /\ Len(l) <= Len(list) + Len(u)
      /\ ToSet(l) = ToSet(list) \cup ToSet(u)
      /\ IsInjective(list) => IsInjective(l)
  BY <1>2, AddNewFacts
<1> HIDE DEF l
<1>5. /\ AddNew(l, v) \in Seq(D) /\ Len(AddNew(l, v)) <= Len(l) + Len(v)
      /\ ToSet(AddNew(l, v)) = ToSet(l) \cup ToSet(v)
      /\ IsInjective(l) => IsInjective(AddNew(l, v))
  BY <1>3, <1>4, AddNewFacts
<1>6. Collected(list, d, pattern) = AddNew(l, v)
  BY DEF Collected, l, u, v
<1>7. d.syns = <<>> => Len(AddNew(l, v)) <= Len(list) + max
  <2>1. SUFFICES ASSUME d.syns = <<>> PROVE Len(AddNew(l, v)) <= Len(list) + max
    OBVIOUS
  <2>2. v = <<>>
    BY <1>3, <2>1
  <2>3. Len(v) = 0
    BY <2>2
  <2>4. /\ Len(list) \in Nat /\ Len(u) \in Nat /\ Len(l) \in Nat /\ Len(AddNew(l, v)) \in Nat
    BY <1>2, <1>4, <1>5, LenProperties
  <2>5. QED BY <1>1, <1>2, <1>4, <1>5, <2>3, <2>4
<1>8. /\ ToSet(list) \subseteq ToSet(AddNew(l, v))
      /\ ToSet(AddNew(l, v)) \subseteq ToSet(list) \cup (WordsOf(d) \cap Matching[pattern])
  BY <1>2, <1>3, <1>4, <1>5 DEF WordsOf
<1>9. Few(d, pattern) => WordsOf(d) \cap Matching[pattern] \subseteq ToSet(AddNew(l, v))
  BY <1>2, <1>3, <1>4, <1>5 DEF WordsOf, Few
<1>10. QED BY <1>4, <1>5, <1>6, <1>7, <1>8, <1>9

\* What Libs::LookupWithRule collects: words that match, none twice, all of them if no
\* index has too many, and no more than there is room for if no dictionary has synonyms.
LEMMA MatchesFacts ==
    ASSUME NEW D, NEW pattern, NEW dictmask, Indexes(dictmask, D)
    PROVE  /\ Matches(pattern, dictmask) \in Seq(D)
           /\ IsInjective(Matches(pattern, dictmask))
           /\ \A w \in ToSet(Matches(pattern, dictmask)) :
                 /\ w \in Matching[pattern]
                 /\ \E k \in 1..Len(dictmask) : w \in WordsOf(dictmask[k])
           /\ (\A k \in 1..Len(dictmask) : dictmask[k].syns = <<>>) =>
                 Len(Matches(pattern, dictmask)) <= Room(dictmask)
           /\ (\A k \in 1..Len(dictmask) : Few(dictmask[k], pattern)) =>
                 \A k \in 1..Len(dictmask) :
                    WordsOf(dictmask[k]) \cap Matching[pattern]
                        \subseteq ToSet(Matches(pattern, dictmask))
<1> DEFINE n == Len(dictmask)
           max == MAX_MATCH_ITEM_PER_LIB
           NoSyns == \A k \in 1..n : dictmask[k].syns = <<>>
           AllFew == \A k \in 1..n : Few(dictmask[k], pattern)
<1>1. PICK f : MatchRun(f, D, pattern, dictmask)
  BY MatchSteps
<1>2. /\ f \in [0..n -> Seq(D)] /\ Matches(pattern, dictmask) = f[n] /\ f[0] = <<>>
      /\ \A k \in 1..n : f[k] = Collected(f[k - 1], dictmask[k], pattern)
  BY <1>1 DEF MatchRun
<1>3. n \in Nat /\ max \in Nat /\ \A k \in 1..n : dictmask[k].words \in Seq(D) /\ dictmask[k].syns \in Seq(D)
  BY MaxMatchAssumption DEF Indexes
<1> HIDE DEF n, max
<1> DEFINE Good(m) ==
             /\ IsInjective(f[m])
             /\ \A w \in ToSet(f[m]) :
                   w \in Matching[pattern] /\ \E k \in 1..n : w \in WordsOf(dictmask[k])
             /\ NoSyns => Len(f[m]) <= max * m
             /\ AllFew => \A k \in 1..m :
                             WordsOf(dictmask[k]) \cap Matching[pattern] \subseteq ToSet(f[m])
           T == {m \in 0..n : Good(m)}
<1>4. 0 \in T
  <2>1. ToSet(<<>>) = {} /\ Len(<<>>) = 0 /\ max * 0 = 0 /\ 1..0 = {} /\ DOMAIN <<>> = {}
    BY <1>3, ToSetFacts
  <2>2. IsInjective(<<>>)
    BY <2>1 DEF IsInjective
  <2>3. Good(0)
    BY <1>2, <2>1, <2>2
  <2>4. QED BY <1>3, <2>3
<1>5. ASSUME NEW m \in 0..n - 1, m \in T PROVE m + 1 \in T
  <2>1. /\ m + 1 \in 1..n /\ m + 1 - 1 = m /\ m \in 0..n /\ m + 1 \in 0..n
        /\ \A k \in 1..m + 1 : k \in 1..m \/ k = m + 1
    BY <1>3
  <2>2. Good(m)
    BY <1>5
  <2> DEFINE l == f[m]
             d == dictmask[m + 1]
             c == Collected(l, d, pattern)
  <2>3. l \in Seq(D) /\ d.words \in Seq(D) /\ d.syns \in Seq(D) /\ f[m + 1] = c
    BY <1>2, <1>3, <2>1
  <2> HIDE DEF l, d
  <2>4. c \in Seq(D)
    BY <2>3, CollectedType
  <2>5. /\ d.syns = <<>> => Len(c) <= Len(l) + max
        /\ IsInjective(l) => IsInjective(c)
        /\ ToSet(l) \subseteq ToSet(c)
        /\ ToSet(c) \subseteq ToSet(l) \cup (WordsOf(d) \cap Matching[pattern])
        /\ Few(d, pattern) => WordsOf(d) \cap Matching[pattern] \subseteq ToSet(c)
    BY <2>3, CollectedFacts DEF max
  <2> HIDE DEF c
  <2>6. IsInjective(f[m + 1])
    BY <2>2, <2>3, <2>5 DEF l
  <2>7. \A w \in ToSet(f[m + 1]) :
           w \in Matching[pattern] /\ \E k \in 1..n : w \in WordsOf(dictmask[k])
    BY <2>1, <2>2, <2>3, <2>5 DEF l, d
  <2>8. NoSyns => Len(f[m + 1]) <= max * (m + 1)
    <3>1. SUFFICES ASSUME NoSyns PROVE Len(f[m + 1]) <= max * (m + 1)
      OBVIOUS
    <3>2. d.syns = <<>>
      BY <2>1, <3>1 DEF d
    <3>3. Len(l) <= max * m
      BY <2>2, <3>1 DEF l
    <3>4. max * (m + 1) = max * m + max /\ max * m \in Nat
      BY <1>3
    <3>5. Len(l) \in Nat /\ Len(c) \in Nat
      BY <2>3, <2>4, LenProperties
    <3>6. QED BY <1>3, <2>3, <2>5, <3>2, <3>3, <3>4, <3>5
  <2>9. AllFew => \A k \in 1..m + 1 :
                     WordsOf(dictmask[k]) \cap Matching[pattern] \subseteq ToSet(f[m + 1])
    <3>1. SUFFICES ASSUME AllFew, NEW k \in 1..m + 1
                   PROVE  WordsOf(dictmask[k]) \cap Matching[pattern] \subseteq ToSet(c)
      BY <2>3
    <3>2. CASE k \in 1..m
      BY <2>2, <2>5, <3>1, <3>2 DEF l
    <3>3. CASE k = m + 1
      BY <2>1, <2>5, <3>1, <3>3 DEF d
    <3>4. QED BY <2>1, <3>2, <3>3
  <2>10. Good(m + 1)
    BY <2>6, <2>7, <2>8, <2>9
  <2>11. QED BY <2>1, <2>10
<1> HIDE DEF T
<1>6. n \in T
  BY <1>3, <1>4, <1>5, CountUp
<1>7. Good(n)
  BY <1>6 DEF T
<1> HIDE DEF Good
<1>8. f[n] \in Seq(D)
  BY <1>2, <1>3
<1>9. NoSyns => Len(f[n]) <= Room(dictmask)
  BY <1>7 DEF Good, Room, n, max
<1>10. IsInjective(f[n]) /\ \A w \in ToSet(f[n]) :
           w \in Matching[pattern] /\ \E k \in 1..n : w \in WordsOf(dictmask[k])
  BY <1>7 DEF Good
<1>11. AllFew => \A k \in 1..n :
                    WordsOf(dictmask[k]) \cap Matching[pattern] \subseteq ToSet(f[n])
  BY <1>7 DEF Good
<1>12. QED BY <1>2, <1>8, <1>9, <1>10, <1>11 DEF n

-----------------------------------------------------------------------------
(* Sorted lists.  The words before a word and up to it are counted.        *)

Below(list, w) == {j \in DOMAIN list : list[j] < w}
UpTo(list, w) == {j \in DOMAIN list : list[j] <= w}

\* The counts are numbers, and grow with the word.
LEMMA CountFacts ==
    ASSUME NEW list \in Seq(Nat), NEW w \in Nat
    PROVE  /\ Cardinality(Below(list, w)) \in Nat /\ Cardinality(UpTo(list, w)) \in Nat
           /\ Cardinality(Below(list, w)) <= Cardinality(UpTo(list, w))
           /\ Cardinality(UpTo(list, w)) <= Len(list)
           /\ \A v \in Nat : v < w => Cardinality(UpTo(list, v)) <= Cardinality(Below(list, w))
           /\ w \in ToSet(list) => Cardinality(Below(list, w)) < Cardinality(UpTo(list, w))
<1> DEFINE n == Len(list)
<1>1. n \in Nat /\ DOMAIN list = 1..n /\ \A j \in 1..n : list[j] \in Nat
  OBVIOUS
<1>2. IsFiniteSet(1..n) /\ Cardinality(1..n) = n
  BY <1>1, FS_Interval
<1> HIDE DEF n
<1>3. ASSUME NEW v \in Nat PROVE UpTo(list, v) \subseteq 1..n /\ Below(list, v) \subseteq UpTo(list, v)
  BY <1>1 DEF Below, UpTo
<1>4. ASSUME NEW v \in Nat
      PROVE  /\ IsFiniteSet(UpTo(list, v)) /\ Cardinality(UpTo(list, v)) <= n
             /\ Cardinality(UpTo(list, v)) \in Nat
  BY <1>2, <1>3, FS_Subset, FS_CardinalityType
<1>5. /\ IsFiniteSet(Below(list, w)) /\ Cardinality(Below(list, w)) \in Nat
      /\ Cardinality(Below(list, w)) <= Cardinality(UpTo(list, w))
  BY <1>3, <1>4, FS_Subset, FS_CardinalityType
<1>6. ASSUME NEW v \in Nat, v < w
      PROVE  Cardinality(UpTo(list, v)) <= Cardinality(Below(list, w))
  <2>1. UpTo(list, v) \subseteq Below(list, w)
    BY <1>1, <1>6 DEF Below, UpTo
  <2>2. QED BY <1>5, <2>1, FS_Subset
<1>7. ASSUME w \in ToSet(list) PROVE Cardinality(Below(list, w)) < Cardinality(UpTo(list, w))
  <2>1. PICK j \in 1..n : list[j] = w
    BY <1>7, ToSetFacts DEF n
  <2>2. j \in UpTo(list, w) /\ j \notin Below(list, w)
    BY <1>1, <2>1 DEF Below, UpTo
  <2>3. Cardinality(Below(list, w)) # Cardinality(UpTo(list, w))
    BY <1>3, <1>4, <2>2, FS_Subset
  <2>4. QED BY <1>4, <1>5, <2>3
<1>8. QED BY <1>4, <1>5, <1>6, <1>7 DEF n

\* A list of numbers has a bound.
LEMMA ListBounded ==
    ASSUME NEW list \in Seq(Nat)
    PROVE  \E max \in Nat : \A j \in 1..Len(list) : list[j] <= max
<1> DEFINE n == Len(list)
           T == {m \in 0..n : \E max \in Nat : \A j \in 1..m : list[j] <= max}
<1>1. n \in Nat /\ \A j \in 1..n : list[j] \in Nat
  OBVIOUS
<1> HIDE DEF n
<1>2. 0 \in T
  <2>1. \A j \in 1..0 : list[j] <= 0
    OBVIOUS
  <2>2. QED BY <1>1, <2>1
<1>3. ASSUME NEW m \in 0..n - 1, m \in T PROVE m + 1 \in T
  <2>1. PICK max \in Nat : \A j \in 1..m : list[j] <= max
    BY <1>3
  <2>2. m + 1 \in 1..n /\ m + 1 \in 0..n /\ \A j \in 1..m + 1 : j \in 1..m \/ j = m + 1
    BY <1>1
  <2> DEFINE top == IF list[m + 1] <= max THEN max ELSE list[m + 1]
  <2>3. top \in Nat /\ max <= top /\ list[m + 1] <= top
    BY <1>1, <2>2
  <2> HIDE DEF top
  <2>4. \A j \in 1..m : list[j] \in Nat
    BY <1>1, <2>2
  <2>5. \A j \in 1..m + 1 : list[j] <= top
    BY <2>1, <2>2, <2>3, <2>4
  <2>6. QED BY <2>2, <2>3, <2>5
<1> HIDE DEF T
<1>4. n \in T
  BY <1>1, <1>2, <1>3, CountUp
<1>5. QED BY <1>4 DEF T, n

\* A word at place k of the sorted list.
IsAt(list, k, w) ==
    /\ Cardinality(Below(list, w)) < k
    /\ Cardinality(UpTo(list, w)) >= k

WordAt(list, k) == CHOOSE w \in ToSet(list) : IsAt(list, k, w)

\* There is one for each place.
LEMMA SortedAt ==
    ASSUME NEW list \in Seq(Nat), NEW k \in 1..Len(list)
    PROVE  /\ Sorted(list)[k] \in ToSet(list)
           /\ IsAt(list, k, Sorted(list)[k])
<1> DEFINE n == Len(list)
<1>1. n \in Nat /\ DOMAIN list = 1..n /\ \A j \in 1..n : list[j] \in Nat
  OBVIOUS
<1>2. \A w \in Nat : Cardinality(UpTo(list, w)) \in Nat /\ Cardinality(Below(list, w)) \in Nat
  BY CountFacts
<1>3. \A w : w \in ToSet(list) <=> \E j \in 1..n : list[j] = w
  BY ToSetFacts
<1>4. PICK max \in Nat : \A j \in 1..n : list[j] <= max
  BY ListBounded
<1>5. Cardinality(UpTo(list, max)) >= k
  <2>1. UpTo(list, max) = 1..n
    BY <1>1, <1>4 DEF UpTo
  <2>2. \A m \in Nat : Cardinality(1..m) = m
    BY FS_Interval
  <2>3. QED BY <1>1, <2>1, <2>2
<1> HIDE DEF n
<1> DEFINE C == {w \in Nat : Cardinality(UpTo(list, w)) >= k}
<1>6. PICK w \in C : \A v \in C : w <= v
  <2>1. C \in SUBSET Nat /\ C # {}
    BY <1>5
  <2> HIDE DEF C
  <2>2. QED BY <2>1, LeastNat
<1>7. w \in Nat /\ Cardinality(UpTo(list, w)) >= k
  BY <1>6
<1>8. k \in Nat /\ k >= 1
  OBVIOUS
<1>9. Cardinality(Below(list, w)) < k
  <2>1. CASE w = 0
    <3>1. Below(list, w) = {}
      BY <1>1, <2>1 DEF Below
    <3>2. QED BY <1>8, <3>1, FS_EmptySet
  <2>2. CASE w # 0
    <3>1. w - 1 \in Nat /\ ~(w <= w - 1)
      BY <1>7, <2>2
    <3>2. ~(Cardinality(UpTo(list, w - 1)) >= k)
      BY <1>6, <3>1
    <3>3. Below(list, w) = UpTo(list, w - 1)
      BY <1>1, <1>7, <3>1 DEF Below, UpTo
    <3>4. QED BY <1>2, <1>8, <3>1, <3>2, <3>3
  <2>3. QED BY <2>1, <2>2
<1>10. w \in ToSet(list)
  <2>1. UpTo(list, w) # Below(list, w)
    BY <1>2, <1>7, <1>8, <1>9
  <2>2. PICK j \in 1..n : list[j] <= w /\ ~(list[j] < w)
    BY <1>1, <2>1 DEF UpTo, Below
  <2>3. list[j] = w
    BY <1>1, <1>7, <2>2
  <2>4. QED BY <1>3, <2>3
<1>11. Sorted(list)[k] = CHOOSE x \in ToSet(list) : IsAt(list, k, x)
  BY <1>1 DEF Sorted, IsAt, Below, UpTo, n
<1>12. \E x \in ToSet(list) : IsAt(list, k, x)
  BY <1>7, <1>9, <1>10 DEF IsAt
<1>13. QED BY <1>11, <1>12

\* The sorted list has the elements of the list, and rises if the list has none twice.
LEMMA SortedFacts ==
    ASSUME NEW list \in Seq(Nat)
    PROVE  /\ Sorted(list) \in Seq(Nat) /\ Len(Sorted(list)) = Len(list)
           /\ ToSet(Sorted(list)) = ToSet(list)
           /\ IsInjective(list) =>
                 \A k \in 1..Len(list) - 1 : Sorted(list)[k] < Sorted(list)[k + 1]
<1> DEFINE n == Len(list)
           s == Sorted(list)
<1>1. n \in Nat /\ DOMAIN list = 1..n /\ \A j \in 1..n : list[j] \in Nat
  OBVIOUS
<1>2. DOMAIN s = 1..n /\ s = [k \in DOMAIN s |-> s[k]]
  <2>1. s = [k \in DOMAIN list |-> WordAt(list, k)]
    BY DEF Sorted, WordAt, IsAt, Below, UpTo
  <2>2. QED BY <1>1, <2>1
<1>3. \A w : w \in ToSet(list) <=> \E j \in 1..n : list[j] = w
  BY ToSetFacts
<1>4. \A k \in 1..n : s[k] \in ToSet(list) /\ IsAt(list, k, s[k])
  BY SortedAt
<1>5. \A k \in 1..n : s[k] \in Nat
  BY <1>1, <1>3, <1>4
<1> HIDE DEF n, s
<1>7. s \in [1..n -> Nat]
  BY <1>2, <1>5
<1>8. s \in Seq(Nat) /\ Len(s) = n
  BY <1>1, <1>7
<1>9. \A v \in Nat, w \in Nat :
         /\ Cardinality(Below(list, w)) \in Nat /\ Cardinality(UpTo(list, w)) \in Nat
         /\ v < w => Cardinality(UpTo(list, v)) <= Cardinality(Below(list, w))
         /\ w \in ToSet(list) => Cardinality(Below(list, w)) < Cardinality(UpTo(list, w))
         /\ Cardinality(UpTo(list, w)) <= n
  BY CountFacts DEF n
<1>10. ToSet(s) = ToSet(list)
  <2>1. \A w : w \in ToSet(s) <=> \E k \in 1..n : s[k] = w
    BY <1>8, ToSetFacts
  <2>2. ASSUME NEW w \in ToSet(list) PROVE w \in ToSet(s)
    <3>1. w \in Nat
      BY <1>1, <1>3, <2>2
    <3> DEFINE k == Cardinality(UpTo(list, w))
    <3>2. k \in 1..n /\ Cardinality(Below(list, w)) < k
      BY <1>1, <1>9, <2>2, <3>1
    <3> HIDE DEF k
    <3>3. s[k] \in Nat /\ IsAt(list, k, s[k])
      BY <1>4, <1>5, <3>2
    <3>4. ~(s[k] < w)
      <4>1. SUFFICES ASSUME s[k] < w PROVE FALSE
        OBVIOUS
      <4>2. Cardinality(UpTo(list, s[k])) <= Cardinality(Below(list, w))
        BY <1>9, <3>1, <3>3, <4>1
      <4>3. Cardinality(UpTo(list, s[k])) \in Nat /\ Cardinality(UpTo(list, s[k])) >= k
        BY <1>9, <3>3 DEF IsAt
      <4>4. Cardinality(Below(list, w)) \in Nat
        BY <1>9, <3>1
      <4>5. QED BY <3>2, <4>2, <4>3, <4>4
    <3>5. ~(w < s[k])
      <4>1. SUFFICES ASSUME w < s[k] PROVE FALSE
        OBVIOUS
      <4>2. k <= Cardinality(Below(list, s[k]))
        BY <1>9, <3>1, <3>3, <4>1 DEF k
      <4>3. Cardinality(Below(list, s[k])) \in Nat /\ Cardinality(Below(list, s[k])) < k
        BY <1>9, <3>3 DEF IsAt
      <4>4. QED BY <3>2, <4>2, <4>3
    <3>6. s[k] = w
      BY <3>1, <3>3, <3>4, <3>5
    <3>7. QED BY <2>1, <3>2, <3>6
  <2>3. QED BY <1>4, <2>1, <2>2
<1>11. ASSUME IsInjective(list), NEW k \in 1..n - 1 PROVE s[k] < s[k + 1]
  <2> DEFINE w == s[k]
             v == s[k + 1]
  <2>1. k \in 1..n /\ k + 1 \in 1..n
    BY <1>1
  <2>2. w \in Nat /\ v \in Nat /\ IsAt(list, k, w) /\ IsAt(list, k + 1, v) /\ w \in ToSet(list)
    BY <1>4, <1>5, <2>1
  <2> HIDE DEF w, v
  <2>3. ~(v < w)
    <3>1. SUFFICES ASSUME v < w PROVE FALSE
      OBVIOUS
    <3>2. Cardinality(UpTo(list, v)) <= Cardinality(Below(list, w))
      BY <1>9, <2>2, <3>1
    <3>3. QED BY <1>9, <2>1, <2>2, <3>2 DEF IsAt
  <2>4. v # w
    <3>1. SUFFICES ASSUME v = w PROVE FALSE
      OBVIOUS
    <3>2. PICK j \in 1..n : list[j] = w
      BY <1>3, <2>2
    <3>3. UpTo(list, w) = Below(list, w) \cup {j}
      <4>1. \A x \in 1..n : list[x] = w => x = j
        BY <1>1, <1>11, <3>2 DEF IsInjective
      <4>2. QED BY <1>1, <2>2, <3>2, <4>1 DEF UpTo, Below
    <3>4. IsFiniteSet(Below(list, w))
      <4>1. Below(list, w) \subseteq 1..n
        BY <1>1 DEF Below
      <4>2. IsFiniteSet(1..n)
        BY <1>1, FS_Interval
      <4>3. QED BY <4>1, <4>2, FS_Subset
    <3>5. Cardinality(UpTo(list, w)) <= Cardinality(Below(list, w)) + 1
      <4>1. Cardinality(Below(list, w)) \in Nat
        BY <1>9, <2>2
      <4>2. \/ Cardinality(Below(list, w) \cup {j}) = Cardinality(Below(list, w))
            \/ Cardinality(Below(list, w) \cup {j}) = Cardinality(Below(list, w)) + 1
        BY <3>4, FS_AddElement
      <4>3. QED BY <3>3, <4>1, <4>2
    <3>6. Cardinality(Below(list, w)) < k /\ Cardinality(UpTo(list, w)) >= k + 1
      BY <2>2, <3>1 DEF IsAt
    <3>7. Cardinality(Below(list, w)) \in Nat /\ Cardinality(UpTo(list, w)) \in Nat
      BY <1>9, <2>2
    <3>8. QED BY <2>1, <3>5, <3>6, <3>7
  <2>5. QED BY <2>2, <2>3, <2>4 DEF w, v
<1>12. QED BY <1>8, <1>10, <1>11 DEF n, s

-----------------------------------------------------------------------------
(* Queries: what analyse_query makes of what stardict_input_escape gives.  *)

\* The states of the loop of analyse_query, and the first of them.
States == [res : Seq(Nat), escape : BOOLEAN, pattern : BOOLEAN]
Nothing == [res |-> <<>>, escape |-> FALSE, pattern |-> FALSE]

\* The loop goes from state to state.
LEMMA AnalyseByteType ==
    ASSUME NEW done \in States, NEW b \in Nat
    PROVE  AnalyseByte(done, b) \in States
<1>1. /\ done.res \in Seq(Nat) /\ done.escape \in BOOLEAN /\ done.pattern \in BOOLEAN
      /\ Append(done.res, b) \in Seq(Nat)
  BY AppendProperties DEF States
<1>2. QED BY <1>1 DEF States, AnalyseByte

\* The recursion of Analysed defines a function.
IsAnalyses(f, s) ==
    f = [k \in 0..Len(s) |->
            IF k = 0 THEN Nothing
            ELSE AnalyseByte(f[k - 1], s[k])]

\* f is the state after each byte.
AnalyseRun(f, s) ==
    /\ f \in [0..Len(s) -> States]
    /\ Analysed(s) = f[Len(s)]
    /\ f[0] = Nothing
    /\ \A k \in 1..Len(s) : f[k] = AnalyseByte(f[k - 1], s[k])

\* The loop of analyse_query, step by step.
LEMMA AnalyseSteps ==
    ASSUME NEW s \in Seq(Nat)
    PROVE  \E f : AnalyseRun(f, s)
<1> DEFINE n == Len(s)
           step == [k \in 1..n |-> [v \in States |-> AnalyseByte(v, s[k])]]
<1>1. n \in Nat
  OBVIOUS
<1>2. step \in [1..n -> [States -> States]]
  <2>1. ASSUME NEW k \in 1..n, NEW v \in States
        PROVE  AnalyseByte(v, s[k]) \in States
    <3>1. s[k] \in Nat
      OBVIOUS
    <3>2. QED BY <3>1, <2>1, AnalyseByteType
  <2>2. QED BY <2>1
<1>3. Nothing \in States
  BY DEF States, Nothing
<1>4. \A k \in 1..n, v \in States : step[k][v] = AnalyseByte(v, s[k])
  OBVIOUS
<1> HIDE DEF n, step
<1>5. PICK f \in [0..n -> States] : IsLoop(f, n, Nothing, step)
  BY <1>1, <1>2, <1>3, LoopExists
<1>6. f[0] = Nothing /\ \A k \in 1..n : f[k] = AnalyseByte(f[k - 1], s[k])
  <2>1. \A k \in 1..n : f[k - 1] \in States
    BY <1>1
  <2>2. QED BY <1>4, <1>5, <2>1 DEF IsLoop
<1>7. \A k \in 0..n :
         f[k] = IF k = 0 THEN Nothing
                ELSE AnalyseByte(f[k - 1], s[k])
  <2>1. \A k \in 0..n : k # 0 => k \in 1..n
    BY <1>1
  <2>2. QED BY <1>6, <2>1
<1>8. IsAnalyses(f, s)
  <2>1. f = [k \in 0..n |-> f[k]]
    OBVIOUS
  <2>2. QED BY <1>7, <2>1 DEF IsAnalyses, n
<1> DEFINE g == CHOOSE h : IsAnalyses(h, s)
<1>9. Analysed(s) = g[n]
  BY DEF Analysed, Nothing, IsAnalyses, n
<1>10. IsAnalyses(g, s)
  BY <1>8
<1> HIDE DEF g
<1>11. g[0] = Nothing /\ \A k \in 1..n : g[k] = AnalyseByte(g[k - 1], s[k])
  <2>1. \A k \in 0..n :
           g[k] = IF k = 0 THEN Nothing
                  ELSE AnalyseByte(g[k - 1], s[k])
    BY <1>10 DEF IsAnalyses, n
  <2>2. 0 \in 0..n /\ \A k \in 1..n : k \in 0..n /\ k # 0
    BY <1>1
  <2>3. QED BY <2>1, <2>2
<1> DEFINE T == {k \in 0..n : g[k] = f[k]}
<1>12. 0 \in T
  BY <1>1, <1>6, <1>11
<1>13. ASSUME NEW k \in 0..n - 1, k \in T PROVE k + 1 \in T
  <2> DEFINE j == k + 1
  <2>1. j \in 1..n /\ j \in 0..n /\ j - 1 = k
    BY <1>1
  <2> HIDE DEF j
  <2>2. g[k] = f[k]
    BY <1>13
  <2>3. f[j] = AnalyseByte(f[k], s[j]) /\ g[j] = AnalyseByte(g[k], s[j])
    BY <1>6, <1>11, <2>1
  <2>4. QED BY <2>1, <2>2, <2>3 DEF j
<1> HIDE DEF T
<1>14. n \in T
  BY <1>1, <1>12, <1>13, CountUp
<1>15. g[n] = f[n]
  BY <1>14 DEF T
<1>16. AnalyseRun(f, s)
  BY <1>5, <1>6, <1>9, <1>15 DEF n, AnalyseRun
<1>17. QED BY <1>16

\* What stardict_input_escape begins with, and what it makes of a byte.
Marked(text) == text # <<>> /\ Head(text) \in {Slash, Bar, Colon}
Before0(text) == IF Marked(text) THEN <<BackSlash>> ELSE <<>>
EscapeOf(b) == IF b \in {BackSlash, Star, QuestionMark} THEN <<BackSlash, b>> ELSE <<b>>

\* The recursion of stardict_input_escape defines a function.
IsEscapes(f, text) ==
    f = [k \in 0..Len(text) |->
            IF k = 0 THEN Before0(text)
            ELSE f[k - 1] \o EscapeOf(text[k])]

\* f is what is written after each byte.
EscapeRun(f, text) ==
    /\ f \in [0..Len(text) -> Seq(Nat)]
    /\ stardict_input_escape(text) = f[Len(text)]
    /\ f[0] = Before0(text)
    /\ \A k \in 1..Len(text) : f[k] = f[k - 1] \o EscapeOf(text[k])

\* The loop of stardict_input_escape, step by step.
LEMMA EscapeSteps ==
    ASSUME NEW text \in Seq(Nat)
    PROVE  \E f : EscapeRun(f, text)
<1> DEFINE n == Len(text)
           step == [k \in 1..n |-> [v \in Seq(Nat) |-> v \o EscapeOf(text[k])]]
<1>1. n \in Nat
  OBVIOUS
<1>2. step \in [1..n -> [Seq(Nat) -> Seq(Nat)]]
  <2>1. ASSUME NEW k \in 1..n, NEW v \in Seq(Nat)
        PROVE  v \o EscapeOf(text[k]) \in Seq(Nat)
    <3>1. text[k] \in Nat
      OBVIOUS
    <3>2. EscapeOf(text[k]) \in Seq(Nat)
      BY <3>1 DEF EscapeOf, BackSlash
    <3>3. QED BY <3>2, <2>1, ConcatProperties
  <2>2. QED BY <2>1
<1>3. Before0(text) \in Seq(Nat)
  BY DEF Before0, BackSlash
<1>4. \A k \in 1..n, v \in Seq(Nat) : step[k][v] = v \o EscapeOf(text[k])
  OBVIOUS
<1> HIDE DEF n, step
<1>5. PICK f \in [0..n -> Seq(Nat)] : IsLoop(f, n, Before0(text), step)
  BY <1>1, <1>2, <1>3, LoopExists
<1>6. f[0] = Before0(text) /\ \A k \in 1..n : f[k] = f[k - 1] \o EscapeOf(text[k])
  <2>1. \A k \in 1..n : f[k - 1] \in Seq(Nat)
    BY <1>1
  <2>2. QED BY <1>4, <1>5, <2>1 DEF IsLoop
<1>7. \A k \in 0..n :
         f[k] = IF k = 0 THEN Before0(text)
                ELSE f[k - 1] \o EscapeOf(text[k])
  <2>1. \A k \in 0..n : k # 0 => k \in 1..n
    BY <1>1
  <2>2. QED BY <1>6, <2>1
<1>8. IsEscapes(f, text)
  <2>1. f = [k \in 0..n |-> f[k]]
    OBVIOUS
  <2>2. QED BY <1>7, <2>1 DEF IsEscapes, n
<1> DEFINE g == CHOOSE h : IsEscapes(h, text)
<1>9. stardict_input_escape(text) = g[n]
  BY DEF stardict_input_escape, Before0, Marked, EscapeOf, IsEscapes, n
<1>10. IsEscapes(g, text)
  BY <1>8
<1> HIDE DEF g
<1>11. g[0] = Before0(text) /\ \A k \in 1..n : g[k] = g[k - 1] \o EscapeOf(text[k])
  <2>1. \A k \in 0..n :
           g[k] = IF k = 0 THEN Before0(text)
                  ELSE g[k - 1] \o EscapeOf(text[k])
    BY <1>10 DEF IsEscapes, n
  <2>2. 0 \in 0..n /\ \A k \in 1..n : k \in 0..n /\ k # 0
    BY <1>1
  <2>3. QED BY <2>1, <2>2
<1> DEFINE T == {k \in 0..n : g[k] = f[k]}
<1>12. 0 \in T
  BY <1>1, <1>6, <1>11
<1>13. ASSUME NEW k \in 0..n - 1, k \in T PROVE k + 1 \in T
  <2> DEFINE j == k + 1
  <2>1. j \in 1..n /\ j \in 0..n /\ j - 1 = k
    BY <1>1
  <2> HIDE DEF j
  <2>2. g[k] = f[k]
    BY <1>13
  <2>3. f[j] = f[k] \o EscapeOf(text[j]) /\ g[j] = g[k] \o EscapeOf(text[j])
    BY <1>6, <1>11, <2>1
  <2>4. QED BY <2>1, <2>2, <2>3 DEF j
<1> HIDE DEF T
<1>14. n \in T
  BY <1>1, <1>12, <1>13, CountUp
<1>15. g[n] = f[n]
  BY <1>14 DEF T
<1>16. EscapeRun(f, text)
  BY <1>5, <1>6, <1>9, <1>15 DEF n, EscapeRun
<1>17. QED BY <1>16

\* The bytes that mean something are different.
LEMMA SpecialBytes ==
    /\ {BackSlash, Star, QuestionMark, Slash, Bar, Colon, NUL} \subseteq Nat
    /\ BackSlash \notin {Star, QuestionMark, Slash, Bar, Colon}
    /\ {Slash, Bar, Colon} \cap {Star, QuestionMark, NUL} = {}
BY DEF BackSlash, Star, QuestionMark, Slash, Bar, Colon, NUL

\* A state of the loop in which there was no wildcard.
Read1(res, escape) == [res |-> res, escape |-> escape, pattern |-> FALSE]

\* What a byte is read as, alone, behind a backslash, or after it was escaped.
LEMMA ByteRead ==
    ASSUME NEW res \in Seq(Nat), NEW b \in Nat
    PROVE  /\ AnalyseByte(Read1(res, FALSE), BackSlash) = Read1(res, TRUE)
           /\ AnalyseByte(Read1(res, TRUE), b) = Read1(Append(res, b), FALSE)
           /\ b \notin {BackSlash, Star, QuestionMark} =>
                AnalyseByte(Read1(res, FALSE), b) = Read1(Append(res, b), FALSE)
<1> DEFINE state == Read1(res, FALSE)
           marked == Read1(res, TRUE)
<1>1. /\ state \in States /\ state.res = res /\ state.escape = FALSE /\ state.pattern = FALSE
      /\ marked \in States /\ marked.res = res /\ marked.escape = TRUE /\ marked.pattern = FALSE
  BY DEF Read1, States
<1>2. Append(res, b) \in Seq(Nat)
  BY AppendProperties
<1>3. ASSUME NEW done \in States, NEW res0, NEW escape, done.pattern = FALSE,
             done.res = res0, done.escape = escape
      PROVE  done = Read1(res0, escape)
  <2>1. done = [res |-> done.res, escape |-> done.escape, pattern |-> done.pattern]
    BY DEF States
  <2>2. QED BY <1>3, <2>1 DEF Read1
<1> HIDE DEF state, marked
<1>4. AnalyseByte(state, BackSlash) = marked
  <2> DEFINE next == [state EXCEPT !.escape = TRUE]
  <2>1. AnalyseByte(state, BackSlash) = next
    BY <1>1 DEF AnalyseByte
  <2>2. /\ next \in States /\ next.res = res /\ next.escape = TRUE /\ next.pattern = FALSE
    BY <1>1 DEF States
  <2> HIDE DEF next
  <2>3. next = Read1(res, TRUE)
    BY <1>3, <2>2
  <2>4. QED BY <2>1, <2>3 DEF marked
<1>5. AnalyseByte(marked, b) = Read1(Append(res, b), FALSE)
  <2> DEFINE next == [marked EXCEPT !.res = Append(@, b), !.escape = FALSE]
  <2>1. AnalyseByte(marked, b) = next
    BY <1>1 DEF AnalyseByte
  <2>2. /\ next \in States /\ next.res = Append(res, b)
        /\ next.escape = FALSE /\ next.pattern = FALSE
    BY <1>1, <1>2 DEF States
  <2> HIDE DEF next
  <2>3. next = Read1(Append(res, b), FALSE)
    BY <1>3, <2>2
  <2>4. QED BY <2>1, <2>3
<1>6. ASSUME b \notin {BackSlash, Star, QuestionMark}
      PROVE  AnalyseByte(state, b) = Read1(Append(res, b), FALSE)
  <2> DEFINE next == [state EXCEPT !.res = Append(@, b), !.pattern = @ \/ b \in {Star, QuestionMark}]
  <2>1. AnalyseByte(state, b) = next
    BY <1>1, <1>6 DEF AnalyseByte
  <2>2. /\ next \in States /\ next.res = Append(res, b)
        /\ next.escape = FALSE /\ next.pattern = FALSE
    BY <1>1, <1>2, <1>6 DEF States
  <2> HIDE DEF next
  <2>3. next = Read1(Append(res, b), FALSE)
    BY <1>3, <2>2
  <2>4. QED BY <2>1, <2>3
<1>7. QED BY <1>4, <1>5, <1>6 DEF state, marked

\* The head of a sequence is its first element.
LEMMA HeadIsFirst == ASSUME NEW D, NEW s \in Seq(D), s # <<>> PROVE Len(s) >= 1 /\ Head(s) = s[1]
<1>1. 1 \in 1..Len(s) /\ Len(s) \in 1..Len(s)
  BY EmptySeq
<1>2. Head(SubSeq(s, 1, Len(s))) = s[1]
  BY <1>1, HeadTailOfSubSeq
<1>3. QED BY <1>1, <1>2, SubSeqFull

\* What was written stays: each stage is the beginning of the next.
LEMMA EscapeGrows ==
    ASSUME NEW text \in Seq(Nat), NEW f, EscapeRun(f, text),
           NEW k \in 0..Len(text)
    PROVE  /\ Len(f[k]) \in Nat /\ Len(f[k]) <= Len(f[Len(text)])
           /\ \A j \in 1..Len(f[k]) : f[Len(text)][j] = f[k][j]
<1> DEFINE n == Len(text)
           StillThere(m) ==
             /\ Len(f[k]) <= Len(f[m])
             /\ \A j \in 1..Len(f[k]) : f[m][j] = f[k][j]
           T == {m \in 0..n : m >= k => StillThere(m)}
<1>1. n \in Nat /\ k \in Nat /\ k <= n /\ \A m \in 1..n : text[m] \in Nat
  OBVIOUS
<1>2. /\ f \in [0..n -> Seq(Nat)]
      /\ \A m \in 1..n : f[m] = f[m - 1] \o EscapeOf(text[m])
  BY DEF EscapeRun
<1> HIDE DEF n
<1>3. Len(f[k]) \in Nat /\ StillThere(k)
  <2>1. f[k] \in Seq(Nat)
    BY <1>1, <1>2
  <2>2. QED BY <2>1
<1>4. 0 \in T
  <2>1. 0 >= k => k = 0
    BY <1>1
  <2>2. QED BY <1>1, <1>3, <2>1
<1>5. ASSUME NEW m \in 0..n - 1, m \in T PROVE m + 1 \in T
  <2> DEFINE j == m + 1
  <2>1. j \in 1..n /\ j - 1 = m /\ m \in 0..n /\ j \in 0..n
    BY <1>1
  <2>2. f[m] \in Seq(Nat) /\ text[j] \in Nat
    BY <1>1, <1>2, <2>1
  <2>3. EscapeOf(text[j]) \in Seq(Nat)
    BY <2>2 DEF EscapeOf, BackSlash
  <2>4. j >= k => j = k \/ m >= k
    BY <1>1, <2>1
  <2>5. f[j] = f[m] \o EscapeOf(text[j])
    BY <1>2, <2>1
  <2> HIDE DEF j
  <2>6. /\ Len(f[j]) >= Len(f[m])
        /\ \A x \in 1..Len(f[m]) : f[j][x] = f[m][x]
    <3> DEFINE u == f[m]
               v == EscapeOf(text[j])
    <3> HIDE DEF u, v
    <3>1. u \in Seq(Nat) /\ v \in Seq(Nat)
      BY <2>2, <2>3 DEF u, v
    <3>2. /\ Len(u \o v) = Len(u) + Len(v) /\ Len(u) \in Nat /\ Len(v) \in Nat
          /\ \A x \in 1..Len(u) + Len(v) : (u \o v)[x] = IF x <= Len(u) THEN u[x] ELSE v[x - Len(u)]
      BY <3>1, ConcatProperties, LenProperties
    <3>3. \A x \in 1..Len(u) : x \in 1..Len(u) + Len(v) /\ x <= Len(u)
      BY <3>2
    <3>4. Len(u \o v) >= Len(u) /\ \A x \in 1..Len(u) : (u \o v)[x] = u[x]
      BY <3>2, <3>3
    <3>5. QED BY <2>5, <3>4 DEF u, v
  <2>7. CASE m >= k
    <3>1. StillThere(m)
      BY <1>5, <2>7
    <3>2. Len(f[m]) \in Nat /\ Len(f[j]) \in Nat
      BY <1>2, <2>1, LenProperties
    <3>3. \A x \in 1..Len(f[k]) : x \in 1..Len(f[m])
      BY <1>3, <3>1, <3>2
    <3>4. StillThere(j)
      BY <1>3, <2>6, <3>1, <3>2, <3>3
    <3>5. QED BY <2>1, <3>4 DEF j
  <2>8. CASE j = k
    BY <1>3, <2>1, <2>8 DEF j
  <2>9. CASE ~(j >= k)
    BY <2>1, <2>9 DEF j
  <2>10. QED BY <2>4, <2>7, <2>8, <2>9
<1> HIDE DEF T
<1>6. n \in T
  BY <1>1, <1>4, <1>5, CountUp
<1>7. StillThere(n)
  BY <1>1, <1>6 DEF T
<1>8. QED BY <1>3, <1>7 DEF n

\* A text that is escaped is read as it is.
LEMMA EscapedIsRead ==
    ASSUME NEW text \in Seq(Nat)
    PROVE  analyse_query(stardict_input_escape(text)) = [type |-> qtSIMPLE, query |-> text]
<1> DEFINE n == Len(text)
           e == stardict_input_escape(text)
<1>1. n \in Nat /\ \A m \in 1..n : text[m] \in Nat
  OBVIOUS
<1>2. PICK f : EscapeRun(f, text)
  BY EscapeSteps
<1>3. /\ f \in [0..n -> Seq(Nat)] /\ e = f[n] /\ f[0] = Before0(text)
      /\ \A m \in 1..n : f[m] = f[m - 1] \o EscapeOf(text[m])
  BY <1>2 DEF EscapeRun
<1>4. \A k \in 0..n : /\ Len(f[k]) \in Nat /\ Len(f[k]) <= Len(e)
                      /\ \A j \in 1..Len(f[k]) : e[j] = f[k][j]
  BY <1>2, <1>3, EscapeGrows
<1> HIDE DEF e
<1>5. e \in Seq(Nat) /\ Len(e) \in Nat
  BY <1>1, <1>3, LenProperties
<1>6. PICK a : AnalyseRun(a, e)
  BY <1>5, AnalyseSteps
<1>7. /\ a \in [0..Len(e) -> States] /\ Analysed(e) = a[Len(e)] /\ a[0] = Nothing
      /\ \A m \in 1..Len(e) : a[m] = AnalyseByte(a[m - 1], e[m])
  BY <1>6 DEF AnalyseRun
<1>8. Marked(text) <=> n # 0 /\ text[1] \in {Slash, Bar, Colon}
  <2>1. text = <<>> <=> n = 0
    BY EmptySeq
  <2>2. text # <<>> => Head(text) = text[1]
    BY HeadIsFirst
  <2>3. QED BY <2>1, <2>2 DEF Marked
<1> HIDE DEF n
<1> DEFINE marks(k) == IF k = 0 /\ Marked(text) THEN TRUE ELSE FALSE
           done(k) == Read1(SubSeq(text, 1, k), marks(k))
           T == {k \in 0..n : a[Len(f[k])] = done(k)}
<1>9. SubSeq(text, 1, 0) = <<>>
  BY SubSeqEmpty
<1>10. 0 \in T
  <2>1. CASE Marked(text)
    <3>1. f[0] = <<BackSlash>>
      BY <1>3, <2>1 DEF Before0
    <3>2. Len(f[0]) = 1 /\ f[0][1] = BackSlash
      BY <3>1
    <3>3. 1 \in 1..Len(e) /\ e[1] = BackSlash
      BY <1>1, <1>4, <1>5, <3>2
    <3>4. a[1] = AnalyseByte(Read1(<<>>, FALSE), BackSlash)
      BY <1>7, <3>3 DEF Nothing, Read1
    <3>5. a[1] = Read1(<<>>, TRUE)
      <4>1. <<>> \in Seq(Nat) /\ BackSlash \in Nat
        BY SpecialBytes
      <4>2. QED BY <3>4, <4>1, ByteRead
    <3>6. done(0) = Read1(<<>>, TRUE)
      BY <1>9, <2>1
    <3> HIDE DEF done
    <3>7. a[Len(f[0])] = done(0)
      BY <3>2, <3>5, <3>6
    <3>8. QED BY <1>1, <3>7
  <2>2. CASE ~Marked(text)
    <3>1. Len(f[0]) = 0
      BY <1>3, <2>2 DEF Before0
    <3>2. a[0] = Read1(<<>>, FALSE)
      BY <1>7 DEF Nothing, Read1
    <3>3. done(0) = Read1(<<>>, FALSE)
      BY <1>9, <2>2
    <3> HIDE DEF done
    <3>4. a[Len(f[0])] = done(0)
      BY <3>1, <3>2, <3>3
    <3>5. QED BY <1>1, <3>4
  <2>3. QED BY <2>1, <2>2
<1>11. ASSUME NEW k \in 0..n - 1, k \in T PROVE k + 1 \in T
  <2> DEFINE m == k + 1
             l == Len(f[k])
             b == text[m]
             res == SubSeq(text, 1, k)
  <2>1. m \in 1..n /\ m \in 0..n /\ m - 1 = k /\ k \in 0..n /\ k \in Nat /\ m # 0
    BY <1>1
  <2>2. b \in Nat /\ f[m] = f[k] \o EscapeOf(b) /\ f[k] \in Seq(Nat) /\ l \in Nat
    BY <1>1, <1>3, <1>4, <2>1
  <2>3. a[l] = done(k)
    BY <1>11
  <2>4. res \in Seq(Nat) /\ Append(res, b) = SubSeq(text, 1, m)
    <3>1. \A j \in 1..k : text[j] \in Nat
      BY <1>1, <2>1
    <3>2. res \in Seq(Nat)
      BY <2>1, <3>1, SubSeqProperties
    <3>3. SubSeq(text, 1, m) = SubSeq(text, 1, m - 1) \o <<text[m]>>
      <4>1. 1 \in 1..Len(text) /\ m \in 1..Len(text)
        BY <1>1, <2>1 DEF n
      <4>2. QED BY <4>1, SubSeqRecursiveSecond
    <3>4. Append(res, b) = res \o <<b>>
      BY <2>2, <3>2, AppendIsConcat
    <3>5. QED BY <2>1, <3>2, <3>3, <3>4
  <2>5. done(m) = Read1(Append(res, b), FALSE)
    BY <2>1, <2>4
  <2>6. done(k) = Read1(res, marks(k))
    OBVIOUS
  <2>7. Len(f[m]) \in Nat /\ Len(f[m]) <= Len(e) /\ \A j \in 1..Len(f[m]) : e[j] = f[m][j]
    BY <1>4, <2>1
  <2> HIDE DEF m, l, b, res, done, marks
  <2>8. CASE b \in {BackSlash, Star, QuestionMark}
    <3>1. ~(k = 0 /\ Marked(text))
      <4>1. b \notin {Slash, Bar, Colon}
        BY <2>8, SpecialBytes
      <4>2. k = 0 => b = text[1]
        BY DEF b, m
      <4>3. QED BY <1>8, <4>1, <4>2
    <3>2. EscapeOf(b) = <<BackSlash, b>>
      BY <2>8 DEF EscapeOf
    <3>3. /\ Len(f[m]) = l + 2 /\ f[m][l + 1] = BackSlash /\ f[m][l + 2] = b
      BY <2>2, <3>2, SpecialBytes DEF l
    <3>4. /\ l + 1 \in 1..Len(e) /\ l + 2 \in 1..Len(e)
          /\ e[l + 1] = BackSlash /\ e[l + 2] = b
      <4>1. l + 1 \in 1..l + 2 /\ l + 2 \in 1..l + 2 /\ l + 2 <= Len(e)
        BY <2>2, <2>7, <3>3
      <4>2. e[l + 1] = BackSlash /\ e[l + 2] = b
        BY <2>7, <3>3, <4>1
      <4>3. QED BY <1>5, <2>2, <4>1, <4>2
    <3>5. a[l] = Read1(res, FALSE)
      BY <2>3, <2>6, <3>1 DEF marks
    <3>6. a[l + 1] = AnalyseByte(a[l], BackSlash)
      <4> DEFINE x == l + 1
      <4>1. x \in 1..Len(e) /\ x - 1 = l /\ e[x] = BackSlash
        BY <2>2, <3>4
      <4> HIDE DEF x
      <4>2. a[x] = AnalyseByte(a[l], BackSlash)
        BY <1>7, <4>1
      <4>3. QED BY <4>2 DEF x
    <3>7. a[l + 1] = Read1(res, TRUE)
      BY <2>2, <2>4, <3>5, <3>6, ByteRead
    <3>8. a[l + 2] = AnalyseByte(a[l + 1], b)
      <4> DEFINE x == l + 2
                 y == l + 1
      <4>1. x \in 1..Len(e) /\ x - 1 = y /\ e[x] = b
        BY <2>2, <3>4
      <4> HIDE DEF x, y
      <4>2. a[x] = AnalyseByte(a[y], b)
        BY <1>7, <4>1
      <4>3. QED BY <4>2 DEF x, y
    <3>9. a[l + 2] = Read1(Append(res, b), FALSE)
      BY <2>2, <2>4, <3>7, <3>8, ByteRead
    <3>10. QED BY <2>1, <2>5, <3>3, <3>9 DEF m
  <2>9. CASE b \notin {BackSlash, Star, QuestionMark}
    <3>1. EscapeOf(b) = <<b>>
      BY <2>9 DEF EscapeOf
    <3>2. Len(f[m]) = l + 1 /\ f[m][l + 1] = b
      BY <2>2, <3>1 DEF l
    <3>3. l + 1 \in 1..Len(e) /\ e[l + 1] = b
      <4>1. l + 1 \in 1..l + 1 /\ l + 1 <= Len(e)
        BY <2>2, <2>7, <3>2
      <4>2. e[l + 1] = b
        BY <2>7, <3>2, <4>1
      <4>3. QED BY <1>5, <2>2, <4>1, <4>2
    <3>4. a[l + 1] = AnalyseByte(a[l], b)
      <4> DEFINE x == l + 1
      <4>1. x \in 1..Len(e) /\ x - 1 = l /\ e[x] = b
        BY <2>2, <3>3
      <4> HIDE DEF x
      <4>2. a[x] = AnalyseByte(a[l], b)
        BY <1>7, <4>1
      <4>3. QED BY <4>2 DEF x
    <3>5. a[l + 1] = Read1(Append(res, b), FALSE)
      <4>1. CASE k = 0 /\ Marked(text)
        <5>1. a[l] = Read1(res, TRUE)
          BY <2>3, <2>6, <4>1 DEF marks
        <5>2. QED BY <2>2, <2>4, <3>4, <5>1, ByteRead
      <4>2. CASE ~(k = 0 /\ Marked(text))
        <5>1. a[l] = Read1(res, FALSE)
          BY <2>3, <2>6, <4>2 DEF marks
        <5>2. QED BY <2>2, <2>4, <2>9, <3>4, <5>1, ByteRead
      <4>3. QED BY <4>1, <4>2
    <3>6. QED BY <2>1, <2>5, <3>2, <3>5 DEF m
  <2>10. QED BY <2>8, <2>9
<1> HIDE DEF T
<1>12. n \in T
  BY <1>1, <1>10, <1>11, CountUp
<1>13. Analysed(e) = Read1(text, marks(n))
  <2>1. SubSeq(text, 1, n) = text
    BY SubSeqFull DEF n
  <2>2. a[Len(f[n])] = done(n)
    BY <1>12 DEF T
  <2>3. QED BY <1>3, <1>7, <2>1, <2>2
<1> HIDE DEF done, marks
<1>14. e # <<>> => Head(e) \notin {Slash, Colon, Bar}
  <2>1. SUFFICES ASSUME e # <<>> PROVE Head(e) \notin {Slash, Colon, Bar}
    OBVIOUS
  <2>2. Head(e) = e[1]
    BY <1>5, <2>1, HeadIsFirst
  <2>3. CASE Marked(text)
    <3>1. f[0] = <<BackSlash>>
      BY <1>3, <2>3 DEF Before0
    <3>2. Len(f[0]) = 1 /\ f[0][1] = BackSlash
      BY <3>1
    <3>3. e[1] = BackSlash
      BY <1>1, <1>4, <3>2
    <3>4. QED BY <2>2, <3>3, SpecialBytes
  <2>4. CASE ~Marked(text)
    <3>1. f[0] = <<>>
      BY <1>3, <2>4 DEF Before0
    <3>2. n # 0
      BY <1>3, <2>1, <3>1
    <3>3. 1 \in 1..n /\ 1 \in 0..n /\ 1 - 1 = 0
      BY <1>1, <3>2
    <3>4. f[1] = <<>> \o EscapeOf(text[1]) /\ text[1] \in Nat
      BY <1>1, <1>3, <3>1, <3>3
    <3>5. EscapeOf(text[1]) \in Seq(Nat) /\ Len(EscapeOf(text[1])) >= 1
          /\ EscapeOf(text[1])[1] \in {BackSlash, text[1]}
      BY <3>4, SpecialBytes DEF EscapeOf
    <3>6. f[1] = EscapeOf(text[1])
      BY <3>4, <3>5, ConcatEmptySeq
    <3>7. e[1] \in {BackSlash, text[1]}
      <4>1. 1 \in 1..Len(f[1])
        BY <1>4, <3>3, <3>5, <3>6
      <4>2. QED BY <1>4, <3>3, <3>5, <3>6, <4>1
    <3>8. text[1] \notin {Slash, Bar, Colon}
      BY <1>8, <2>4, <3>2
    <3>9. QED BY <2>2, <3>7, <3>8, SpecialBytes
  <2>5. QED BY <2>3, <2>4
<1> DEFINE first == IF e = <<>> THEN NUL ELSE Head(e)
<1>15. first \notin {Slash, Colon, Bar}
  BY <1>14, SpecialBytes
<1>16. analyse_query(e) = CASE first = Slash -> [type |-> qtFUZZY, query |-> Tail(e)]
                            [] first = Colon -> [type |-> qtREGEX, query |-> Tail(e)]
                            [] first = Bar -> [type |-> qtDATA, query |-> Tail(e)]
                            [] OTHER -> [type |-> IF Analysed(e).pattern THEN qtPATTERN
                                                  ELSE qtSIMPLE,
                                         query |-> Analysed(e).res]
  BY DEF analyse_query
<1> HIDE DEF first
<1>17. analyse_query(e) = [type |-> IF Analysed(e).pattern THEN qtPATTERN ELSE qtSIMPLE,
                           query |-> Analysed(e).res]
  BY <1>15, <1>16
<1>18. Analysed(e).pattern = FALSE /\ Analysed(e).res = text
  BY <1>13 DEF Read1
<1>19. QED BY <1>17, <1>18 DEF e

-----------------------------------------------------------------------------
(* Lists of results.                                                       *)

\* The end of a list is put off, or replaced.
LEMMA LastFacts ==
    ASSUME NEW D, NEW s \in Seq(D), s # <<>>
    PROVE  /\ Len(s) \in Nat /\ Len(s) >= 1 /\ Last(s) \in D /\ Last(s) = s[Len(s)]
           /\ Front(s) \in Seq(D) /\ Len(Front(s)) = Len(s) - 1
           /\ \A k \in 1..Len(s) - 1 : Front(s)[k] = s[k]
           /\ \A e \in D : /\ Append(Front(s), e) \in Seq(D)
                           /\ Len(Append(Front(s), e)) = Len(s)
                           /\ Append(Front(s), e)[Len(s)] = e
                           /\ \A k \in 1..Len(s) - 1 : Append(Front(s), e)[k] = s[k]
<1>1. Len(s) \in Nat /\ Len(s) >= 1
  BY EmptySeq, LenProperties
<1>2. Last(s) = s[Len(s)] /\ s[Len(s)] \in D
  BY <1>1 DEF Last
<1>3. /\ Front(s) \in Seq(D) /\ Len(Front(s)) = Len(s) - 1
      /\ \A k \in 1..Len(s) - 1 : Front(s)[k] = s[k]
  <2> DEFINE m == Len(s) - 1
  <2>1. m \in Int /\ 1 \in Int /\ m >= 0 /\ \A k \in 1..m : s[k] \in D /\ k \in Int /\ 1 + k - 1 = k
    BY <1>1
  <2>2. Front(s) = SubSeq(s, 1, m)
    BY DEF Front
  <2> HIDE DEF m
  <2>3. /\ SubSeq(s, 1, m) \in Seq(D)
        /\ Len(SubSeq(s, 1, m)) = IF 1 <= m THEN m - 1 + 1 ELSE 0
        /\ \A k \in 1..m - 1 + 1 : SubSeq(s, 1, m)[k] = s[1 + k - 1]
    BY <2>1, SubSeqProperties
  <2>4. Len(Front(s)) = m /\ \A k \in 1..m : Front(s)[k] = s[k]
    BY <2>1, <2>2, <2>3
  <2>5. QED BY <2>2, <2>3, <2>4 DEF m
<1>4. ASSUME NEW e \in D
      PROVE  /\ Append(Front(s), e) \in Seq(D)
             /\ Len(Append(Front(s), e)) = Len(s)
             /\ Append(Front(s), e)[Len(s)] = e
             /\ \A k \in 1..Len(s) - 1 : Append(Front(s), e)[k] = s[k]
  BY <1>1, <1>3, AppendProperties
<1>5. QED BY <1>1, <1>2, <1>3, <1>4

\* A list of numbers is not empty iff it has a first one.
LEMMA NotEmpty ==
    ASSUME NEW D, NEW s \in Seq(D)
    PROVE  /\ s = <<>> <=> Len(s) = 0
           /\ s # <<>> => s[1] \in ToSet(s)
           /\ ToSet(s) = {} => s = <<>>
<1>1. s = <<>> <=> Len(s) = 0
  BY EmptySeq
<1>2. Len(s) \in Nat
  OBVIOUS
<1>3. s # <<>> => s[1] \in ToSet(s)
  <2>1. s # <<>> => 1 \in 1..Len(s)
    BY <1>1, <1>2
  <2>2. QED BY <2>1, ToSetFacts
<1>4. QED BY <1>1, <1>3

\* The words of two lists are those of both.
LEMMA JoinedWords ==
    ASSUME NEW D, NEW s \in Seq(D), NEW t \in Seq(D)
    PROVE  s \o t \in Seq(D) /\ ToSet(s \o t) = ToSet(s) \cup ToSet(t)
<1>1. /\ s \o t \in Seq(D) /\ Len(s \o t) = Len(s) + Len(t)
      /\ \A k \in 1..Len(s) + Len(t) :
            (s \o t)[k] = IF k <= Len(s) THEN s[k] ELSE t[k - Len(s)]
  BY ConcatProperties
<1>2. Len(s) \in Nat /\ Len(t) \in Nat
  OBVIOUS
<1>3. ASSUME NEW w PROVE w \in ToSet(s \o t) <=> w \in ToSet(s) \/ w \in ToSet(t)
  <2>1. /\ w \in ToSet(s) <=> \E k \in 1..Len(s) : s[k] = w
        /\ w \in ToSet(t) <=> \E k \in 1..Len(t) : t[k] = w
        /\ w \in ToSet(s \o t) <=> \E k \in 1..Len(s) + Len(t) : (s \o t)[k] = w
    <3> DEFINE u == s \o t
    <3>1. u \in Seq(D) /\ Len(u) = Len(s) + Len(t)
      BY <1>1
    <3> HIDE DEF u
    <3>2. w \in ToSet(u) <=> \E k \in 1..Len(u) : u[k] = w
      BY <3>1, ToSetFacts
    <3>3. /\ w \in ToSet(s) <=> \E k \in 1..Len(s) : s[k] = w
          /\ w \in ToSet(t) <=> \E k \in 1..Len(t) : t[k] = w
      BY ToSetFacts
    <3>4. QED BY <3>1, <3>2, <3>3 DEF u
  <2>2. ASSUME NEW k \in 1..Len(s), s[k] = w PROVE w \in ToSet(s \o t)
    BY <1>1, <1>2, <2>1, <2>2
  <2>3. ASSUME NEW k \in 1..Len(t), t[k] = w PROVE w \in ToSet(s \o t)
    <3>1. Len(s) + k \in 1..Len(s) + Len(t) /\ ~(Len(s) + k <= Len(s)) /\ Len(s) + k - Len(s) = k
      BY <1>2
    <3>2. (s \o t)[Len(s) + k] = w
      BY <1>1, <2>3, <3>1
    <3>3. QED BY <2>1, <3>1, <3>2
  <2>4. ASSUME NEW k \in 1..Len(s) + Len(t), (s \o t)[k] = w
        PROVE  w \in ToSet(s) \/ w \in ToSet(t)
    <3>1. CASE k <= Len(s)
      BY <1>1, <1>2, <2>1, <2>4, <3>1
    <3>2. CASE ~(k <= Len(s))
      <4>1. k - Len(s) \in 1..Len(t)
        BY <1>2, <3>2
      <4>2. t[k - Len(s)] = w
        BY <1>1, <2>4, <3>2
      <4>3. QED BY <2>1, <4>1, <4>2
    <3>3. QED BY <3>1, <3>2
  <2>5. QED BY <2>1, <2>2, <2>3, <2>4
<1>4. QED BY <1>1, <1>3

\* The first list with results is one of them, and not empty.
LEMMA FirstResultsFacts ==
    ASSUME NEW lists \in Seq(Seq(Nat)), AnyResult(lists)
    PROVE  \E k \in 1..Len(lists) : FirstResults(lists) = lists[k] /\ lists[k] # <<>>
<1>1. Len(lists) \in Nat /\ DOMAIN lists = 1..Len(lists)
  OBVIOUS
<1> DEFINE S == {k \in DOMAIN lists : lists[k] # <<>>}
<1>2. S \in SUBSET Nat /\ S # {}
  BY <1>1 DEF AnyResult
<1>3. PICK x \in S : \A y \in S : x <= y
  <2> HIDE DEF S
  <2>1. QED BY <1>2, LeastNat
<1>4. ASSUME NEW k \in 1..x - 1 PROVE lists[k] = <<>>
  <2>1. k \in DOMAIN lists /\ ~(x <= k)
    BY <1>1, <1>3
  <2>2. QED BY <1>3, <2>1
<1> DEFINE h == CHOOSE k \in DOMAIN lists :
                    lists[k] # <<>> /\ \A j \in 1..k - 1 : lists[j] = <<>>
<1>5. \E k \in DOMAIN lists : lists[k] # <<>> /\ \A j \in 1..k - 1 : lists[j] = <<>>
  BY <1>3, <1>4
<1>6. h \in DOMAIN lists /\ lists[h] # <<>>
  BY <1>5
<1>7. FirstResults(lists) = lists[h]
  BY DEF FirstResults
<1> HIDE DEF h
<1>8. QED BY <1>1, <1>6, <1>7

-----------------------------------------------------------------------------
(* The dictionaries that are loaded, and their words.                      *)

\* The dictionaries of a list are there and have words.
LEMMA MaskFacts ==
    ASSUME NEW mask \in DictLists
    PROVE  /\ mask \in Seq(DOMAIN Dictionary) /\ Len(mask) \in Nat /\ DOMAIN mask = 1..Len(mask)
           /\ mask = <<>> <=> Len(mask) = 0
           /\ \A k \in 1..Len(mask) :
                 /\ mask[k] \in DOMAIN Dictionary
                 /\ Words(mask[k]) \in Seq(Nat) /\ Words(mask[k]) # <<>>
                 /\ Len(Words(mask[k])) \in Nat
                 /\ DOMAIN Words(mask[k]) = 1..Len(Words(mask[k]))
                 /\ Dictionary[mask[k]].words = Words(mask[k])
                 /\ Dictionary[mask[k]].syns \in Seq(Nat)
<1>1. mask \in Seq(DOMAIN Dictionary)
  BY DictionaryAssumption
<1>2. Len(mask) \in Nat /\ DOMAIN mask = 1..Len(mask) /\ (mask = <<>> <=> Len(mask) = 0)
  BY <1>1, EmptySeq
<1>3. ASSUME NEW k \in 1..Len(mask)
      PROVE  /\ mask[k] \in DOMAIN Dictionary
             /\ Words(mask[k]) \in Seq(Nat) /\ Words(mask[k]) # <<>>
             /\ Len(Words(mask[k])) \in Nat
             /\ DOMAIN Words(mask[k]) = 1..Len(Words(mask[k]))
             /\ Dictionary[mask[k]].words = Words(mask[k])
             /\ Dictionary[mask[k]].syns \in Seq(Nat)
  <2>1. mask[k] \in DOMAIN Dictionary
    BY <1>1
  <2>2. Words(mask[k]) = Dictionary[mask[k]].words
    BY DEF Words
  <2>3. /\ Words(mask[k]) \in Seq(Nat) /\ Words(mask[k]) # <<>>
        /\ Dictionary[mask[k]].syns \in Seq(Nat)
    BY <2>1, <2>2, DictionaryAssumption
  <2>4. QED BY <2>1, <2>2, <2>3
<1>4. QED BY <1>1, <1>2, <1>3

\* All words of a list of dictionaries are those of their indexes.
LEMMA AllWordsFacts ==
    ASSUME NEW mask \in DictLists, NEW w
    PROVE  w \in AllWords[mask] <=> \E k \in 1..Len(mask) : w \in WordsOf(Dictionary[mask[k]])
<1>1. /\ DOMAIN mask = 1..Len(mask)
      /\ \A k \in 1..Len(mask) : /\ Words(mask[k]) \in Seq(Nat)
                                 /\ Dictionary[mask[k]].words = Words(mask[k])
                                 /\ Dictionary[mask[k]].syns \in Seq(Nat)
  BY MaskFacts
<1>2. AllWords[mask] = UNION {ToSet(Words(mask[k]) \o Dictionary[mask[k]].syns) : k \in 1..Len(mask)}
  BY <1>1 DEF AllWords
<1>3. ASSUME NEW k \in 1..Len(mask)
      PROVE  ToSet(Words(mask[k]) \o Dictionary[mask[k]].syns) = WordsOf(Dictionary[mask[k]])
  BY <1>1, JoinedWords DEF WordsOf
<1>4. QED BY <1>2, <1>3

\* The words of an index are among all words.
LEMMA OfAllWords ==
    ASSUME NEW mask \in DictLists, NEW k \in 1..Len(mask)
    PROVE  ToSet(Words(mask[k])) \subseteq AllWords[mask]
<1>1. Dictionary[mask[k]].words = Words(mask[k])
  BY MaskFacts
<1>2. ASSUME NEW w \in ToSet(Words(mask[k])) PROVE w \in AllWords[mask]
  <2>1. w \in WordsOf(Dictionary[mask[k]])
    BY <1>1 DEF WordsOf
  <2>2. QED BY <2>1, AllWordsFacts
<1>3. QED BY <1>2

\* No index of the dictionaries has more matches than are collected of one.
AllFew(mask, pattern) ==
    \A k \in DOMAIN mask :
        \A index \in {Words(mask[k]), Dictionary[mask[k]].syns} :
            Cardinality({n \in DOMAIN index : index[n] \in Matching[pattern]})
                <= MAX_MATCH_ITEM_PER_LIB

Rises(list) == \A k \in 1..Len(list) - 1 : list[k] < list[k + 1]

\* What a pattern or a regular expression lists.
LEMMA RuleMatchesFacts ==
    ASSUME NEW word \in Texts, NEW mask \in DictLists, Query[word].type \in {qtPATTERN, qtREGEX}
    PROVE  /\ RuleMatches[word][mask] \in Seq(Nat)
           /\ Rises(RuleMatches[word][mask])
           /\ ToSet(RuleMatches[word][mask]) \subseteq AllWords[mask] \cap Matching[Query[word].query]
           /\ AllFew(mask, Query[word].query) =>
                 ToSet(RuleMatches[word][mask]) = AllWords[mask] \cap Matching[Query[word].query]
           /\ Len(RuleMatches[word][mask]) > Room(mask) =>
                 \E k \in DOMAIN mask : Dictionary[mask[k]].syns # <<>>
<1> DEFINE dicts == [k \in DOMAIN mask |-> Dictionary[mask[k]]]
           q == Query[word].query
           n == Len(mask)
           all == Matches(q, dicts)
<1>1. RuleMatches[word][mask] = Sorted(all)
  <2>1. RuleMatches[word][mask] =
            (CASE Query[word].type = qtPATTERN -> LookupWithRule(Query[word].query, dicts)
               [] Query[word].type = qtREGEX -> LookupWithRegex(Query[word].query, dicts)
               [] OTHER -> <<>>)
    <3> DEFINE rule(t, m) ==
                 LET ds == [k \in DOMAIN m |-> Dictionary[m[k]]]
                 IN  CASE Query[t].type = qtPATTERN -> LookupWithRule(Query[t].query, ds)
                       [] Query[t].type = qtREGEX -> LookupWithRegex(Query[t].query, ds)
                       [] OTHER -> <<>>
    <3>1. RuleMatches = [t \in Texts |-> [m \in DictLists |-> rule(t, m)]]
      BY DEF RuleMatches
    <3> HIDE DEF rule
    <3>2. RuleMatches[word][mask] = rule(word, mask)
      BY <3>1
    <3>3. QED BY <3>2 DEF rule
  <2>2. qtPATTERN # qtREGEX
    BY DEF qtPATTERN, qtREGEX
  <2> HIDE DEF dicts
  <2>3. LookupWithRule(q, dicts) = Sorted(all) /\ LookupWithRegex(q, dicts) = Sorted(all)
    BY DEF LookupWithRule, LookupWithRegex
  <2> HIDE DEF all
  <2>4. QED BY <2>1, <2>2, <2>3
<1>2. n \in Nat /\ DOMAIN mask = 1..n
  BY MaskFacts
<1>3. dicts = [k \in 1..n |-> Dictionary[mask[k]]]
  BY <1>2
<1>4. Len(dicts) = n /\ \A k \in 1..n : dicts[k] = Dictionary[mask[k]]
  <2>1. dicts \in Seq({Dictionary[mask[k]] : k \in 1..n})
    BY <1>2, <1>3
  <2>2. QED BY <1>2, <1>3, <2>1
<1> HIDE DEF dicts, q
<1>5. ASSUME NEW k \in 1..n PROVE dicts[k].words \in Seq(Nat) /\ dicts[k].syns \in Seq(Nat)
  <2>1. /\ Dictionary[mask[k]].words = Words(mask[k]) /\ Words(mask[k]) \in Seq(Nat)
        /\ Dictionary[mask[k]].syns \in Seq(Nat)
    BY MaskFacts DEF n
  <2>2. dicts[k] = Dictionary[mask[k]]
    BY <1>4
  <2>3. QED BY <2>1, <2>2
<1>6. Indexes(dicts, Nat)
  BY <1>2, <1>4, <1>5 DEF Indexes
<1>7. /\ all \in Seq(Nat) /\ IsInjective(all)
      /\ \A w \in ToSet(all) : w \in Matching[q] /\ \E k \in 1..n : w \in WordsOf(dicts[k])
      /\ (\A k \in 1..n : dicts[k].syns = <<>>) => Len(all) <= Room(dicts)
      /\ (\A k \in 1..n : Few(dicts[k], q)) =>
            \A k \in 1..n : WordsOf(dicts[k]) \cap Matching[q] \subseteq ToSet(all)
  <2>1. /\ Matches(q, dicts) \in Seq(Nat) /\ IsInjective(Matches(q, dicts))
        /\ \A w \in ToSet(Matches(q, dicts)) :
              /\ w \in Matching[q]
              /\ \E k \in 1..Len(dicts) : w \in WordsOf(dicts[k])
        /\ (\A k \in 1..Len(dicts) : dicts[k].syns = <<>>) =>
              Len(Matches(q, dicts)) <= Room(dicts)
        /\ (\A k \in 1..Len(dicts) : Few(dicts[k], q)) =>
              \A k \in 1..Len(dicts) :
                 WordsOf(dicts[k]) \cap Matching[q] \subseteq ToSet(Matches(q, dicts))
    BY <1>6, MatchesFacts
  <2>2. QED BY <1>4, <2>1
<1> HIDE DEF all, n
<1>8. /\ Sorted(all) \in Seq(Nat) /\ Len(Sorted(all)) = Len(all) /\ ToSet(Sorted(all)) = ToSet(all)
      /\ Rises(Sorted(all))
  BY <1>7, SortedFacts DEF Rises
<1>9. \A w : w \in AllWords[mask] <=> \E k \in 1..n : w \in WordsOf(dicts[k])
  BY <1>4, AllWordsFacts DEF n
<1>10. ToSet(all) \subseteq AllWords[mask] \cap Matching[q]
  BY <1>7, <1>9
<1>11. ASSUME AllFew(mask, q) PROVE ToSet(all) = AllWords[mask] \cap Matching[q]
  <2>1. ASSUME NEW k \in 1..n PROVE Few(dicts[k], q)
    <3>1. ASSUME NEW index \in {dicts[k].words, dicts[k].syns}
          PROVE  Cardinality(HitsUpTo(q, index, Len(index))) <= MAX_MATCH_ITEM_PER_LIB
      <4>1. index \in {Words(mask[k]), Dictionary[mask[k]].syns}
        BY <1>4, MaskFacts DEF n
      <4>2. DOMAIN index = 1..Len(index)
        BY <1>5
      <4>3. Cardinality({m \in DOMAIN index : index[m] \in Matching[q]}) <= MAX_MATCH_ITEM_PER_LIB
        BY <1>2, <1>11, <4>1 DEF AllFew
      <4>4. QED BY <4>2, <4>3 DEF HitsUpTo
    <3>2. QED BY <3>1 DEF Few
  <2>2. AllWords[mask] \cap Matching[q] \subseteq ToSet(all)
    BY <1>7, <1>9, <2>1
  <2>3. QED BY <1>10, <2>2
<1>12. ASSUME Len(all) > Room(mask) PROVE \E k \in DOMAIN mask : Dictionary[mask[k]].syns # <<>>
  <2>1. Room(mask) = Room(dicts)
    BY <1>4 DEF Room, n
  <2>2. Len(all) \in Nat /\ Room(dicts) \in Nat
    BY <1>2, <1>4, <1>7, MaxMatchAssumption DEF Room
  <2>3. ~ (\A k \in 1..n : dicts[k].syns = <<>>)
    BY <1>7, <1>12, <2>1, <2>2
  <2>4. QED BY <1>2, <1>4, <2>3
<1>13. QED BY <1>1, <1>8, <1>10, <1>11, <1>12 DEF q

-----------------------------------------------------------------------------
(* The invariant of the search window.  A search counts dictionaries and   *)
(* articles in the list of dictionaries it began with: as long as that one *)
(* has not been replaced, its counters are within it, and what it has found*)
(* in a dictionary are words of that dictionary.                           *)

SearchRecords ==
    [query : Queries(qtDATA), at : {"create", "loop", "update"}, reslist : Seq(Seq(Nat)),
     i : Nat, j : Nat, iwords : Nat, search_count : Nat, cancel : BOOLEAN,
     dialog : BOOLEAN, reloaded : BOOLEAN, freed : BOOLEAN]

\* What a search has counted and found is within the dictionaries it began with.
Within(s, mask) ==
    /\ Len(s.reslist) = Len(mask) /\ s.i <= Len(mask)
    /\ s.i # 0 => s.iwords = Len(Words(mask[s.i]))
    /\ \A k \in 1..Len(mask) : ToSet(s.reslist[k]) \subseteq ToSet(Words(mask[k]))

FitsIn(s, mask) ==
    /\ s.j >= 1 /\ (s.i = 0 => s.iwords = 0)
    /\ s.at = "update" => s.j <= s.iwords
    /\ ~s.reloaded => Within(s, mask)

SearchTypes ==
    /\ query_dictmask \in DictLists /\ entry \in Texts
    /\ results_list \in Seq(Nat) /\ searches \in Seq(SearchRecords)
    /\ started \in Nat /\ reloads \in Nat

SearchesFit ==
    /\ \A k \in 1..Len(searches) : FitsIn(searches[k], query_dictmask)
    /\ reloads = 0 => \A k \in 1..Len(searches) : ~searches[k].reloaded
    /\ started = 0 => searches = <<>>

\* The list has words of the dictionaries, and what was asked for if that is a pattern.
ListFits ==
    /\ reloads = 0 => ToSet(results_list) \subseteq AllWords[query_dictmask]
    /\ label = "Results" /\ searches = <<>> => results_list # <<>>
    /\ (Query[entry].type \in {qtPATTERN, qtREGEX} /\ started = 0 /\ query_dictmask # <<>>
            /\ broken = Intact) =>
           results_list = RuleMatches[entry][query_dictmask]

SearchInv == SearchTypes /\ SearchesFit /\ ListFits /\ ListsThere

\* Nothing is asked for by an empty entry.
LEMMA EmptyIsSimple == Query[<<>>].type = qtSIMPLE
<1>1. <<>> \in Seq(Nat) /\ Len(<<>>) = 0
  OBVIOUS
<1>2. PICK a : AnalyseRun(a, <<>>)
  BY <1>1, AnalyseSteps
<1>3. Analysed(<<>>) = Nothing
  BY <1>1, <1>2 DEF AnalyseRun
<1>4. analyse_query(<<>>).type = qtSIMPLE
  BY <1>3 DEF analyse_query, Nothing, NUL, Slash, Colon, Bar
<1>5. QED BY <1>4, TextsAssumption DEF Query

\* A query for data is one of those that can be asked.
LEMMA QueryType ==
    ASSUME NEW word \in Texts, Query[word].type = qtDATA
    PROVE  Query[word].query \in Queries(qtDATA)
BY DEF Queries

\* A search when it begins.
LEMMA NewSearchFits ==
    ASSUME NEW query \in Queries(qtDATA), query_dictmask \in DictLists
    PROVE  /\ NewSearch(query) \in SearchRecords
           /\ FitsIn(NewSearch(query), query_dictmask)
           /\ ~NewSearch(query).reloaded
<1> DEFINE s == NewSearch(query)
           n == Len(query_dictmask)
           l == [k \in 1..n |-> <<>>]
<1>1. n \in Nat /\ DOMAIN query_dictmask = 1..n
  BY MaskFacts
<1>2. s = [query |-> query, at |-> "create", reslist |-> l, i |-> 0, j |-> 1, iwords |-> 0,
           search_count |-> 0, cancel |-> FALSE, dialog |-> TRUE, reloaded |-> FALSE, freed |-> FALSE]
  BY <1>1 DEF NewSearch
<1> HIDE DEF s
<1>3. l \in Seq(Seq(Nat)) /\ Len(l) = n /\ \A k \in 1..n : l[k] = <<>>
  <2>1. l \in [1..n -> Seq(Nat)]
    OBVIOUS
  <2> HIDE DEF n
  <2>2. QED BY <1>1, <2>1
<1> HIDE DEF l, n
<1>4. s \in SearchRecords
  BY <1>2, <1>3 DEF SearchRecords
<1>5. /\ s.reslist = l /\ s.i = 0 /\ s.j = 1 /\ s.iwords = 0 /\ s.at = "create"
      /\ s.reloaded = FALSE
  BY <1>2
<1>6. \A k \in 1..n : ToSet(s.reslist[k]) \subseteq ToSet(Words(query_dictmask[k]))
  BY <1>3, <1>5, ToSetFacts
<1>7. Within(s, query_dictmask)
  BY <1>1, <1>3, <1>5, <1>6 DEF Within, n
<1>8. FitsIn(s, query_dictmask)
  BY <1>5, <1>7 DEF FitsIn
<1>9. QED BY <1>4, <1>5, <1>8 DEF s

\* A word that is found is added to a list, or is its last.
LEMMA FoundFacts ==
    ASSUME NEW list \in Seq(Nat), NEW key \in Nat
    PROVE  Found(list, key) \in Seq(Nat) /\ ToSet(Found(list, key)) = ToSet(list) \cup {key}
<1>1. CASE list # <<>> /\ Last(list) = key
  <2>1. Last(list) = list[Len(list)] /\ Len(list) \in 1..Len(list)
    BY <1>1, LastFacts
  <2>2. key \in ToSet(list)
    BY <1>1, <2>1, ToSetFacts
  <2>3. QED BY <1>1, <2>2 DEF Found
<1>2. CASE ~(list # <<>> /\ Last(list) = key)
  BY <1>2, ToSetFacts, AppendProperties DEF Found
<1>3. QED BY <1>1, <1>2

\* The search when an article has been searched.
AfterRead(s, list) ==
    [s EXCEPT !.at = "loop", !.j = @ + 1, !.search_count = @ + 1, !.reslist[s.i] = list]

\* What it changes.
LEMMA AfterReadFacts ==
    ASSUME NEW s \in SearchRecords, NEW list \in Seq(Nat), s.i \in 1..Len(s.reslist)
    PROVE  LET t == AfterRead(s, list)
           IN  /\ t \in SearchRecords
               /\ t.at = "loop" /\ t.j = s.j + 1 /\ t.i = s.i /\ t.iwords = s.iwords
               /\ t.query = s.query /\ t.reloaded = s.reloaded /\ t.freed = s.freed
               /\ Len(t.reslist) = Len(s.reslist)
               /\ t.reslist[s.i] = list
               /\ \A k \in 1..Len(s.reslist) : k # s.i => t.reslist[k] = s.reslist[k]
<1> DEFINE t == AfterRead(s, list)
           l == [s.reslist EXCEPT ![s.i] = list]
<1>1. /\ s.reslist \in Seq(Seq(Nat)) /\ s.j \in Nat /\ s.search_count \in Nat
      /\ Len(s.reslist) \in Nat
  BY DEF SearchRecords
<1>2. /\ l \in Seq(Seq(Nat)) /\ Len(l) = Len(s.reslist) /\ l[s.i] = list
      /\ \A k \in 1..Len(s.reslist) : k # s.i => l[k] = s.reslist[k]
  BY <1>1
<1>3. t = [s EXCEPT !.at = "loop", !.j = s.j + 1, !.search_count = s.search_count + 1, !.reslist = l]
  BY DEF AfterRead, SearchRecords
<1> HIDE DEF t, l
<1>4. t \in SearchRecords
  <2> DEFINE j1 == s.j + 1
             c1 == s.search_count + 1
  <2>1. j1 \in Nat /\ c1 \in Nat
    BY <1>1
  <2> HIDE DEF j1, c1
  <2>2. t = [query |-> s.query, at |-> "loop", reslist |-> l, i |-> s.i, j |-> j1,
             iwords |-> s.iwords, search_count |-> c1, cancel |-> s.cancel,
             dialog |-> s.dialog, reloaded |-> s.reloaded, freed |-> s.freed]
    BY <1>3 DEF SearchRecords, j1, c1
  <2>3. QED BY <1>2, <2>1, <2>2 DEF SearchRecords
<1>5. /\ t.at = "loop" /\ t.j = s.j + 1 /\ t.i = s.i /\ t.iwords = s.iwords
      /\ t.query = s.query /\ t.reloaded = s.reloaded /\ t.freed = s.freed /\ t.reslist = l
  BY <1>3 DEF SearchRecords
<1>6. QED BY <1>2, <1>4, <1>5 DEF t

\* It is within the dictionaries still.
LEMMA AfterReadFits ==
    ASSUME NEW mask \in DictLists, NEW s \in SearchRecords, FitsIn(s, mask),
           s.j <= s.iwords, s.i <= Len(mask), s.i <= Len(s.reslist), s.j <= Len(Words(mask[s.i])),
           NEW list, list \in {s.reslist[s.i], Found(s.reslist[s.i], Words(mask[s.i])[s.j])}
    PROVE  /\ AfterRead(s, list) \in SearchRecords
           /\ FitsIn(AfterRead(s, list), mask)
           /\ AfterRead(s, list).reloaded = s.reloaded
<1> DEFINE t == AfterRead(s, list)
           key == Words(mask[s.i])[s.j]
<1>1. /\ s.reslist \in Seq(Seq(Nat)) /\ s.i \in Nat /\ s.j \in Nat /\ s.iwords \in Nat
      /\ Len(s.reslist) \in Nat /\ Len(mask) \in Nat /\ s.reloaded \in BOOLEAN
  BY MaskFacts DEF SearchRecords
<1>2. s.j >= 1 /\ s.i # 0
  BY <1>1 DEF FitsIn
<1>3. s.i \in 1..Len(mask) /\ s.i \in 1..Len(s.reslist)
  BY <1>1, <1>2
<1>4. Words(mask[s.i]) \in Seq(Nat) /\ s.j \in 1..Len(Words(mask[s.i]))
  BY <1>1, <1>2, <1>3, MaskFacts
<1>5. key \in Nat /\ key \in ToSet(Words(mask[s.i]))
  BY <1>4, ToSetFacts
<1>6. s.reslist[s.i] \in Seq(Nat)
  BY <1>1, <1>3
<1> HIDE DEF key
<1>7. list \in Seq(Nat) /\ ToSet(list) \subseteq ToSet(s.reslist[s.i]) \cup {key}
  BY <1>5, <1>6, FoundFacts DEF key
<1>8. /\ t \in SearchRecords
      /\ t.at = "loop" /\ t.j = s.j + 1 /\ t.i = s.i /\ t.iwords = s.iwords
      /\ t.query = s.query /\ t.reloaded = s.reloaded
      /\ Len(t.reslist) = Len(s.reslist)
      /\ t.reslist[s.i] = list
      /\ \A k \in 1..Len(s.reslist) : k # s.i => t.reslist[k] = s.reslist[k]
  BY <1>3, <1>7, AfterReadFacts
<1> HIDE DEF t
<1>9. ASSUME ~s.reloaded PROVE Within(t, mask)
  <2>1. Within(s, mask)
    BY <1>9 DEF FitsIn
  <2>2. Len(s.reslist) = Len(mask) /\ s.iwords = Len(Words(mask[s.i]))
    BY <1>2, <2>1 DEF Within
  <2>3. ASSUME NEW k \in 1..Len(mask) PROVE ToSet(t.reslist[k]) \subseteq ToSet(Words(mask[k]))
    <3>1. ToSet(s.reslist[k]) \subseteq ToSet(Words(mask[k]))
      BY <2>1 DEF Within
    <3>2. CASE k = s.i
      BY <1>5, <1>7, <1>8, <3>1, <3>2
    <3>3. CASE k # s.i
      BY <1>8, <2>2, <3>1, <3>3
    <3>4. QED BY <3>2, <3>3
  <2>4. QED BY <1>8, <2>1, <2>2, <2>3 DEF Within
<1>10. FitsIn(t, mask)
  BY <1>1, <1>2, <1>8, <1>9 DEF FitsIn
<1>11. QED BY <1>8, <1>10 DEF t

\* What is listed when the entry or the dictionaries have changed.
LEMMA EntryChanged ==
    ASSUME NEW word \in Texts, NEW mask \in DictLists, mask # <<>>,
           results_list \in Seq(Nat), broken = Intact, onSearchEntryChanged(word, mask)
    PROVE  /\ results_list' \in Seq(Nat)
           /\ \/ results_list' = results_list /\ label' = "NoResults"
              \/ results_list' = results_list /\ label' = label /\ broken' # Intact
              \/ /\ ToSet(results_list') \subseteq AllWords[mask]
                 /\ label' = "Results" => results_list' # <<>>
           /\ \/ broken' = Intact
              \/ /\ broken' = "ppMatchWord"
                 /\ \E k \in DOMAIN mask : Dictionary[mask[k]].syns # <<>>
           /\ Query[word].type \in {qtPATTERN, qtREGEX} /\ broken' = Intact =>
                 results_list' = RuleMatches[word][mask]
<1>1. qtPATTERN # qtSIMPLE /\ qtREGEX # qtSIMPLE /\ qtDATA \notin {qtPATTERN, qtREGEX}
      /\ qtFUZZY \notin {qtPATTERN, qtREGEX}
  BY DEF qtPATTERN, qtREGEX, qtSIMPLE, qtDATA, qtFUZZY
<1>2. CASE word = <<>>
  <2>1. ShowNoResults(TRUE) /\ results_list' = results_list /\ broken' = broken
    BY <1>2 DEF onSearchEntryChanged
  <2>2. label' = "NoResults"
    BY <2>1 DEF ShowNoResults
  <2>3. Query[word].type \notin {qtPATTERN, qtREGEX}
    BY <1>1, <1>2, EmptyIsSimple
  <2>4. QED BY <2>1, <2>2, <2>3
<1>3. CASE word # <<>> /\ Query[word].type = qtDATA /\ ShowNoResults(TRUE)
           /\ results_list' = results_list /\ broken' = broken
  <2>1. label' = "NoResults"
    BY <1>3 DEF ShowNoResults
  <2>2. Query[word].type \notin {qtPATTERN, qtREGEX}
    BY <1>1, <1>3
  <2>3. QED BY <1>3, <2>1, <2>2
<1> DEFINE rules == RuleMatches[word][mask]
<1>4. CASE /\ Query[word].type \in {qtPATTERN, qtREGEX}
           /\ IF Len(rules) <= Room(mask)
              THEN results_list' = rules /\ ShowNoResults(rules = <<>>) /\ broken' = broken
              ELSE broken' = "ppMatchWord" /\ results_list' = results_list /\ label' = label
  <2>1. /\ rules \in Seq(Nat) /\ ToSet(rules) \subseteq AllWords[mask]
        /\ Len(rules) > Room(mask) => \E k \in DOMAIN mask : Dictionary[mask[k]].syns # <<>>
    BY <1>4, RuleMatchesFacts
  <2> HIDE DEF rules
  <2>2. Len(rules) \in Nat /\ Room(mask) \in Nat
    BY <2>1, MaskFacts, MaxMatchAssumption DEF Room
  <2>3. CASE Len(rules) <= Room(mask)
    <3>1. results_list' = rules /\ ShowNoResults(rules = <<>>) /\ broken' = broken
      BY <1>4, <2>3
    <3>2. label' = "Results" => results_list' # <<>>
      BY <3>1 DEF ShowNoResults
    <3>3. QED BY <2>1, <3>1, <3>2 DEF rules
  <2>4. CASE ~(Len(rules) <= Room(mask))
    <3>1. broken' = "ppMatchWord" /\ results_list' = results_list /\ label' = label
      BY <1>4, <2>4
    <3>2. \E k \in DOMAIN mask : Dictionary[mask[k]].syns # <<>>
      BY <2>1, <2>2, <2>4
    <3>3. "ppMatchWord" # Intact
      BY DEF Intact
    <3>4. QED BY <3>1, <3>2, <3>3
  <2>5. QED BY <2>3, <2>4
<1>5. CASE /\ Query[word].type \in {qtSIMPLE, qtFUZZY}
           /\ \E simple \in SimpleLists(mask) :
                 results_list' = simple.words /\ ShowNoResults(~simple.bFound)
           /\ broken' = broken
  <2>1. Query[word].type \notin {qtPATTERN, qtREGEX}
    BY <1>1, <1>5
  <2>2. PICK simple \in SimpleLists(mask) :
               results_list' = simple.words /\ ShowNoResults(~simple.bFound)
    BY <1>5
  <2>3. 1 \in 1..Len(mask)
    BY MaskFacts
  <2>4. Words(mask[1]) \in Seq(Nat) /\ Words(mask[1]) # <<>>
        /\ ToSet(Words(mask[1])) \subseteq AllWords[mask]
    BY <2>3, MaskFacts, OfAllWords
  <2>5. CASE simple.bFound = FALSE /\ simple.words = <<>>
    <3>1. results_list' = <<>> /\ label' = "NoResults"
      BY <2>2, <2>5 DEF ShowNoResults
    <3>2. ToSet(results_list') = {} /\ results_list' \in Seq(Nat)
      BY <3>1, ToSetFacts
    <3>3. QED BY <1>5, <2>1, <3>1, <3>2
  <2>6. CASE simple.words = Words(mask[1])
    BY <1>5, <2>1, <2>2, <2>4, <2>6
  <2>7. (simple.bFound = FALSE /\ simple.words = <<>>) \/ simple.words = Words(mask[1])
    BY <2>2 DEF SimpleLists
  <2>8. QED BY <2>5, <2>6, <2>7
<1>6. CASE word # <<>>
  <2> DEFINE A == Query[word].type = qtDATA /\ ShowNoResults(TRUE)
                  /\ results_list' = results_list /\ broken' = broken
             B == /\ Query[word].type \in {qtPATTERN, qtREGEX}
                  /\ IF Len(rules) <= Room(mask)
                     THEN results_list' = rules /\ ShowNoResults(rules = <<>>) /\ broken' = broken
                     ELSE broken' = "ppMatchWord" /\ results_list' = results_list /\ label' = label
             C == /\ Query[word].type \in {qtSIMPLE, qtFUZZY}
                  /\ \E simple \in SimpleLists(mask) :
                        results_list' = simple.words /\ ShowNoResults(~simple.bFound)
                  /\ broken' = broken
  <2>1. A \/ B \/ C
    BY <1>6 DEF onSearchEntryChanged
  <2>2. CASE A
    BY <1>3, <1>6, <2>2
  <2>3. CASE B
    BY <1>4, <2>3
  <2>4. CASE C
    BY <1>5, <2>4
  <2> HIDE DEF A, B, C
  <2>5. QED BY <2>1, <2>2, <2>3, <2>4
<1>7. QED BY <1>2, <1>6

\* The last search goes on with other counters.
LEMMA SetStep ==
    ASSUME SearchInv, broken = Intact, searches # <<>>,
           NEW rec \in SearchRecords, FitsIn(rec, query_dictmask), rec.reloaded = search.reloaded,
           Set(rec), UNCHANGED <<results_list, label, broken, others>>
    PROVE  SearchInv'
<1>1. /\ query_dictmask' = query_dictmask /\ entry' = entry /\ started' = started
      /\ reloads' = reloads /\ results_list' = results_list /\ label' = label /\ broken' = broken
  BY DEF others, bounds
<1>2. searches \in Seq(SearchRecords) /\ searches' = Append(Front(searches), rec)
  BY DEF SearchInv, SearchTypes, Set
<1>3. /\ Len(searches) \in Nat /\ Len(searches) >= 1 /\ search = searches[Len(searches)]
      /\ searches' \in Seq(SearchRecords) /\ Len(searches') = Len(searches)
      /\ searches'[Len(searches)] = rec
      /\ \A k \in 1..Len(searches) - 1 : searches'[k] = searches[k]
  BY <1>2, LastFacts DEF search
<1>4. searches' # <<>>
  BY <1>3, EmptySeq
<1>5. \A k \in 1..Len(searches) : k \in 1..Len(searches) - 1 \/ k = Len(searches)
  BY <1>3
<1>6. SearchTypes'
  BY <1>1, <1>3 DEF SearchInv, SearchTypes
<1>7. SearchesFit'
  <2>1. \A k \in 1..Len(searches') : FitsIn(searches'[k], query_dictmask')
    BY <1>1, <1>3, <1>5 DEF SearchInv, SearchesFit
  <2>2. ASSUME reloads = 0, NEW k \in 1..Len(searches') PROVE ~searches'[k].reloaded
    <3>1. \A m \in 1..Len(searches) : ~searches[m].reloaded
      BY <2>2 DEF SearchInv, SearchesFit
    <3>2. CASE k = Len(searches)
      BY <1>3, <3>1, <3>2
    <3>3. CASE k \in 1..Len(searches) - 1
      BY <1>3, <3>1, <3>3
    <3>4. QED BY <1>3, <1>5, <3>2, <3>3
  <2>3. started' # 0
    BY <1>1 DEF SearchInv, SearchesFit
  <2>4. QED BY <1>1, <2>1, <2>2, <2>3 DEF SearchesFit
<1>8. ListFits'
  <2>1. started # 0
    BY DEF SearchInv, SearchesFit
  <2>2. QED BY <1>1, <1>4, <2>1 DEF SearchInv, ListFits
<1>9. ListsThere'
  BY <1>1 DEF SearchInv, ListsThere
<1>10. QED BY <1>6, <1>7, <1>8, <1>9 DEF SearchInv

\* An article is read only where there is one, unless the dictionaries have changed.
LEMMA ReadStep ==
    ASSUME SearchInv, broken = Intact, searches # <<>>, search.j <= search.iwords, Read
    PROVE  SearchInv'
<1>1. searches \in Seq(SearchRecords) /\ query_dictmask \in DictLists /\ reloads \in Nat
  BY DEF SearchInv, SearchTypes
<1>2. search \in SearchRecords /\ search = searches[Len(searches)] /\ Len(searches) \in 1..Len(searches)
  BY <1>1, LastFacts DEF search
<1>3. FitsIn(search, query_dictmask) /\ (reloads = 0 => ~search.reloaded)
  BY <1>2 DEF SearchInv, SearchesFit
<1>4. /\ search.i \in Nat /\ search.j \in Nat /\ search.iwords \in Nat
      /\ search.reslist \in Seq(Seq(Nat)) /\ Len(search.reslist) \in Nat
      /\ search.reloaded \in BOOLEAN
  BY <1>2 DEF SearchRecords
<1>5. Len(query_dictmask) \in Nat
  BY <1>1, MaskFacts
<1> DEFINE gone == \/ search.i > Len(query_dictmask) \/ search.i > Len(search.reslist)
                   \/ search.j > Len(Words(dict))
<1>6. CASE gone
  <2>1. /\ broken' = "article" /\ results_list' = results_list /\ label' = label
        /\ searches' = searches /\ query_dictmask' = query_dictmask /\ entry' = entry
        /\ started' = started /\ reloads' = reloads
    BY <1>6 DEF Read, others, bounds
  <2>2. reloads > 0
    <3>1. SUFFICES ASSUME ~search.reloaded PROVE FALSE
      BY <1>1, <1>3
    <3>2. Within(search, query_dictmask)
      BY <1>3, <3>1 DEF FitsIn
    <3>3. search.i # 0
      BY <1>3, <1>4 DEF FitsIn
    <3>4. /\ Len(search.reslist) = Len(query_dictmask) /\ search.i <= Len(query_dictmask)
          /\ search.iwords = Len(Words(query_dictmask[search.i]))
      BY <3>2, <3>3 DEF Within
    <3>5. QED BY <1>4, <1>5, <1>6, <3>4 DEF dict
  <2>3. ListsThere'
    BY <2>1, <2>2 DEF ListsThere
  <2>4. ListFits'
    BY <2>1 DEF SearchInv, ListFits, Intact
  <2>5. QED BY <2>1, <2>3, <2>4 DEF SearchInv, SearchTypes, SearchesFit
<1> DEFINE null == WritesNull(prefix, LooksIn[dict][search.query][search.j])
<1>7. CASE ~gone /\ null
  <2>1. /\ broken' = "prefix" /\ results_list' = results_list /\ label' = label
        /\ searches' = searches /\ query_dictmask' = query_dictmask /\ entry' = entry
        /\ started' = started /\ reloads' = reloads
    BY <1>7 DEF Read, others, bounds
  <2>2. ListsThere'
    BY <2>1 DEF ListsThere
  <2>3. ListFits'
    BY <2>1 DEF SearchInv, ListFits, Intact
  <2>4. QED BY <2>1, <2>2, <2>3 DEF SearchInv, SearchTypes, SearchesFit
<1>8. CASE ~gone /\ ~null
  <2> DEFINE old == search.reslist[search.i]
             list == IF SearchesTrue[dict][search.query][search.j]
                     THEN Found(old, Words(dict)[search.j]) ELSE old
             rec == AfterRead(search, list)
  <2>1. Set(rec) /\ UNCHANGED <<results_list, label, broken, others>>
    BY <1>8 DEF Read, AfterRead
  <2>2. list \in {old, Found(old, Words(query_dictmask[search.i])[search.j])}
    BY DEF dict
  <2>3. /\ search.i <= Len(query_dictmask) /\ search.i <= Len(search.reslist)
        /\ search.j <= Len(Words(query_dictmask[search.i]))
    <3>1. ~(search.i > Len(query_dictmask)) /\ ~(search.i > Len(search.reslist))
      BY <1>8
    <3>2. ~(search.j > Len(Words(query_dictmask[search.i])))
      BY <1>8 DEF dict
    <3>3. search.i # 0
      BY <1>3, <1>4 DEF FitsIn
    <3>4. search.i \in 1..Len(query_dictmask)
      BY <1>4, <1>5, <3>1, <3>3
    <3>5. Len(Words(query_dictmask[search.i])) \in Nat
      BY <1>1, <3>4, MaskFacts
    <3>6. QED BY <1>4, <1>5, <3>1, <3>2, <3>5
  <2> HIDE DEF list
  <2>4. /\ rec \in SearchRecords /\ FitsIn(rec, query_dictmask)
        /\ rec.reloaded = search.reloaded
    BY <1>1, <1>2, <1>3, <2>2, <2>3, AfterReadFits
  <2> HIDE DEF rec
  <2>5. QED BY <2>1, <2>4, SetStep
<1>9. QED BY <1>6, <1>7, <1>8

\* Nothing that a search counts or has found differs.
SameCounts(u, s) ==
    /\ u.query = s.query /\ u.at = s.at /\ u.reslist = s.reslist /\ u.i = s.i /\ u.j = s.j
    /\ u.iwords = s.iwords /\ u.reloaded = s.reloaded

\* Both ends of a search: with KMP_end, and without it if there is no word to look for.
SearchEnds == Finish \/ (ShowResults /\ searches' = Front(searches) /\ UNCHANGED prefix)

\* The searches below it go on where they were.
LEMMA EndsLeave ==
    ASSUME searches \in Seq(SearchRecords), searches # <<>>, SearchEnds
    PROVE  /\ searches' \in Seq(SearchRecords) /\ Len(searches') = Len(searches) - 1
           /\ \A k \in 1..Len(searches') :
                 k \in 1..Len(searches) /\ SameCounts(searches'[k], searches[k])
           /\ Finish => \A k \in 1..Len(searches') : searches'[k].freed = TRUE
<1>1. /\ Len(searches) \in Nat /\ Len(searches) >= 1
      /\ Front(searches) \in Seq(SearchRecords) /\ Len(Front(searches)) = Len(searches) - 1
      /\ \A k \in 1..Len(searches) - 1 : Front(searches)[k] = searches[k]
  BY LastFacts
<1> DEFINE n == Len(searches) - 1
<1>2. n \in Nat /\ \A k \in 1..n : k \in 1..Len(searches) /\ searches[k] \in SearchRecords
  BY <1>1
<1>3. CASE searches' = Front(searches) /\ ~Finish
  BY <1>1, <1>2, <1>3 DEF SameCounts
<1>4. CASE Finish
  <2>1. DOMAIN Front(searches) = 1..n
    BY <1>1
  <2>2. searches' = [k \in 1..n |-> [searches[k] EXCEPT !.freed = TRUE]]
    BY <1>4, <2>1 DEF Finish
  <2> HIDE DEF n
  <2>3. ASSUME NEW s \in SearchRecords
        PROVE  LET u == [s EXCEPT !.freed = TRUE]
               IN  u \in SearchRecords /\ SameCounts(u, s) /\ u.freed = TRUE
    BY DEF SearchRecords, SameCounts
  <2>4. /\ searches' \in [1..n -> SearchRecords]
        /\ \A k \in 1..n : SameCounts(searches'[k], searches[k]) /\ searches'[k].freed = TRUE
    BY <1>2, <2>2, <2>3
  <2>5. searches' \in Seq(SearchRecords) /\ Len(searches') = n
    BY <1>2, <2>4
  <2>6. QED BY <1>2, <2>4, <2>5 DEF n
<1>5. QED BY <1>3, <1>4 DEF SearchEnds

\* A search that ends has a list for each dictionary, unless they have changed, and
\* adds words of the dictionaries to what is shown.
LEMMA FinishStep ==
    ASSUME SearchInv, broken = Intact, searches # <<>>, SearchEnds
    PROVE  SearchInv'
<1> DEFINE lists == search.reslist
           bFound == AnyResult(lists)
<1>1. /\ searches \in Seq(SearchRecords) /\ query_dictmask \in DictLists /\ reloads \in Nat
      /\ results_list \in Seq(Nat)
  BY DEF SearchInv, SearchTypes
<1>2. /\ search \in SearchRecords /\ search = searches[Len(searches)]
      /\ Len(searches) \in 1..Len(searches) /\ Len(searches) \in Nat
  <2>1. /\ Len(searches) \in Nat /\ Len(searches) >= 1 /\ Last(searches) \in SearchRecords
        /\ Last(searches) = searches[Len(searches)]
    BY <1>1, LastFacts
  <2>2. QED BY <2>1 DEF search
<1>3. FitsIn(search, query_dictmask) /\ (reloads = 0 => ~search.reloaded)
  BY <1>2 DEF SearchInv, SearchesFit
<1>4. /\ results_list' = IF bFound THEN results_list \o FirstResults(lists) ELSE results_list
      /\ label' = IF ~bFound THEN "NoResults" ELSE "Results"
      /\ broken' = IF ~search.dialog THEN "dialog"
                   ELSE IF Len(query_dictmask) > Len(lists) THEN "reslist" ELSE broken
      /\ query_dictmask' = query_dictmask /\ entry' = entry /\ started' = started
      /\ reloads' = reloads
  BY DEF SearchEnds, Finish, ShowResults, ShowNoResults, others, bounds
<1>5. lists \in Seq(Seq(Nat)) /\ Len(lists) \in Nat /\ Len(query_dictmask) \in Nat
  BY <1>1, <1>2, MaskFacts DEF SearchRecords
<1>6. reloads = 0 => Within(search, query_dictmask)
  BY <1>3 DEF FitsIn
<1> HIDE DEF lists, bFound
<1>7. /\ results_list' \in Seq(Nat)
      /\ bFound => results_list' # <<>>
      /\ reloads = 0 => ToSet(results_list') \subseteq AllWords[query_dictmask]
  <2>0. reloads = 0 => ToSet(results_list) \subseteq AllWords[query_dictmask]
    BY DEF SearchInv, ListFits
  <2>1. CASE bFound
    <3>1. PICK k \in 1..Len(lists) : FirstResults(lists) = lists[k] /\ lists[k] # <<>>
      BY <1>5, <2>1, FirstResultsFacts DEF bFound
    <3>2. lists[k] \in Seq(Nat)
      BY <1>5
    <3>3. /\ results_list' \in Seq(Nat)
          /\ ToSet(results_list') = ToSet(results_list) \cup ToSet(lists[k])
      BY <1>1, <1>4, <2>1, <3>1, <3>2, JoinedWords
    <3>4. results_list' # <<>>
      <4>1. lists[k][1] \in ToSet(lists[k])
        BY <3>1, <3>2, NotEmpty
      <4>2. QED BY <3>3, <4>1, ToSetFacts
    <3>5. ASSUME reloads = 0 PROVE ToSet(lists[k]) \subseteq AllWords[query_dictmask]
      <4>1. k \in 1..Len(query_dictmask) /\ ToSet(lists[k]) \subseteq ToSet(Words(query_dictmask[k]))
        BY <1>6, <3>5 DEF Within, lists
      <4>2. QED BY <1>1, <4>1, OfAllWords
    <3>6. QED BY <2>0, <3>3, <3>4, <3>5
  <2>2. CASE ~bFound
    BY <1>1, <1>4, <2>0, <2>2
  <2>3. QED BY <2>1, <2>2
<1>8. SearchTypes'
  BY <1>1, <1>4, <1>7, EndsLeave DEF SearchInv, SearchTypes
<1>9. SearchesFit'
  <2>1. \A k \in 1..Len(searches') :
           k \in 1..Len(searches) /\ SameCounts(searches'[k], searches[k])
    BY <1>1, EndsLeave
  <2>2. ASSUME NEW k \in 1..Len(searches') PROVE FitsIn(searches'[k], query_dictmask')
    <3>1. FitsIn(searches[k], query_dictmask) /\ SameCounts(searches'[k], searches[k])
      BY <2>1 DEF SearchInv, SearchesFit
    <3>2. QED BY <1>4, <3>1 DEF FitsIn, Within, SameCounts
  <2>3. reloads' = 0 => \A k \in 1..Len(searches') : ~searches'[k].reloaded
    BY <1>4, <2>1 DEF SearchInv, SearchesFit, SameCounts
  <2>4. started' # 0
    BY <1>4 DEF SearchInv, SearchesFit
  <2>5. QED BY <2>2, <2>3, <2>4 DEF SearchesFit
<1>10. ListFits'
  <2>1. started' # 0
    BY <1>4 DEF SearchInv, SearchesFit
  <2>2. label' = "Results" => results_list' # <<>>
    BY <1>4, <1>7
  <2>3. QED BY <1>4, <1>7, <2>1, <2>2 DEF ListFits
<1>11. ListsThere'
  <2>1. broken' \in {"article", "reslist"} => reloads > 0
    <3>1. SUFFICES ASSUME Len(query_dictmask) > Len(lists) PROVE reloads > 0
      BY <1>4 DEF Intact
    <3>2. reloads = 0 => Len(lists) = Len(query_dictmask)
      BY <1>6 DEF Within, lists
    <3>3. QED BY <1>1, <1>5, <3>1, <3>2
  <2>2. broken' # "ppMatchWord"
    BY <1>4 DEF Intact
  <2>3. QED BY <1>4, <2>1, <2>2 DEF ListsThere
<1>12. QED BY <1>8, <1>9, <1>10, <1>11 DEF SearchInv

\* The next dictionary that is searched is one of those that are loaded.
LEMMA NextSearched ==
    ASSUME NEW mask \in DictLists, NEW from \in Nat
    PROVE  LET next == SelectInSubSeq(mask, from + 1, Len(mask), Searched)
           IN  /\ next = 0 => \A k \in from + 1..Len(mask) : ~Searched(mask[k])
               /\ next # 0 => /\ next \in from + 1..Len(mask) /\ Searched(mask[next])
                              /\ \A k \in from + 1..next - 1 : ~Searched(mask[k])
<1> DEFINE I == {k \in from + 1..Len(mask) : Searched(mask[k])}
           next == SelectInSubSeq(mask, from + 1, Len(mask), Searched)
           least == CHOOSE x \in I : \A y \in I : x <= y
<1>1. next = IF I # {} THEN least ELSE 0
  BY DEF SelectInSubSeq, Min
<1>2. Len(mask) \in Nat
  BY MaskFacts
<1>3. I \in SUBSET Nat
  BY <1>2
<1>4. CASE I = {}
  BY <1>1, <1>4
<1>5. CASE I # {}
  <2>1. \E x \in I : \A y \in I : x <= y
    <3> HIDE DEF I
    <3>1. QED BY <1>3, <1>5, LeastNat
  <2>2. least \in I /\ \A y \in I : least <= y
    BY <2>1
  <2> HIDE DEF least
  <2>3. next = least /\ next \in Nat /\ next # 0
    BY <1>1, <1>2, <1>5, <2>2
  <2> HIDE DEF next
  <2>4. next \in from + 1..Len(mask) /\ Searched(mask[next])
    BY <2>2, <2>3
  <2>5. ASSUME NEW k \in from + 1..next - 1 PROVE ~Searched(mask[k])
    <3>1. k \in from + 1..Len(mask) /\ ~(next <= k)
      BY <1>2, <2>3, <2>4
    <3>2. k \notin I
      BY <2>2, <2>3, <3>1
    <3>3. QED BY <3>1, <3>2
  <2>6. QED BY <2>3, <2>4, <2>5 DEF next
<1>6. QED BY <1>4, <1>5

\* The search when it goes on to a dictionary.
AfterNext(s, next) ==
    [s EXCEPT !.i = next, !.j = 1, !.iwords = Len(Words(query_dictmask[next]))]

\* The search begins with the first article of a dictionary.
LEMMA NextDictStep ==
    ASSUME SearchInv, broken = Intact, searches # <<>>, NextDict
    PROVE  SearchInv'
<1>1. searches \in Seq(SearchRecords) /\ query_dictmask \in DictLists
  BY DEF SearchInv, SearchTypes
<1>2. search \in SearchRecords /\ search = searches[Len(searches)] /\ Len(searches) \in 1..Len(searches)
  BY <1>1, LastFacts DEF search
<1>3. FitsIn(search, query_dictmask)
  BY <1>2 DEF SearchInv, SearchesFit
<1>4. search.i \in Nat /\ search.reloaded \in BOOLEAN /\ search.at = "loop" /\ Len(query_dictmask) \in Nat
  BY <1>1, <1>2, MaskFacts DEF SearchRecords, NextDict
<1> DEFINE next == SelectInSubSeq(query_dictmask, search.i + 1, Len(query_dictmask), Searched)
<1>5. CASE next = 0
  BY <1>5, FinishStep DEF NextDict, SearchEnds
<1>6. CASE next # 0
  <2> DEFINE rec == AfterNext(search, next)
  <2>1. Set(rec) /\ UNCHANGED <<results_list, label, broken, others>>
    BY <1>6 DEF NextDict, AfterNext
  <2>2. next \in search.i + 1..Len(query_dictmask)
    BY <1>1, <1>4, <1>6, NextSearched
  <2> HIDE DEF next
  <2> DEFINE l == Len(Words(query_dictmask[next]))
  <2>3. l \in Nat /\ next \in Nat /\ next # 0 /\ next <= Len(query_dictmask)
    BY <1>1, <1>4, <2>2, MaskFacts
  <2>4. rec = [search EXCEPT !.i = next, !.j = 1, !.iwords = l]
    BY DEF AfterNext
  <2> HIDE DEF l, rec
  <2>5. rec \in SearchRecords
    <3>1. rec = [query |-> search.query, at |-> search.at, reslist |-> search.reslist,
                 i |-> next, j |-> 1, iwords |-> l, search_count |-> search.search_count,
                 cancel |-> search.cancel, dialog |-> search.dialog, reloaded |-> search.reloaded,
                 freed |-> search.freed]
      BY <1>2, <2>4 DEF SearchRecords
    <3>2. QED BY <1>2, <2>3, <3>1 DEF SearchRecords
  <2>6. /\ rec.i = next /\ rec.j = 1 /\ rec.iwords = l /\ rec.at = "loop"
        /\ rec.reslist = search.reslist /\ rec.reloaded = search.reloaded
    BY <1>2, <1>4, <2>4 DEF SearchRecords
  <2>7. ASSUME ~search.reloaded PROVE Within(rec, query_dictmask)
    <3>1. Within(search, query_dictmask)
      BY <1>3, <2>7 DEF FitsIn
    <3>2. QED BY <2>3, <2>6, <3>1 DEF Within, l
  <2>8. FitsIn(rec, query_dictmask)
    BY <2>3, <2>6, <2>7 DEF FitsIn
  <2>9. QED BY <2>1, <2>5, <2>6, <2>8, SetStep
<1>7. QED BY <1>5, <1>6

\* The search when it calls search_func, or begins its loop.
AfterCall(s, at) == [s EXCEPT !.at = at]

\* Nothing is counted by that.
LEMMA CallStep ==
    ASSUME SearchInv, broken = Intact, searches # <<>>, NEW at \in {"loop", "update"},
           at = "update" => search.j <= search.iwords,
           Set(AfterCall(search, at)), UNCHANGED <<results_list, label, broken, others>>
    PROVE  SearchInv'
<1> DEFINE rec == AfterCall(search, at)
<1>1. searches \in Seq(SearchRecords)
  BY DEF SearchInv, SearchTypes
<1>2. search \in SearchRecords /\ search = searches[Len(searches)] /\ Len(searches) \in 1..Len(searches)
  BY <1>1, LastFacts DEF search
<1>3. FitsIn(search, query_dictmask)
  BY <1>2 DEF SearchInv, SearchesFit
<1>4. rec \in SearchRecords
  BY <1>2 DEF AfterCall, SearchRecords
<1>5. /\ rec.at = at /\ rec.i = search.i /\ rec.j = search.j /\ rec.iwords = search.iwords
      /\ rec.reslist = search.reslist /\ rec.reloaded = search.reloaded
  BY <1>2 DEF AfterCall, SearchRecords
<1> HIDE DEF rec
<1>6. FitsIn(rec, query_dictmask)
  BY <1>3, <1>5 DEF FitsIn, Within
<1>7. QED BY <1>4, <1>5, <1>6, SetStep DEF rec

\* A step of the search.
LEMMA LookupStep ==
    ASSUME SearchInv, LookupData
    PROVE  SearchInv'
<1>1. broken = Intact /\ searches # <<>>
  BY DEF LookupData, Working
<1>2. CASE Created
  <2>1. CASE ShowResults /\ searches' = Front(searches) /\ UNCHANGED prefix
    BY <1>1, <2>1, FinishStep DEF SearchEnds
  <2>2. CASE Set(AfterCall(search, "loop")) /\ UNCHANGED <<results_list, label, broken, others>>
    BY <1>1, <2>2, CallStep
  <2>3. QED BY <1>2, <2>1, <2>2 DEF Created, AfterCall
<1>3. CASE NextDict
  BY <1>1, <1>3, NextDictStep
<1>4. CASE NextArticle
  <2>1. search.j <= search.iwords
    BY <1>4 DEF NextArticle
  <2>2. CASE Finish
    BY <1>1, <2>2, FinishStep DEF SearchEnds
  <2>3. CASE Set(AfterCall(search, "update")) /\ UNCHANGED <<results_list, label, broken, others>>
    BY <1>1, <2>1, <2>3, CallStep
  <2>4. CASE Read
    BY <1>1, <2>1, <2>4, ReadStep
  <2>5. QED BY <1>4, <2>2, <2>3, <2>4 DEF NextArticle, AfterCall
<1>5. CASE Updated
  <2>1. /\ searches \in Seq(SearchRecords) /\ \A k \in 1..Len(searches) : FitsIn(searches[k], query_dictmask)
    BY DEF SearchInv, SearchTypes, SearchesFit
  <2>2. FitsIn(search, query_dictmask)
    <3>1. search = searches[Len(searches)] /\ Len(searches) \in 1..Len(searches)
      <4>1. searches # <<>> /\ searches \in Seq(SearchRecords)
        BY <1>1, <2>1
      <4>2. /\ Len(searches) \in Nat /\ Len(searches) >= 1
            /\ Last(searches) = searches[Len(searches)]
        BY <4>1, LastFacts
      <4>3. QED BY <4>2 DEF search
    <3>2. QED BY <2>1, <3>1
  <2>3. search.j <= search.iwords
    BY <1>5, <2>2 DEF Updated, FitsIn
  <2>4. QED BY <1>1, <1>5, <2>3, ReadStep DEF Updated
<1>6. QED BY <1>2, <1>3, <1>4, <1>5 DEF LookupData

\* Typing changes what is listed and asked for.
LEMMA TypeStep ==
    ASSUME SearchInv, Type
    PROVE  SearchInv'
<1>1. /\ broken = Intact /\ entry' \in Texts /\ onSearchEntryChanged(entry', query_dictmask)
      /\ query_dictmask' = query_dictmask /\ searches' = searches
      /\ started' = started /\ reloads' = reloads
  BY DEF Type, MainLoop, bounds
<1>2. results_list \in Seq(Nat) /\ query_dictmask \in DictLists
  BY DEF SearchInv, SearchTypes
<1>3. SearchesFit'
  BY <1>1 DEF SearchInv, SearchesFit
<1>4. CASE query_dictmask = <<>>
  <2>1. results_list' = results_list /\ label' = label /\ broken' = broken
    BY <1>1, <1>4 DEF onSearchEntryChanged
  <2>2. SearchTypes'
    BY <1>1, <2>1 DEF SearchInv, SearchTypes
  <2>3. ListFits'
    BY <1>1, <1>4, <2>1 DEF SearchInv, ListFits
  <2>4. ListsThere'
    BY <1>1, <2>1 DEF SearchInv, ListsThere
  <2>5. QED BY <1>3, <2>2, <2>3, <2>4 DEF SearchInv
<1>5. CASE query_dictmask # <<>>
  <2> DEFINE word == entry'
             mask == query_dictmask
  <2>1. word \in Texts /\ mask \in DictLists /\ mask # <<>> /\ onSearchEntryChanged(word, mask)
    BY <1>1, <1>2, <1>5
  <2>2. /\ results_list' \in Seq(Nat)
        /\ \/ results_list' = results_list /\ label' = "NoResults"
           \/ results_list' = results_list /\ label' = label /\ broken' # Intact
           \/ /\ ToSet(results_list') \subseteq AllWords[mask]
              /\ label' = "Results" => results_list' # <<>>
        /\ \/ broken' = Intact
           \/ /\ broken' = "ppMatchWord"
              /\ \E k \in DOMAIN mask : Dictionary[mask[k]].syns # <<>>
        /\ Query[word].type \in {qtPATTERN, qtREGEX} /\ broken' = Intact =>
              results_list' = RuleMatches[word][mask]
    <3> HIDE DEF word, mask
    <3>1. QED BY <1>1, <1>2, <2>1, EntryChanged
  <2>3. SearchTypes'
    BY <1>1, <2>2 DEF SearchInv, SearchTypes
  <2>4. ListsThere'
    <3>1. CASE broken' = Intact
      BY <3>1 DEF ListsThere, Intact
    <3>2. CASE broken' = "ppMatchWord"
      BY <1>1, <2>2, <3>2 DEF ListsThere, Intact
    <3>3. QED BY <2>2, <3>1, <3>2
  <2>5. ListFits'
    <3>1. reloads' = 0 => ToSet(results_list') \subseteq AllWords[query_dictmask']
      BY <1>1, <2>2 DEF SearchInv, ListFits
    <3>2. label' = "Results" /\ searches' = <<>> => results_list' # <<>>
      BY <1>1, <2>2 DEF SearchInv, ListFits
    <3>3. (Query[entry'].type \in {qtPATTERN, qtREGEX} /\ broken' = Intact) =>
             results_list' = RuleMatches[entry'][query_dictmask']
      BY <1>1, <2>2
    <3>4. QED BY <3>1, <3>2, <3>3 DEF ListFits
  <2>6. QED BY <1>3, <2>3, <2>4, <2>5 DEF SearchInv
<1>6. QED BY <1>4, <1>5

\* Searches that were under way when the dictionaries change are marked.
LEMMA ReloadStep ==
    ASSUME SearchInv, Reload
    PROVE  SearchInv'
<1>1. /\ broken = Intact /\ query_dictmask' \in DictLists
      /\ searches' = [k \in DOMAIN searches |-> [searches[k] EXCEPT !.reloaded = TRUE]]
      /\ entry' = entry /\ started' = started /\ reloads' = reloads + 1
  BY DEF Reload, MainLoop
<1>2. /\ results_list \in Seq(Nat) /\ query_dictmask \in DictLists /\ entry \in Texts
      /\ searches \in Seq(SearchRecords) /\ started \in Nat /\ reloads \in Nat
  BY DEF SearchInv, SearchTypes
<1>3. reloads' \in Nat /\ reloads' > 0 /\ reloads' # 0
  BY <1>1, <1>2
<1>4. ASSUME NEW s \in SearchRecords
      PROVE  LET t == [s EXCEPT !.reloaded = TRUE]
             IN  t \in SearchRecords /\ (FitsIn(s, query_dictmask) => FitsIn(t, query_dictmask'))
  <2> DEFINE t == [s EXCEPT !.reloaded = TRUE]
  <2>1. t \in SearchRecords
    BY DEF SearchRecords
  <2>2. /\ t.reloaded = TRUE /\ t.at = s.at /\ t.i = s.i /\ t.j = s.j /\ t.iwords = s.iwords
    BY DEF SearchRecords
  <2> HIDE DEF t
  <2>3. QED BY <2>1, <2>2 DEF FitsIn, t
<1>5. /\ searches' \in Seq(SearchRecords) /\ Len(searches') = Len(searches)
      /\ \A k \in 1..Len(searches) : searches'[k] = [searches[k] EXCEPT !.reloaded = TRUE]
  <2>1. Len(searches) \in Nat /\ DOMAIN searches = 1..Len(searches)
    BY <1>2
  <2>2. \A k \in 1..Len(searches) : searches[k] \in SearchRecords
    BY <1>2
  <2>3. searches' \in [1..Len(searches) -> SearchRecords]
    BY <1>1, <1>4, <2>1, <2>2
  <2>4. QED BY <1>1, <2>1, <2>3
<1>6. SearchesFit'
  <2>1. ASSUME NEW k \in 1..Len(searches') PROVE FitsIn(searches'[k], query_dictmask')
    <3>1. k \in 1..Len(searches) /\ searches'[k] = [searches[k] EXCEPT !.reloaded = TRUE]
      BY <1>5
    <3>2. searches[k] \in SearchRecords /\ FitsIn(searches[k], query_dictmask)
      BY <1>2, <3>1 DEF SearchInv, SearchesFit
    <3>3. QED BY <1>4, <3>1, <3>2
  <2>2. started' = 0 => searches' = <<>>
    <3>1. started = 0 => Len(searches') = 0
      BY <1>2, <1>5, EmptySeq DEF SearchInv, SearchesFit
    <3>2. QED BY <1>1, <1>5, <3>1, EmptySeq
  <2>3. QED BY <1>3, <2>1, <2>2 DEF SearchesFit
<1>7. searches' = <<>> => searches = <<>>
  BY <1>2, <1>5, EmptySeq
<1>8. CASE query_dictmask' = <<>>
  <2>1. results_list' = results_list /\ label' = "NoDictionary" /\ broken' = broken
    BY <1>8 DEF Reload
  <2>2. SearchTypes'
    BY <1>1, <1>2, <1>3, <1>5, <2>1 DEF SearchTypes
  <2>3. ListFits'
    BY <1>3, <1>8, <2>1 DEF ListFits
  <2>4. ListsThere'
    BY <1>1, <2>1 DEF ListsThere, Intact
  <2>5. QED BY <1>6, <2>2, <2>3, <2>4 DEF SearchInv
<1>9. CASE query_dictmask' # <<>>
  <2> DEFINE mask == query_dictmask'
  <2>1. mask \in DictLists /\ mask # <<>> /\ onSearchEntryChanged(entry, mask)
    BY <1>1, <1>9 DEF Reload
  <2>2. /\ results_list' \in Seq(Nat)
        /\ \/ results_list' = results_list /\ label' = "NoResults"
           \/ results_list' = results_list /\ label' = label /\ broken' # Intact
           \/ /\ ToSet(results_list') \subseteq AllWords[mask]
              /\ label' = "Results" => results_list' # <<>>
        /\ \/ broken' = Intact
           \/ /\ broken' = "ppMatchWord"
              /\ \E k \in DOMAIN mask : Dictionary[mask[k]].syns # <<>>
        /\ Query[entry].type \in {qtPATTERN, qtREGEX} /\ broken' = Intact =>
              results_list' = RuleMatches[entry][mask]
    <3> HIDE DEF mask
    <3>1. QED BY <1>1, <1>2, <2>1, EntryChanged
  <2>3. SearchTypes'
    BY <1>1, <1>2, <1>3, <1>5, <2>2 DEF SearchTypes
  <2>4. ListsThere'
    BY <1>3, <2>2 DEF ListsThere, Intact
  <2>5. ListFits'
    <3>1. label' = "Results" /\ searches' = <<>> => results_list' # <<>>
      BY <1>7, <2>2 DEF SearchInv, ListFits
    <3>2. (Query[entry'].type \in {qtPATTERN, qtREGEX} /\ broken' = Intact) =>
             results_list' = RuleMatches[entry'][query_dictmask']
      BY <1>1, <2>2
    <3>3. QED BY <1>3, <3>1, <3>2 DEF ListFits
  <2>6. QED BY <1>6, <2>3, <2>4, <2>5 DEF SearchInv
<1>10. QED BY <1>8, <1>9

\* The answer to a dialog is for one search.
LEMMA ResponseStep ==
    ASSUME SearchInv, onLookupProgressDialogResponse
    PROVE  SearchInv'
<1>1. PICK n \in DOMAIN searches, open \in BOOLEAN :
          searches' = [searches EXCEPT ![n].cancel = TRUE, ![n].dialog = open]
  BY DEF onLookupProgressDialogResponse
<1>2. /\ broken = Intact /\ query_dictmask' = query_dictmask /\ entry' = entry /\ started' = started
      /\ reloads' = reloads /\ results_list' = results_list /\ label' = label /\ broken' = broken
  BY DEF onLookupProgressDialogResponse, MainLoop, bounds
<1>3. searches \in Seq(SearchRecords) /\ Len(searches) \in Nat /\ n \in 1..Len(searches)
  BY <1>1 DEF SearchInv, SearchTypes
<1> DEFINE s == searches[n]
           t == [s EXCEPT !.cancel = TRUE, !.dialog = open]
<1>4. s \in SearchRecords
  BY <1>3
<1>5. searches' = [searches EXCEPT ![n] = t]
  BY <1>1, <1>3
<1> HIDE DEF s
<1>6. t \in SearchRecords
  BY <1>1, <1>4 DEF SearchRecords
<1>7. /\ t.at = s.at /\ t.i = s.i /\ t.j = s.j /\ t.iwords = s.iwords /\ t.reslist = s.reslist
      /\ t.reloaded = s.reloaded
  BY <1>4 DEF SearchRecords
<1> HIDE DEF t
<1>8. /\ searches' \in Seq(SearchRecords) /\ Len(searches') = Len(searches) /\ searches'[n] = t
      /\ \A k \in 1..Len(searches) : k # n => searches'[k] = searches[k]
  BY <1>3, <1>5, <1>6
<1>9. searches' # <<>> /\ searches # <<>>
  BY <1>3, <1>8, EmptySeq
<1>10. FitsIn(s, query_dictmask) => FitsIn(t, query_dictmask)
  BY <1>7 DEF FitsIn, Within
<1>11. SearchesFit'
  <2>1. ASSUME NEW k \in 1..Len(searches')
        PROVE  FitsIn(searches'[k], query_dictmask') /\ (reloads' = 0 => ~searches'[k].reloaded)
    <3>1. FitsIn(searches[k], query_dictmask) /\ (reloads = 0 => ~searches[k].reloaded)
      BY <1>8 DEF SearchInv, SearchesFit
    <3>2. CASE k = n
      BY <1>2, <1>7, <1>8, <1>10, <3>1, <3>2 DEF s
    <3>3. CASE k # n
      BY <1>2, <1>8, <3>1, <3>3
    <3>4. QED BY <3>2, <3>3
  <2>2. started' # 0
    BY <1>2, <1>9 DEF SearchInv, SearchesFit
  <2>3. QED BY <2>1, <2>2 DEF SearchesFit
<1>12. SearchTypes'
  BY <1>2, <1>8 DEF SearchInv, SearchTypes
<1>13. ListFits'
  <2>1. started # 0
    BY <1>9 DEF SearchInv, SearchesFit
  <2>2. QED BY <1>2, <1>9, <2>1 DEF SearchInv, ListFits
<1>14. ListsThere'
  BY <1>2 DEF SearchInv, ListsThere
<1>15. QED BY <1>11, <1>12, <1>13, <1>14 DEF SearchInv

\* A search begins with an empty list for each dictionary, and empties what is shown.
LEMMA SearchStep ==
    ASSUME SearchInv, SearchWord
    PROVE  SearchInv'
<1>1. /\ broken = Intact /\ Query[entry].type = qtDATA
      /\ searches' = Append(searches, NewSearch(Query[entry].query))
      /\ results_list' = <<>> /\ started' = started + 1
      /\ query_dictmask' = query_dictmask /\ entry' = entry
      /\ reloads' = reloads /\ label' = label /\ broken' = broken
  BY DEF SearchWord, MainLoop
<1>2. /\ query_dictmask \in DictLists /\ entry \in Texts /\ searches \in Seq(SearchRecords)
      /\ started \in Nat /\ Len(searches) \in Nat
  BY DEF SearchInv, SearchTypes
<1> DEFINE s == NewSearch(Query[entry].query)
<1>3. s \in SearchRecords /\ FitsIn(s, query_dictmask) /\ ~s.reloaded
  BY <1>1, <1>2, QueryType, NewSearchFits
<1> HIDE DEF s
<1>4. searches' = Append(searches, s)
  BY <1>1 DEF s
<1>5. /\ searches' \in Seq(SearchRecords) /\ Len(searches') = Len(searches) + 1
      /\ searches'[Len(searches) + 1] = s
      /\ \A k \in 1..Len(searches) : searches'[k] = searches[k]
  BY <1>2, <1>3, <1>4, AppendProperties
<1>6. searches' # <<>>
  BY <1>2, <1>5, EmptySeq
<1>7. results_list' \in Seq(Nat) /\ ToSet(results_list') = {}
  BY <1>1, ToSetFacts
<1>8. started' # 0 /\ started' \in Nat
  BY <1>1, <1>2
<1>9. SearchTypes'
  BY <1>1, <1>5, <1>7, <1>8 DEF SearchInv, SearchTypes
<1>10. SearchesFit'
  <2>1. ASSUME NEW k \in 1..Len(searches')
        PROVE  FitsIn(searches'[k], query_dictmask') /\ (reloads' = 0 => ~searches'[k].reloaded)
    <3>1. CASE k = Len(searches) + 1
      BY <1>1, <1>3, <1>5, <3>1
    <3>2. CASE k \in 1..Len(searches)
      BY <1>1, <1>5, <3>2 DEF SearchInv, SearchesFit
    <3>3. QED BY <1>2, <1>5, <3>1, <3>2
  <2>2. QED BY <1>8, <2>1 DEF SearchesFit
<1>11. ListFits'
  BY <1>1, <1>6, <1>7, <1>8 DEF ListFits
<1>12. ListsThere'
  BY <1>1 DEF SearchInv, ListsThere
<1>13. QED BY <1>9, <1>10, <1>11, <1>12 DEF SearchInv

\* Where it begins.
LEMMA SearchInit == Init => SearchInv
<1> SUFFICES ASSUME Init PROVE SearchInv
  OBVIOUS
<1>1. /\ query_dictmask \in DictLists /\ entry = <<>> /\ results_list = <<>>
      /\ label \in {"NoDictionary", "NoResults"} /\ searches = <<>> /\ started = 0 /\ reloads = 0
      /\ broken = Intact
  BY DEF Init
<1>2. entry \in Texts /\ Query[entry].type \notin {qtPATTERN, qtREGEX}
  BY <1>1, TextsAssumption, EmptyIsSimple DEF qtSIMPLE, qtPATTERN, qtREGEX
<1>3. ToSet(results_list) = {} /\ results_list \in Seq(Nat) /\ searches \in Seq(SearchRecords)
      /\ Len(searches) = 0
  BY <1>1, ToSetFacts
<1>4. SearchTypes
  BY <1>1, <1>2, <1>3 DEF SearchTypes
<1>5. SearchesFit
  BY <1>1, <1>3 DEF SearchesFit
<1>6. ListFits
  BY <1>1, <1>2, <1>3 DEF ListFits
<1>7. ListsThere
  BY <1>1 DEF ListsThere, Intact
<1>8. QED BY <1>4, <1>5, <1>6, <1>7 DEF SearchInv

\* Each step keeps it.
LEMMA SearchNext == SearchInv /\ [Next]_vars => SearchInv'
<1> SUFFICES ASSUME SearchInv, [Next]_vars PROVE SearchInv'
  OBVIOUS
<1>1. CASE UNCHANGED vars
  BY <1>1 DEF vars, bounds, SearchInv, SearchTypes, SearchesFit, ListFits, ListsThere
<1>2. CASE Next
  BY <1>2, TypeStep, ReloadStep, SearchStep, ResponseStep, LookupStep DEF Next
<1>3. QED BY <1>1, <1>2

\* The search window is always in order: what it lists are words of its dictionaries, and
\* its searches are where their dictionaries are.
THEOREM SearchInvariant == Spec => []SearchInv
<1>1. Spec => []SearchInv
  BY SearchInit, SearchNext, PTL DEF Spec
<1>2. QED BY <1>1

-----------------------------------------------------------------------------
(* The table of KMP.  A search under way that has looked in a text has one,*)
(* as long as no search that interrupted it has ended.                     *)

TableKept(s, mask, table) == ~s.reloaded /\ ~s.freed /\ Looked(s, mask) => table

TableInv ==
    /\ prefix \in BOOLEAN
    /\ \A k \in 1..Len(searches) : TableKept(searches[k], query_dictmask, prefix)
    /\ broken = "prefix" => prefix = FALSE /\ searches # <<>>

\* The search that is running is the last.
LEMMA LastSearch ==
    ASSUME SearchInv, searches # <<>>
    PROVE  /\ search \in SearchRecords /\ search = searches[Len(searches)]
           /\ Len(searches) \in 1..Len(searches) /\ FitsIn(search, query_dictmask)
<1>1. searches \in Seq(SearchRecords)
  BY DEF SearchInv, SearchTypes
<1>2. /\ Len(searches) \in Nat /\ Len(searches) >= 1
      /\ Last(searches) \in SearchRecords /\ Last(searches) = searches[Len(searches)]
  BY <1>1, LastFacts
<1>3. QED BY <1>2 DEF search, SearchInv, SearchesFit

\* The last search goes on; the table is there if it was, or if the search needs it.
LEMMA SetKeeps ==
    ASSUME SearchInv, TableInv, searches # <<>>, NEW rec \in SearchRecords,
           Set(rec), query_dictmask' = query_dictmask, broken' # "prefix",
           prefix' \in BOOLEAN, prefix => prefix',
           rec.reloaded = search.reloaded, rec.freed = search.freed,
           ~search.reloaded /\ Looked(rec, query_dictmask) =>
               Looked(search, query_dictmask) \/ prefix'
    PROVE  TableInv'
<1>1. searches \in Seq(SearchRecords) /\ searches' = Append(Front(searches), rec)
  BY DEF SearchInv, SearchTypes, Set
<1>2. /\ Len(searches) \in Nat /\ Len(searches) >= 1 /\ search = searches[Len(searches)]
      /\ Len(searches') = Len(searches) /\ searches'[Len(searches)] = rec
      /\ \A k \in 1..Len(searches) - 1 : searches'[k] = searches[k]
  <2>1. search = searches[Len(searches)]
    BY LastSearch
  <2>2. QED BY <1>1, <2>1, LastFacts
<1>3. \A k \in 1..Len(searches) : TableKept(searches[k], query_dictmask, prefix)
  BY DEF TableInv
<1>4. ASSUME NEW k \in 1..Len(searches') PROVE TableKept(searches'[k], query_dictmask', prefix')
  <2>1. CASE k = Len(searches)
    <3>1. TableKept(search, query_dictmask, prefix)
      BY <1>2, <1>3
    <3>2. TableKept(rec, query_dictmask, prefix')
      BY <3>1 DEF TableKept
    <3>3. QED BY <1>2, <2>1, <3>2
  <2>2. CASE k # Len(searches)
    <3>1. k \in 1..Len(searches) - 1 /\ k \in 1..Len(searches)
      BY <1>2, <2>2
    <3>2. TableKept(searches[k], query_dictmask, prefix')
      BY <1>3, <3>1 DEF TableKept
    <3>3. QED BY <1>2, <3>1, <3>2
  <2>3. QED BY <2>1, <2>2
<1>5. QED BY <1>4 DEF TableInv

\* Where the running search is, when it is to read an article.
LEMMA AtArticle ==
    ASSUME SearchInv, searches # <<>>, search.j <= search.iwords
    PROVE  /\ query_dictmask \in DictLists /\ search \in SearchRecords
           /\ FitsIn(search, query_dictmask)
           /\ search.i \in Nat \ {0} /\ search.j \in Nat \ {0}
           /\ search.reslist \in Seq(Seq(Nat)) /\ Len(search.reslist) \in Nat
           /\ Len(query_dictmask) \in Nat /\ DOMAIN query_dictmask = 1..Len(query_dictmask)
<1>1. query_dictmask \in DictLists
  BY DEF SearchInv, SearchTypes
<1>2. search \in SearchRecords /\ FitsIn(search, query_dictmask)
  BY LastSearch
<1>3. /\ search.i \in Nat /\ search.j \in Nat /\ search.iwords \in Nat
      /\ search.reslist \in Seq(Seq(Nat)) /\ Len(search.reslist) \in Nat
      /\ Len(query_dictmask) \in Nat /\ DOMAIN query_dictmask = 1..Len(query_dictmask)
  BY <1>1, <1>2, MaskFacts DEF SearchRecords
<1>4. search.j >= 1 /\ search.i # 0
  BY <1>2, <1>3 DEF FitsIn
<1>5. QED BY <1>1, <1>2, <1>3, <1>4

\* An article is read: the table is there after a text of it.
LEMMA ReadKeepsTable ==
    ASSUME SearchInv, TableInv, broken = Intact, searches # <<>>,
           search.j <= search.iwords, Read
    PROVE  TableInv'
<1>1. query_dictmask' = query_dictmask
  BY DEF Read, others
<1>2. /\ query_dictmask \in DictLists /\ search \in SearchRecords
      /\ search.i \in Nat \ {0} /\ search.j \in Nat \ {0}
      /\ search.reslist \in Seq(Seq(Nat)) /\ Len(search.reslist) \in Nat
      /\ Len(query_dictmask) \in Nat /\ DOMAIN query_dictmask = 1..Len(query_dictmask)
  BY AtArticle
<1> DEFINE gone == \/ search.i > Len(query_dictmask) \/ search.i > Len(search.reslist)
                   \/ search.j > Len(Words(dict))
           texts == LooksIn[dict][search.query][search.j]
           null == WritesNull(prefix, texts)
<1>3. CASE gone
  <2>1. broken' = "article" /\ searches' = searches /\ prefix' = prefix
    BY <1>3 DEF Read
  <2>2. QED BY <1>1, <2>1 DEF TableInv
<1>4. CASE ~gone /\ null
  <2>1. searches' = searches /\ prefix' = prefix
    BY <1>4 DEF Read
  <2>2. prefix = FALSE
    BY <1>4 DEF WritesNull, TableInv
  <2>3. QED BY <1>1, <2>1, <2>2 DEF TableInv
<1>5. CASE ~gone /\ ~null
  <2> DEFINE n == search.i
             d == query_dictmask[n]
             old == search.reslist[n]
             list == IF SearchesTrue[d][search.query][search.j]
                     THEN Found(old, Words(d)[search.j]) ELSE old
             rec == AfterRead(search, list)
  <2>1. Set(rec) /\ prefix' = (prefix \/ texts # <<>>) /\ broken' = broken
    BY <1>5 DEF Read, AfterRead, dict
  <2>2. n \in 1..Len(query_dictmask) /\ n \in 1..Len(search.reslist)
    BY <1>2, <1>5
  <2>3. Words(d) \in Seq(Nat) /\ Len(Words(d)) \in Nat /\ old \in Seq(Nat)
    <3>1. Words(d) \in Seq(Nat) /\ Len(Words(d)) \in Nat
      BY <1>2, <2>2, MaskFacts
    <3>2. old \in Seq(Nat)
      BY <1>2, <2>2
    <3>3. QED BY <3>1, <3>2
  <2>4. search.j \in 1..Len(Words(d))
    <3>1. ~(search.j > Len(Words(d)))
      BY <1>5 DEF dict
    <3>2. QED BY <1>2, <2>3, <3>1
  <2>5. Words(d)[search.j] \in Nat
    <3> DEFINE ws == Words(d)
    <3>1. ws \in Seq(Nat) /\ search.j \in 1..Len(ws)
      BY <2>3, <2>4
    <3> HIDE DEF ws
    <3>2. ws[search.j] \in Nat
      BY <3>1
    <3>3. QED BY <3>2 DEF ws
  <2> HIDE DEF d, old
  <2>6. list \in Seq(Nat)
    BY <2>3, <2>5, FoundFacts
  <2> HIDE DEF list
  <2>7. /\ rec \in SearchRecords
        /\ rec.j = search.j + 1 /\ rec.i = n /\ rec.query = search.query
        /\ rec.reloaded = search.reloaded /\ rec.freed = search.freed
    BY <1>2, <2>2, <2>6, AfterReadFacts
  <2> HIDE DEF rec
  <2>8. prefix' \in BOOLEAN /\ (prefix => prefix') /\ (texts # <<>> => prefix')
    <3> HIDE DEF texts
    <3>1. QED BY <2>1
  <2>9. ASSUME Looked(rec, query_dictmask) PROVE Looked(search, query_dictmask) \/ prefix'
    <3>1. PICK k \in DOMAIN query_dictmask : \E j \in DOMAIN Words(query_dictmask[k]) :
              /\ Searched(query_dictmask[k]) /\ (k < rec.i \/ (k = rec.i /\ j < rec.j))
              /\ LooksIn[query_dictmask[k]][rec.query][j] # <<>>
      BY <2>9 DEF Looked
    <3>2. PICK j \in DOMAIN Words(query_dictmask[k]) :
              /\ Searched(query_dictmask[k]) /\ (k < n \/ (k = n /\ j < search.j + 1))
              /\ LooksIn[query_dictmask[k]][search.query][j] # <<>>
      BY <2>7, <3>1
    <3>3. j \in Nat
      <4>1. k \in 1..Len(query_dictmask)
        BY <1>2, <3>1
      <4>2. Words(query_dictmask[k]) \in Seq(Nat)
        BY <1>2, <4>1, MaskFacts
      <4>3. QED BY <3>2, <4>2
    <3>4. CASE k = n /\ j = search.j
      BY <2>8, <3>2, <3>4 DEF dict
    <3>5. CASE ~(k = n /\ j = search.j)
      <4>1. k < n \/ (k = n /\ j < search.j)
        BY <1>2, <3>2, <3>3, <3>5
      <4>2. QED BY <3>1, <3>2, <4>1 DEF Looked
    <3>6. QED BY <3>4, <3>5
  <2>10. broken' # "prefix"
    BY <2>1 DEF Intact
  <2>11. QED BY <1>1, <2>1, <2>7, <2>8, <2>9, <2>10, SetKeeps
<1>6. QED BY <1>3, <1>4, <1>5

\* The loop goes on to the next dictionary that is searched.
LEMMA NextKeepsTable ==
    ASSUME SearchInv, TableInv, broken = Intact, searches # <<>>, NextDict, ~Finish
    PROVE  TableInv'
<1> DEFINE next == SelectInSubSeq(query_dictmask, search.i + 1, Len(query_dictmask), Searched)
           rec == AfterNext(search, next)
<1>1. /\ Set(rec) /\ prefix' = prefix /\ broken' = broken /\ query_dictmask' = query_dictmask
      /\ next # 0 /\ search.j > search.iwords
  BY DEF NextDict, AfterNext, others
<1>2. /\ searches \in Seq(SearchRecords) /\ query_dictmask \in DictLists
  BY DEF SearchInv, SearchTypes
<1>3. search \in SearchRecords
  BY LastSearch
<1>4. FitsIn(search, query_dictmask)
  BY LastSearch
<1>5. /\ search.i \in Nat /\ search.j \in Nat /\ search.iwords \in Nat
      /\ Len(query_dictmask) \in Nat /\ DOMAIN query_dictmask = 1..Len(query_dictmask)
  BY <1>2, <1>3, MaskFacts DEF SearchRecords
<1>6. /\ next \in search.i + 1..Len(query_dictmask)
      /\ \A k \in search.i + 1..next - 1 : ~Searched(query_dictmask[k])
  BY <1>1, <1>2, <1>5, NextSearched
<1> HIDE DEF next
<1>7. Len(Words(query_dictmask[next])) \in Nat /\ next \in Nat
  <2>1. next \in 1..Len(query_dictmask)
    BY <1>5, <1>6
  <2>2. QED BY <1>2, <2>1, MaskFacts
<1>8. /\ rec \in SearchRecords /\ rec.i = next /\ rec.j = 1 /\ rec.query = search.query
      /\ rec.reloaded = search.reloaded /\ rec.freed = search.freed
  <2> DEFINE l == Len(Words(query_dictmask[next]))
  <2>1. rec = [search EXCEPT !.i = next, !.j = 1, !.iwords = l]
    BY DEF AfterNext
  <2> HIDE DEF l, rec
  <2>2. rec = [query |-> search.query, at |-> search.at, reslist |-> search.reslist,
               i |-> next, j |-> 1, iwords |-> l, search_count |-> search.search_count,
               cancel |-> search.cancel, dialog |-> search.dialog, reloaded |-> search.reloaded,
               freed |-> search.freed]
    BY <1>3, <2>1 DEF SearchRecords
  <2>3. l \in Nat
    BY <1>7 DEF l
  <2>4. QED BY <1>3, <1>7, <2>2, <2>3 DEF SearchRecords
<1> HIDE DEF rec
<1>9. ASSUME ~search.reloaded, Looked(rec, query_dictmask) PROVE Looked(search, query_dictmask)
  <2>1. PICK k \in DOMAIN query_dictmask : \E j \in DOMAIN Words(query_dictmask[k]) :
            /\ Searched(query_dictmask[k]) /\ (k < rec.i \/ (k = rec.i /\ j < rec.j))
            /\ LooksIn[query_dictmask[k]][rec.query][j] # <<>>
    BY <1>9 DEF Looked
  <2>2. PICK j \in DOMAIN Words(query_dictmask[k]) :
            /\ Searched(query_dictmask[k]) /\ (k < next \/ (k = next /\ j < 1))
            /\ LooksIn[query_dictmask[k]][search.query][j] # <<>>
    BY <1>8, <2>1
  <2>3. k \in 1..Len(query_dictmask) /\ k \in Nat /\ Words(query_dictmask[k]) \in Seq(Nat)
    <3>1. k \in 1..Len(query_dictmask)
      BY <1>5, <2>1
    <3>2. QED BY <1>2, <1>5, <3>1, MaskFacts
  <2>4. j \in 1..Len(Words(query_dictmask[k])) /\ Len(Words(query_dictmask[k])) \in Nat
    BY <2>2, <2>3
  <2>5. k <= search.i
    <3>1. k < next /\ k \notin search.i + 1..next - 1
      BY <1>6, <1>7, <2>2, <2>4
    <3>2. QED BY <1>5, <1>7, <2>3, <3>1
  <2>6. k = search.i => j < search.j
    <3>1. SUFFICES ASSUME k = search.i PROVE j < search.j
      OBVIOUS
    <3>2. search.iwords = Len(Words(query_dictmask[k]))
      BY <1>4, <1>9, <2>3, <3>1 DEF FitsIn, Within
    <3>3. QED BY <1>1, <1>5, <2>4, <3>2
  <2>7. k < search.i \/ (k = search.i /\ j < search.j)
    BY <1>5, <2>3, <2>5, <2>6
  <2>8. QED BY <2>1, <2>2, <2>7 DEF Looked
<1>10. prefix \in BOOLEAN /\ broken' # "prefix"
  BY <1>1 DEF TableInv, Intact
<1>11. QED BY <1>1, <1>8, <1>9, <1>10, SetKeeps

\* Nothing is looked in by a call of search_func.
LEMMA CallKeepsTable ==
    ASSUME SearchInv, TableInv, broken = Intact, searches # <<>>, NEW at \in {"loop", "update"},
           Set(AfterCall(search, at)), UNCHANGED <<query_dictmask, prefix, broken>>
    PROVE  TableInv'
<1> DEFINE rec == AfterCall(search, at)
<1>1. search \in SearchRecords
  BY LastSearch
<1>2. rec \in SearchRecords
  BY <1>1 DEF AfterCall, SearchRecords
<1>3. /\ rec.i = search.i /\ rec.j = search.j /\ rec.query = search.query
      /\ rec.reloaded = search.reloaded /\ rec.freed = search.freed
  BY <1>1 DEF AfterCall, SearchRecords
<1>4. Set(rec)
  OBVIOUS
<1> HIDE DEF rec
<1>5. Looked(rec, query_dictmask) => Looked(search, query_dictmask)
  BY <1>3 DEF Looked
<1>6. prefix \in BOOLEAN /\ broken' # "prefix"
  BY DEF TableInv, Intact
<1>7. QED BY <1>2, <1>3, <1>4, <1>5, <1>6, SetKeeps

\* The searches below the one that ends lose the table, if it is freed.
LEMMA EndKeepsTable ==
    ASSUME SearchInv, TableInv, broken = Intact, searches # <<>>, SearchEnds
    PROVE  TableInv'
<1>1. /\ Len(searches') = Len(searches) - 1
      /\ \A k \in 1..Len(searches') :
            k \in 1..Len(searches) /\ SameCounts(searches'[k], searches[k])
      /\ Finish => \A k \in 1..Len(searches') : searches'[k].freed = TRUE
  BY EndsLeave DEF SearchInv, SearchTypes
<1>2. query_dictmask' = query_dictmask /\ broken' # "prefix"
  BY DEF SearchEnds, Finish, ShowResults, others, Intact
<1>3. CASE Finish
  <2>1. prefix' = FALSE
    BY <1>3 DEF Finish
  <2>2. QED BY <1>1, <1>2, <1>3, <2>1 DEF TableInv, TableKept
<1>4. CASE searches' = Front(searches) /\ prefix' = prefix
  <2>1. searches \in Seq(SearchRecords)
    BY DEF SearchInv, SearchTypes
  <2>2. /\ Len(searches) \in Nat
        /\ \A k \in 1..Len(searches) - 1 : Front(searches)[k] = searches[k]
    BY <2>1, LastFacts
  <2>3. \A k \in 1..Len(searches') : k \in 1..Len(searches) /\ searches'[k] = searches[k]
    BY <1>1, <1>4, <2>2
  <2>4. QED BY <1>2, <1>4, <2>3 DEF TableInv
<1>5. QED BY <1>3, <1>4 DEF SearchEnds

\* A step of LookupData.
LEMMA LookupKeepsTable ==
    ASSUME SearchInv, TableInv, LookupData
    PROVE  TableInv'
<1>1. broken = Intact /\ searches # <<>>
  BY DEF LookupData, Working
<1>2. CASE SearchEnds
  BY <1>1, <1>2, EndKeepsTable
<1>3. ASSUME NEW at \in {"loop", "update"}, Set(AfterCall(search, at)),
             UNCHANGED <<query_dictmask, prefix, broken>>
      PROVE  TableInv'
  BY <1>1, <1>3, CallKeepsTable
<1>4. CASE Created
  <2>1. CASE Set(AfterCall(search, "loop")) /\ UNCHANGED <<query_dictmask, prefix, broken>>
    BY <1>3, <2>1
  <2>2. QED BY <1>2, <1>4, <2>1 DEF Created, SearchEnds, AfterCall, others
<1>5. CASE NextDict
  BY <1>1, <1>2, <1>5, NextKeepsTable DEF SearchEnds
<1>6. CASE NextArticle
  <2>1. CASE Set(AfterCall(search, "update")) /\ UNCHANGED <<query_dictmask, prefix, broken>>
    BY <1>3, <2>1
  <2>2. CASE Read
    BY <1>1, <1>6, <2>2, ReadKeepsTable DEF NextArticle
  <2>3. QED BY <1>2, <1>6, <2>1, <2>2 DEF NextArticle, SearchEnds, AfterCall, others
<1>7. CASE Updated
  <2>1. FitsIn(search, query_dictmask)
    BY <1>1, LastSearch
  <2>2. search.j <= search.iwords
    BY <1>7, <2>1 DEF Updated, FitsIn
  <2>3. QED BY <1>1, <1>7, <2>2, ReadKeepsTable DEF Updated
<1>8. QED BY <1>4, <1>5, <1>6, <1>7 DEF LookupData

\* A search that begins has looked in nothing.
LEMMA SearchWordKeepsTable ==
    ASSUME SearchInv, TableInv, SearchWord
    PROVE  TableInv'
<1> DEFINE s == NewSearch(Query[entry].query)
<1>1. /\ searches' = Append(searches, s) /\ Query[entry].type = qtDATA
      /\ query_dictmask' = query_dictmask /\ prefix' = prefix /\ broken' = broken
      /\ broken = Intact
  BY DEF SearchWord, MainLoop
<1>2. /\ query_dictmask \in DictLists /\ entry \in Texts /\ searches \in Seq(SearchRecords)
      /\ Len(searches) \in Nat
  BY DEF SearchInv, SearchTypes
<1>3. s \in SearchRecords
  BY <1>1, <1>2, QueryType, NewSearchFits
<1>4. s.i = 0
  BY DEF NewSearch
<1> HIDE DEF s
<1>5. ~Looked(s, query_dictmask)
  <2>1. \A k \in DOMAIN query_dictmask : k \in Nat /\ k >= 1
    BY <1>2, MaskFacts
  <2>2. QED BY <1>4, <2>1 DEF Looked
<1>6. /\ Len(searches') = Len(searches) + 1 /\ searches'[Len(searches) + 1] = s
      /\ \A k \in 1..Len(searches) : searches'[k] = searches[k]
  BY <1>1, <1>2, <1>3, AppendProperties
<1>7. ASSUME NEW k \in 1..Len(searches') PROVE TableKept(searches'[k], query_dictmask', prefix')
  <2>1. CASE k = Len(searches) + 1
    BY <1>1, <1>5, <1>6, <2>1 DEF TableKept
  <2>2. CASE k \in 1..Len(searches)
    BY <1>1, <1>6, <2>2 DEF TableInv
  <2>3. QED BY <1>2, <1>6, <2>1, <2>2
<1>8. prefix' \in BOOLEAN /\ broken' # "prefix"
  BY <1>1 DEF TableInv, Intact
<1>9. QED BY <1>7, <1>8 DEF TableInv

\* Other dictionaries mark every search, and an answer changes nothing that is counted.
LEMMA HandlersKeepTable ==
    ASSUME SearchInv, TableInv, Type \/ Reload \/ onLookupProgressDialogResponse
    PROVE  TableInv'
<1>1. /\ query_dictmask \in DictLists /\ entry \in Texts /\ searches \in Seq(SearchRecords)
      /\ results_list \in Seq(Nat) /\ Len(searches) \in Nat /\ DOMAIN searches = 1..Len(searches)
  BY DEF SearchInv, SearchTypes
<1>2. broken = Intact /\ prefix' = prefix /\ prefix \in BOOLEAN
  BY DEF Type, Reload, onLookupProgressDialogResponse, MainLoop, TableInv
<1>3. ASSUME NEW word \in Texts, NEW mask \in DictLists, onSearchEntryChanged(word, mask)
      PROVE  broken' # "prefix"
  <2>1. CASE mask = <<>>
    BY <1>2, <1>3, <2>1 DEF onSearchEntryChanged, Intact
  <2>2. CASE mask # <<>>
    <3>1. broken' = Intact \/ broken' = "ppMatchWord"
      BY <1>1, <1>2, <1>3, <2>2, EntryChanged
    <3>2. QED BY <3>1 DEF Intact
  <2>3. QED BY <2>1, <2>2
<1>4. CASE Type
  <2>1. /\ searches' = searches /\ query_dictmask' = query_dictmask
        /\ entry' \in Texts /\ onSearchEntryChanged(entry', query_dictmask)
    BY <1>4 DEF Type
  <2>2. broken' # "prefix"
    <3> DEFINE word == entry'
    <3>1. word \in Texts /\ onSearchEntryChanged(word, query_dictmask)
      BY <2>1
    <3> HIDE DEF word
    <3>2. QED BY <1>1, <1>3, <3>1
  <2>3. QED BY <1>2, <2>1, <2>2 DEF TableInv
<1>5. CASE Reload
  <2>1. /\ searches' = [k \in DOMAIN searches |-> [searches[k] EXCEPT !.reloaded = TRUE]]
        /\ query_dictmask' \in DictLists
        /\ \/ broken' = broken
           \/ onSearchEntryChanged(entry, query_dictmask')
    BY <1>5 DEF Reload
  <2>2. broken' # "prefix"
    <3> DEFINE mask == query_dictmask'
    <3>1. mask \in DictLists /\ (broken' = broken \/ onSearchEntryChanged(entry, mask))
      BY <2>1
    <3> HIDE DEF mask
    <3>2. QED BY <1>1, <1>2, <1>3, <3>1 DEF Intact
  <2>3. \A s \in SearchRecords : LET u == [s EXCEPT !.reloaded = TRUE]
                                 IN  u \in SearchRecords /\ u.reloaded = TRUE
    BY DEF SearchRecords
  <2>4. \A k \in 1..Len(searches) : searches[k] \in SearchRecords
    BY <1>1
  <2>5. searches' \in [1..Len(searches) -> SearchRecords]
        /\ \A k \in 1..Len(searches) : searches'[k].reloaded = TRUE
    BY <1>1, <2>1, <2>3, <2>4
  <2>6. Len(searches') = Len(searches)
    BY <1>1, <2>5
  <2>7. QED BY <1>2, <2>2, <2>5, <2>6 DEF TableInv, TableKept
<1>6. CASE onLookupProgressDialogResponse
  <2>1. PICK n \in DOMAIN searches, open \in BOOLEAN :
            searches' = [searches EXCEPT ![n].cancel = TRUE, ![n].dialog = open]
    BY <1>6 DEF onLookupProgressDialogResponse
  <2> DEFINE s == searches[n]
             u == [s EXCEPT !.cancel = TRUE, !.dialog = open]
  <2>2. n \in 1..Len(searches) /\ s \in SearchRecords /\ query_dictmask' = query_dictmask
        /\ broken' = broken
    BY <1>1, <1>6 DEF onLookupProgressDialogResponse
  <2>3. searches' = [searches EXCEPT ![n] = u]
    BY <2>1
  <2> HIDE DEF s
  <2>4. /\ u.i = s.i /\ u.j = s.j /\ u.query = s.query /\ u.reloaded = s.reloaded
        /\ u.freed = s.freed /\ u \in SearchRecords
    BY <2>1, <2>2 DEF SearchRecords
  <2> HIDE DEF u
  <2>5. /\ Len(searches') = Len(searches) /\ searches'[n] = u
        /\ \A k \in 1..Len(searches) : k # n => searches'[k] = searches[k]
    BY <1>1, <2>2, <2>3, <2>4
  <2>6. TableKept(s, query_dictmask, prefix) => TableKept(u, query_dictmask, prefix)
    BY <2>4 DEF TableKept, Looked
  <2>7. ASSUME NEW k \in 1..Len(searches') PROVE TableKept(searches'[k], query_dictmask', prefix')
    <3>1. CASE k = n
      BY <1>2, <2>2, <2>5, <2>6, <3>1 DEF TableInv, s
    <3>2. CASE k # n
      BY <1>2, <2>2, <2>5, <3>2 DEF TableInv
    <3>3. QED BY <3>1, <3>2
  <2>8. broken' # "prefix"
    BY <1>2, <2>2 DEF Intact
  <2>9. QED BY <1>2, <2>7, <2>8 DEF TableInv
<1>7. QED BY <1>4, <1>5, <1>6

\* LookupData uses what is there, unless the dictionaries have changed under it or a
\* search that interrupted it has freed the table; alone it misses that in the first text
\* it looks in only.
THEOREM SearchUsesWhatIsThere == Spec => []SearchSafe
<1>1. Init => TableInv
  <2>1. Init => prefix = FALSE /\ Len(searches) = 0 /\ broken # "prefix"
    BY DEF Init, Intact
  <2>2. Init => \A k \in 1..Len(searches) : FALSE
    BY <2>1
  <2>3. QED BY <2>1, <2>2 DEF TableInv
<1>2. SearchInv /\ TableInv /\ [Next]_vars => TableInv'
  <2> SUFFICES ASSUME SearchInv, TableInv, [Next]_vars PROVE TableInv'
    OBVIOUS
  <2>1. CASE UNCHANGED vars
    BY <2>1 DEF vars, TableInv
  <2>2. CASE Next
    BY <2>2, LookupKeepsTable, SearchWordKeepsTable, HandlersKeepTable DEF Next
  <2>3. QED BY <2>1, <2>2
<1>3. SearchInv /\ TableInv => SearchSafe
  <2> SUFFICES ASSUME SearchInv, TableInv PROVE SearchSafe
    OBVIOUS
  <2>1. ListsThere
    BY DEF SearchInv
  <2>2. ASSUME broken = "prefix" PROVE search.reloaded \/ search.freed \/ ~Looked(search, query_dictmask)
    <3>1. prefix = FALSE /\ searches # <<>>
      BY <2>2 DEF TableInv
    <3>2. search = searches[Len(searches)] /\ Len(searches) \in 1..Len(searches)
      BY <3>1, LastSearch
    <3>3. TableKept(search, query_dictmask, prefix)
      BY <3>2 DEF TableInv
    <3>4. QED BY <3>1, <3>3 DEF TableKept
  <2>3. QED BY <2>1, <2>2 DEF SearchSafe, TableThere
<1>4. QED BY <1>1, <1>2, <1>3, SearchInvariant, PTL DEF Spec

\* What is shown when no search runs has words, and they are words of the dictionaries;
\* what matches a pattern is listed in order, once and in full.
THEOREM ListIsRight == Spec => []ListRight
<1>1. SearchInv => ListRight
  <2> SUFFICES ASSUME SearchInv PROVE ListRight
    OBVIOUS
  <2>1. /\ query_dictmask \in DictLists /\ entry \in Texts /\ reloads \in Nat
        /\ results_list \in Seq(Nat)
    BY DEF SearchInv, SearchTypes
  <2>2. ShownHasWords
    BY <2>1 DEF SearchInv, ListFits, ShownHasWords, Working
  <2>3. ASSUME Query[entry].type \in {qtPATTERN, qtREGEX}, started = 0, query_dictmask # <<>>,
               broken = Intact
        PROVE  /\ Rises(results_list)
               /\ AllFew(query_dictmask, Query[entry].query) =>
                     ToSet(results_list) = AllWords[query_dictmask] \cap Matching[Query[entry].query]
    <3>1. results_list = RuleMatches[entry][query_dictmask]
      BY <2>3 DEF SearchInv, ListFits
    <3>2. QED BY <2>1, <2>3, <3>1, RuleMatchesFacts
  <2>4. PatternListed
    BY <2>3 DEF PatternListed, Rises, AllFew
  <2>5. QED BY <2>2, <2>4 DEF ListRight
<1>2. QED BY <1>1, SearchInvariant, PTL

\* What is typed is looked up as it is when it has been escaped.
THEOREM EscapedIsLookedUp == Spec => []EscapedIsLiteral
<1>1. SearchInv => EscapedIsLiteral
  <2>1. SearchInv => entry \in Seq(Nat)
    BY TextsAssumption DEF SearchInv, SearchTypes
  <2>2. QED BY <2>1, EscapedIsRead DEF EscapedIsLiteral
<1>2. QED BY <1>1, SearchInvariant, PTL

-----------------------------------------------------------------------------
(* What a search finds.  Expected lists the words of a dictionary whose    *)
(* articles are about those of the query; a search that goes on has listed *)
(* them up to its counters.                                                *)

\* The list after one more article.
Listed(query, d, list, k) ==
    IF Searched(d) /\ About(ToSet(SearchWords(query)), Dictionary[d].sts, Dictionary[d].articles[k])
    THEN Found(list, Words(d)[k]) ELSE list

\* The recursion of Expected defines a function.
IsExpecteds(f, query, d) ==
    f = [k \in 0..Len(Words(d)) |->
            IF k = 0 THEN <<>>
            ELSE Listed(query, d, f[k - 1], k)]

\* f is the list after each article.
ExpectedRun(f, query, d) ==
    /\ f \in [0..Len(Words(d)) -> Seq(Nat)]
    /\ Expected(query, d) = f[Len(Words(d))]
    /\ f[0] = <<>>
    /\ \A k \in 1..Len(Words(d)) : f[k] = Listed(query, d, f[k - 1], k)

\* The loop of Expected, step by step.
LEMMA ExpectedSteps ==
    ASSUME NEW query, NEW d, Words(d) \in Seq(Nat)
    PROVE  \E f : ExpectedRun(f, query, d)
<1> DEFINE n == Len(Words(d))
           step == [k \in 1..n |-> [v \in Seq(Nat) |-> Listed(query, d, v, k)]]
<1>1. n \in Nat
  OBVIOUS
<1>2. step \in [1..n -> [Seq(Nat) -> Seq(Nat)]]
  <2>1. ASSUME NEW k \in 1..n, NEW v \in Seq(Nat)
        PROVE  Listed(query, d, v, k) \in Seq(Nat)
    <3>1. Words(d)[k] \in Nat
      OBVIOUS
    <3>2. QED BY <2>1, <3>1, FoundFacts DEF Listed
  <2>2. QED BY <2>1
<1>3. <<>> \in Seq(Nat)
  OBVIOUS
<1>4. \A k \in 1..n, v \in Seq(Nat) : step[k][v] = Listed(query, d, v, k)
  OBVIOUS
<1> HIDE DEF n, step
<1>5. PICK f \in [0..n -> Seq(Nat)] : IsLoop(f, n, <<>>, step)
  BY <1>1, <1>2, <1>3, LoopExists
<1>6. f[0] = <<>> /\ \A k \in 1..n : f[k] = Listed(query, d, f[k - 1], k)
  <2>1. \A k \in 1..n : f[k - 1] \in Seq(Nat)
    BY <1>1
  <2>2. QED BY <1>4, <1>5, <2>1 DEF IsLoop
<1>7. \A k \in 0..n :
         f[k] = IF k = 0 THEN <<>>
                ELSE Listed(query, d, f[k - 1], k)
  <2>1. \A k \in 0..n : k # 0 => k \in 1..n
    BY <1>1
  <2>2. QED BY <1>6, <2>1
<1>8. IsExpecteds(f, query, d)
  <2>1. f = [k \in 0..n |-> f[k]]
    OBVIOUS
  <2>2. QED BY <1>7, <2>1 DEF IsExpecteds, n
<1> DEFINE g == CHOOSE h : IsExpecteds(h, query, d)
<1>9. Expected(query, d) = g[n]
  BY DEF Expected, Listed, IsExpecteds, n
<1>10. IsExpecteds(g, query, d)
  BY <1>8
<1> HIDE DEF g
<1>11. g[0] = <<>> /\ \A k \in 1..n : g[k] = Listed(query, d, g[k - 1], k)
  <2>1. \A k \in 0..n :
           g[k] = IF k = 0 THEN <<>>
                  ELSE Listed(query, d, g[k - 1], k)
    BY <1>10 DEF IsExpecteds, n
  <2>2. 0 \in 0..n /\ \A k \in 1..n : k \in 0..n /\ k # 0
    BY <1>1
  <2>3. QED BY <2>1, <2>2
<1> DEFINE T == {k \in 0..n : g[k] = f[k]}
<1>12. 0 \in T
  BY <1>1, <1>6, <1>11
<1>13. ASSUME NEW k \in 0..n - 1, k \in T PROVE k + 1 \in T
  <2> DEFINE j == k + 1
  <2>1. j \in 1..n /\ j \in 0..n /\ j - 1 = k
    BY <1>1
  <2> HIDE DEF j
  <2>2. g[k] = f[k]
    BY <1>13
  <2>3. f[j] = Listed(query, d, f[k], j) /\ g[j] = Listed(query, d, g[k], j)
    BY <1>6, <1>11, <2>1
  <2>4. QED BY <2>1, <2>2, <2>3 DEF j
<1> HIDE DEF T
<1>14. n \in T
  BY <1>1, <1>12, <1>13, CountUp
<1>15. g[n] = f[n]
  BY <1>14 DEF T
<1>16. ExpectedRun(f, query, d)
  BY <1>5, <1>6, <1>9, <1>15 DEF n, ExpectedRun
<1>17. QED BY <1>16

\* The lists after each article, for one query and dictionary.
Heard(query, d) == CHOOSE f : ExpectedRun(f, query, d)

LEMMA HeardFacts ==
    ASSUME NEW query, NEW d, Words(d) \in Seq(Nat)
    PROVE  /\ Heard(query, d)[0] = <<>>
           /\ Heard(query, d)[Len(Words(d))] = Expected(query, d)
           /\ \A k \in 1..Len(Words(d)) :
                 Heard(query, d)[k] = Listed(query, d, Heard(query, d)[k - 1], k)
<1>1. ExpectedRun(Heard(query, d), query, d)
  BY ExpectedSteps DEF Heard
<1>2. QED BY <1>1 DEF ExpectedRun

\* Nothing is expected of a dictionary that is not searched.
LEMMA NothingExpected ==
    ASSUME NEW query, NEW d, Words(d) \in Seq(Nat), ~Searched(d)
    PROVE  Expected(query, d) = <<>>
<1> DEFINE n == Len(Words(d))
           f == Heard(query, d)
           T == {k \in 0..n : f[k] = <<>>}
<1>1. n \in Nat
  OBVIOUS
<1> HIDE DEF f
<1>2. f[0] = <<>> /\ f[n] = Expected(query, d)
      /\ \A k \in 1..n : f[k] = Listed(query, d, f[k - 1], k)
  BY HeardFacts DEF f
<1> HIDE DEF n
<1>3. 0 \in T
  BY <1>1, <1>2
<1>4. ASSUME NEW k \in 0..n - 1, k \in T PROVE k + 1 \in T
  <2> DEFINE m == k + 1
  <2>1. m \in 1..n /\ m \in 0..n /\ m - 1 = k
    BY <1>1
  <2> HIDE DEF m
  <2>2. f[m] = Listed(query, d, f[k], m)
    BY <1>2, <2>1
  <2>3. f[m] = <<>>
    BY <1>4, <2>2 DEF Listed
  <2>4. QED BY <2>1, <2>3 DEF m
<1> HIDE DEF T
<1>5. n \in T
  BY <1>1, <1>3, <1>4, CountUp
<1>6. QED BY <1>2, <1>5 DEF T

\* SearchData is right about the articles of the dictionaries that are searched.
SearchesAreTrue ==
    \A d \in DOMAIN Dictionary, query \in Queries(qtDATA) :
        Searched(d) =>
            \A k \in 1..Len(Words(d)) :
                SearchesTrue[d][query][k] <=>
                    About(ToSet(SearchWords(query)), Dictionary[d].sts, Dictionary[d].articles[k])

\* A search has listed what is expected of the dictionaries before its own, what was
\* heard of its own so far, and nothing of those behind it.
HasHeard(s, mask) ==
    /\ s.j <= s.iwords + 1 /\ (s.i # 0 => Searched(mask[s.i]))
    /\ \A k \in 1..Len(mask) :
          /\ k < s.i => s.reslist[k] = Expected(s.query, mask[k])
          /\ k = s.i => s.reslist[k] = Heard(s.query, mask[k])[s.j - 1]
          /\ k > s.i => s.reslist[k] = <<>>

HeardSoFar ==
    \A k \in 1..Len(searches) : ~searches[k].reloaded => HasHeard(searches[k], query_dictmask)

\* A search that begins has heard nothing.
LEMMA NewHasHeard ==
    ASSUME NEW query, query_dictmask \in DictLists
    PROVE  HasHeard(NewSearch(query), query_dictmask)
<1> DEFINE s == NewSearch(query)
           n == Len(query_dictmask)
           l == [k \in 1..n |-> <<>>]
<1>1. n \in Nat /\ DOMAIN query_dictmask = 1..n
  BY MaskFacts
<1>2. s.reslist = l /\ s.i = 0 /\ s.j = 1 /\ s.iwords = 0
  BY <1>1 DEF NewSearch
<1>3. \A k \in 1..n : l[k] = <<>>
  OBVIOUS
<1> HIDE DEF s, l, n
<1>4. ASSUME NEW k \in 1..n
      PROVE  ~(k < s.i) /\ k # s.i /\ s.reslist[k] = <<>>
  BY <1>1, <1>2, <1>3
<1>5. QED BY <1>2, <1>4 DEF HasHeard, n, s

\* The last search goes on, and has heard what it should have.
LEMMA SetHeard ==
    ASSUME SearchInv, HeardSoFar, searches # <<>>,
           NEW rec \in SearchRecords, ~rec.reloaded => HasHeard(rec, query_dictmask),
           Set(rec), query_dictmask' = query_dictmask
    PROVE  HeardSoFar' /\ Len(searches') = Len(searches)
<1>1. searches \in Seq(SearchRecords) /\ searches' = Append(Front(searches), rec)
  BY DEF SearchInv, SearchTypes, Set
<1>2. /\ Len(searches) \in Nat /\ Len(searches) >= 1
      /\ Len(searches') = Len(searches) /\ searches'[Len(searches)] = rec
      /\ \A k \in 1..Len(searches) - 1 : searches'[k] = searches[k]
  BY <1>1, LastFacts
<1>3. ASSUME NEW k \in 1..Len(searches'), ~searches'[k].reloaded
      PROVE  HasHeard(searches'[k], query_dictmask')
  <2>1. CASE k = Len(searches)
    BY <1>2, <1>3, <2>1
  <2>2. CASE k # Len(searches)
    <3>1. k \in 1..Len(searches) - 1 /\ k \in 1..Len(searches)
      BY <1>2, <2>2
    <3>2. QED BY <1>2, <1>3, <3>1 DEF HeardSoFar
  <2>3. QED BY <2>1, <2>2
<1>4. QED BY <1>2, <1>3 DEF HeardSoFar

\* What is known of the search that is running.
LEMMA RunningSearch ==
    ASSUME SearchInv, HeardSoFar, searches # <<>>
    PROVE  /\ search \in SearchRecords /\ FitsIn(search, query_dictmask)
           /\ ~search.reloaded => /\ HasHeard(search, query_dictmask)
                                  /\ Within(search, query_dictmask)
<1>1. searches \in Seq(SearchRecords)
  BY DEF SearchInv, SearchTypes
<1>2. Len(searches) \in Nat /\ Len(searches) >= 1 /\ Last(searches) = searches[Len(searches)]
  BY <1>1, LastFacts
<1>3. search = searches[Len(searches)] /\ Len(searches) \in 1..Len(searches)
  BY <1>2 DEF search
<1>4. QED BY <1>1, <1>3 DEF SearchInv, SearchesFit, HeardSoFar, FitsIn

\* An article that is read is listed as it is expected.
LEMMA ReadHears ==
    ASSUME SearchesAreTrue, SearchInv, HeardSoFar, searches # <<>>,
           search.j <= search.iwords, Read
    PROVE  HeardSoFar' /\ Len(searches') = Len(searches)
<1>1. query_dictmask \in DictLists /\ query_dictmask' = query_dictmask
  BY DEF SearchInv, SearchTypes, Read, others
<1>2. /\ search \in SearchRecords /\ FitsIn(search, query_dictmask)
      /\ ~search.reloaded => /\ HasHeard(search, query_dictmask)
                             /\ Within(search, query_dictmask)
  BY RunningSearch
<1>3. /\ search.i \in Nat /\ search.j \in Nat /\ search.iwords \in Nat
      /\ search.reslist \in Seq(Seq(Nat)) /\ Len(search.reslist) \in Nat
      /\ search.reloaded \in BOOLEAN /\ search.query \in Queries(qtDATA)
      /\ Len(query_dictmask) \in Nat
  BY <1>1, <1>2, MaskFacts DEF SearchRecords
<1> DEFINE gone == \/ search.i > Len(query_dictmask) \/ search.i > Len(search.reslist)
                   \/ search.j > Len(Words(dict))
<1>4. CASE gone
  <2>1. searches' = searches
    BY <1>4 DEF Read
  <2>2. QED BY <1>1, <2>1 DEF HeardSoFar
<1> DEFINE null == WritesNull(prefix, LooksIn[dict][search.query][search.j])
<1>5. CASE ~gone /\ null
  <2>1. searches' = searches
    BY <1>5 DEF Read
  <2>2. QED BY <1>1, <2>1 DEF HeardSoFar
<1>6. CASE ~gone /\ ~null
  <2> DEFINE n == search.i
             d == query_dictmask[n]
             m == search.j
             old == search.reslist[n]
             list == IF SearchesTrue[d][search.query][m] THEN Found(old, Words(d)[m]) ELSE old
             rec == AfterRead(search, list)
  <2>1. Set(rec)
    BY <1>6 DEF Read, AfterRead, dict
  <2>2. /\ n <= Len(query_dictmask) /\ n <= Len(search.reslist) /\ n \in 1..Len(query_dictmask)
        /\ n \in 1..Len(search.reslist) /\ m >= 1
    <3>1. ~(n > Len(query_dictmask)) /\ ~(n > Len(search.reslist)) /\ n # 0 /\ m >= 1
      BY <1>2, <1>3, <1>6 DEF FitsIn
    <3>2. QED BY <1>3, <3>1
  <2>3. /\ d \in DOMAIN Dictionary /\ Words(d) \in Seq(Nat) /\ Len(Words(d)) \in Nat
    BY <1>1, <2>2, MaskFacts
  <2>4. m \in 1..Len(Words(d))
    <3>1. ~(m > Len(Words(d)))
      BY <1>6 DEF dict
    <3>2. QED BY <1>3, <2>2, <2>3, <3>1
  <2>5. old \in Seq(Nat) /\ Words(d)[m] \in Nat
    <3>1. Words(d)[m] \in Nat
      <4> DEFINE ws == Words(d)
      <4>1. ws \in Seq(Nat) /\ m \in 1..Len(ws)
        BY <2>3, <2>4
      <4> HIDE DEF ws
      <4>2. ws[m] \in Nat
        BY <4>1
      <4>3. QED BY <4>2 DEF ws
    <3>2. old \in Seq(Nat)
      BY <1>3, <2>2
    <3>3. QED BY <3>1, <3>2
  <2> HIDE DEF d, old
  <2>6. list \in Seq(Nat)
    BY <2>5, FoundFacts
  <2> HIDE DEF list
  <2>7. /\ rec \in SearchRecords
        /\ rec.j = m + 1 /\ rec.i = n /\ rec.iwords = search.iwords
        /\ rec.query = search.query /\ rec.reloaded = search.reloaded
        /\ rec.reslist[n] = list
        /\ \A k \in 1..Len(search.reslist) : k # n => rec.reslist[k] = search.reslist[k]
    BY <1>2, <2>2, <2>6, AfterReadFacts
  <2> HIDE DEF rec
  <2>8. ASSUME ~search.reloaded PROVE HasHeard(rec, query_dictmask)
    <3>1. HasHeard(search, query_dictmask) /\ Len(search.reslist) = Len(query_dictmask)
      BY <1>2, <2>8 DEF Within
    <3>2. Searched(d) /\ old = Heard(search.query, d)[m - 1]
      BY <2>2, <3>1 DEF HasHeard, d, old
    <3>3. list = Listed(search.query, d, old, m)
      <4>1. SearchesTrue[d][search.query][m] <=>
               About(ToSet(SearchWords(search.query)), Dictionary[d].sts, Dictionary[d].articles[m])
        BY <1>3, <2>3, <2>4, <3>2 DEF SearchesAreTrue
      <4>2. QED BY <3>2, <4>1 DEF list, Listed
    <3>4. list = Heard(search.query, d)[m]
      BY <2>3, <2>4, <3>2, <3>3, HeardFacts
    <3>5. rec.j - 1 = m /\ rec.j <= rec.iwords + 1
      BY <1>3, <2>7
    <3>6. ASSUME NEW k \in 1..Len(query_dictmask)
          PROVE  /\ k < n => rec.reslist[k] = Expected(search.query, query_dictmask[k])
                 /\ k = n => rec.reslist[k] = Heard(search.query, query_dictmask[k])[m]
                 /\ k > n => rec.reslist[k] = <<>>
      <4>1. CASE k = n
        BY <1>3, <2>7, <3>4, <4>1 DEF d
      <4>2. CASE k # n
        BY <2>7, <3>1, <4>2 DEF HasHeard
      <4>3. QED BY <4>1, <4>2
    <3>7. QED BY <2>7, <3>1, <3>5, <3>6 DEF HasHeard
  <2>9. QED BY <1>1, <2>1, <2>7, <2>8, SetHeard
<1>7. QED BY <1>4, <1>5, <1>6

\* Past the last article of its dictionary a search has heard all that is expected of the
\* dictionaries up to the next one that is searched.
LEMMA HeardUpTo ==
    ASSUME NEW mask \in DictLists, NEW s \in SearchRecords, FitsIn(s, mask),
           Within(s, mask), HasHeard(s, mask), ~(s.j <= s.iwords),
           NEW to \in Nat, to <= Len(mask), \A k \in s.i + 1..to : ~Searched(mask[k])
    PROVE  \A k \in 1..to : s.reslist[k] = Expected(s.query, mask[k])
<1>1. /\ s.i \in Nat /\ s.j \in Nat /\ s.iwords \in Nat /\ Len(mask) \in Nat
  BY MaskFacts DEF SearchRecords
<1>2. ASSUME NEW k \in 1..to PROVE s.reslist[k] = Expected(s.query, mask[k])
  <2>1. k \in 1..Len(mask) /\ k \in Nat
    BY <1>1
  <2>2. Words(mask[k]) \in Seq(Nat)
    BY <2>1, MaskFacts
  <2>3. CASE k < s.i
    BY <2>1, <2>3 DEF HasHeard
  <2>4. CASE k = s.i
    <3>1. s.iwords = Len(Words(mask[k])) /\ s.j <= s.iwords + 1
      BY <2>1, <2>4 DEF Within, HasHeard
    <3>2. s.j - 1 = Len(Words(mask[k]))
      BY <1>1, <3>1
    <3>3. s.reslist[k] = Heard(s.query, mask[k])[s.j - 1]
      BY <2>1, <2>4 DEF HasHeard
    <3>4. QED BY <2>2, <3>2, <3>3, HeardFacts
  <2>5. CASE k > s.i
    <3>1. k \in s.i + 1..to
      BY <1>1, <2>1, <2>5
    <3>2. ~Searched(mask[k])
      BY <3>1
    <3>3. s.reslist[k] = <<>>
      BY <2>1, <2>5 DEF HasHeard
    <3>4. QED BY <2>2, <3>2, <3>3, NothingExpected
  <2>6. QED BY <1>1, <2>1, <2>3, <2>4, <2>5
<1>3. QED BY <1>2

\* What the search that ends leaves has heard what it had.
LEMMA FinishHears ==
    ASSUME SearchInv, HeardSoFar, searches # <<>>, SearchEnds
    PROVE  HeardSoFar'
<1>1. /\ searches \in Seq(SearchRecords) /\ query_dictmask' = query_dictmask
  BY DEF SearchInv, SearchTypes, SearchEnds, Finish, ShowResults, others
<1>2. \A k \in 1..Len(searches') :
         k \in 1..Len(searches) /\ SameCounts(searches'[k], searches[k])
  BY <1>1, EndsLeave
<1>3. ASSUME NEW k \in 1..Len(searches'), ~searches'[k].reloaded
      PROVE  HasHeard(searches'[k], query_dictmask)
  <2>1. HasHeard(searches[k], query_dictmask) /\ SameCounts(searches'[k], searches[k])
    BY <1>2, <1>3 DEF HeardSoFar, SameCounts
  <2>2. QED BY <2>1 DEF HasHeard, SameCounts
<1>4. QED BY <1>1, <1>3 DEF HeardSoFar

\* The loop over the dictionaries ends when all that is expected has been heard.
LEMMA NextDictHears ==
    ASSUME SearchInv, HeardSoFar, searches # <<>>, NextDict
    PROVE  /\ HeardSoFar'
           /\ Ended => \A k \in DOMAIN query_dictmask :
                          search.reslist[k] = Expected(search.query, query_dictmask[k])
<1>1. query_dictmask \in DictLists /\ query_dictmask' = query_dictmask
  BY DEF SearchInv, SearchTypes, NextDict, Finish, ShowResults, others
<1>2. /\ search \in SearchRecords /\ FitsIn(search, query_dictmask)
      /\ ~search.reloaded => /\ HasHeard(search, query_dictmask)
                             /\ Within(search, query_dictmask)
  BY RunningSearch
<1>3. /\ search.i \in Nat /\ search.j \in Nat /\ search.iwords \in Nat
      /\ search.reloaded \in BOOLEAN /\ Len(query_dictmask) \in Nat
      /\ DOMAIN query_dictmask = 1..Len(query_dictmask)
  BY <1>1, <1>2, MaskFacts DEF SearchRecords
<1>4. ~(search.j <= search.iwords)
  BY <1>3 DEF NextDict
<1> DEFINE next == SelectInSubSeq(query_dictmask, search.i + 1, Len(query_dictmask), Searched)
<1>5. CASE next = 0
  <2>1. Finish
    BY <1>5 DEF NextDict
  <2>2. \A k \in search.i + 1..Len(query_dictmask) : ~Searched(query_dictmask[k])
    BY <1>1, <1>3, <1>5, NextSearched
  <2>3. ASSUME ~search.reloaded, NEW k \in DOMAIN query_dictmask
        PROVE  search.reslist[k] = Expected(search.query, query_dictmask[k])
    <3>1. k \in 1..Len(query_dictmask)
      BY <1>3
    <3>2. HasHeard(search, query_dictmask) /\ Within(search, query_dictmask)
      BY <1>2, <2>3
    <3>3. QED BY <1>1, <1>2, <1>3, <1>4, <2>2, <3>1, <3>2, HeardUpTo
  <2>4. QED BY <2>1, <2>3, FinishHears DEF Ended, SearchEnds
<1>6. CASE next # 0
  <2> DEFINE rec == AfterNext(search, next)
  <2>1. Set(rec)
    BY <1>6 DEF NextDict, AfterNext
  <2>2. /\ next \in search.i + 1..Len(query_dictmask) /\ Searched(query_dictmask[next])
        /\ \A k \in search.i + 1..next - 1 : ~Searched(query_dictmask[k])
    BY <1>1, <1>3, <1>6, NextSearched
  <2> HIDE DEF next
  <2> DEFINE l == Len(Words(query_dictmask[next]))
             q == search.query
  <2>3. /\ l \in Nat /\ next \in Nat /\ next # 0 /\ next <= Len(query_dictmask)
        /\ next - 1 \in Nat /\ next - 1 <= Len(query_dictmask)
        /\ next \in 1..Len(query_dictmask)
    BY <1>1, <1>3, <2>2, MaskFacts
  <2>4. rec = [search EXCEPT !.i = next, !.j = 1, !.iwords = l]
    BY DEF AfterNext
  <2> HIDE DEF l, rec
  <2>5. rec \in SearchRecords
    <3>1. rec = [query |-> search.query, at |-> search.at, reslist |-> search.reslist,
                 i |-> next, j |-> 1, iwords |-> l, search_count |-> search.search_count,
                 cancel |-> search.cancel, dialog |-> search.dialog, reloaded |-> search.reloaded,
                 freed |-> search.freed]
      BY <1>2, <2>4 DEF SearchRecords
    <3>2. QED BY <1>2, <2>3, <3>1 DEF SearchRecords
  <2>6. /\ rec.i = next /\ rec.j = 1 /\ rec.iwords = l /\ rec.query = q
        /\ rec.reslist = search.reslist /\ rec.reloaded = search.reloaded
    BY <1>2, <2>4 DEF SearchRecords
  <2>7. ASSUME ~search.reloaded PROVE HasHeard(rec, query_dictmask)
    <3>1. HasHeard(search, query_dictmask) /\ Within(search, query_dictmask)
      BY <1>2, <2>7
    <3>2. \A k \in 1..next - 1 : search.reslist[k] = Expected(q, query_dictmask[k])
      BY <1>1, <1>2, <1>4, <2>2, <2>3, <3>1, HeardUpTo
    <3>3. ASSUME NEW k \in 1..Len(query_dictmask), k >= next PROVE search.reslist[k] = <<>>
      <4>1. k > search.i
        BY <1>3, <2>2, <3>3
      <4>2. QED BY <3>1, <4>1 DEF HasHeard
    <3>4. Words(query_dictmask[next]) \in Seq(Nat)
      BY <1>1, <2>3, MaskFacts
    <3>5. Heard(q, query_dictmask[next])[0] = <<>>
      BY <3>4, HeardFacts
    <3>6. ASSUME NEW k \in 1..Len(query_dictmask)
          PROVE  /\ k < next => rec.reslist[k] = Expected(rec.query, query_dictmask[k])
                 /\ k = next => rec.reslist[k] = Heard(rec.query, query_dictmask[k])[rec.j - 1]
                 /\ k > next => rec.reslist[k] = <<>>
      <4>1. CASE k < next
        <5>1. k \in 1..next - 1
          BY <2>3, <4>1
        <5>2. QED BY <2>3, <2>6, <3>2, <4>1, <5>1
      <4>2. CASE k >= next
        <5>1. search.reslist[k] = <<>> /\ rec.j - 1 = 0
          BY <2>6, <3>3, <4>2
        <5>2. QED BY <2>3, <2>6, <3>5, <4>2, <5>1
      <4>3. QED BY <2>3, <4>1, <4>2
    <3>7. QED BY <2>2, <2>3, <2>6, <3>6 DEF HasHeard
  <2>8. HeardSoFar' /\ Len(searches') = Len(searches)
    BY <1>1, <2>1, <2>5, <2>6, <2>7, SetHeard
  <2>9. ~Ended
    <3>1. Len(searches) \in Nat
      BY DEF SearchInv, SearchTypes
    <3>2. QED BY <2>8, <3>1 DEF Ended
  <2>10. QED BY <2>8, <2>9
<1>7. QED BY <1>5, <1>6

\* Nothing is heard in a call of search_func.
LEMMA CallHears ==
    ASSUME SearchInv, HeardSoFar, searches # <<>>, NEW at \in {"loop", "update"},
           Set(AfterCall(search, at)), query_dictmask' = query_dictmask
    PROVE  HeardSoFar' /\ Len(searches') = Len(searches)
<1> DEFINE rec == AfterCall(search, at)
<1>1. /\ search \in SearchRecords
      /\ ~search.reloaded => HasHeard(search, query_dictmask)
  BY RunningSearch
<1>2. rec \in SearchRecords
  BY <1>1 DEF AfterCall, SearchRecords
<1>3. /\ rec.i = search.i /\ rec.j = search.j /\ rec.iwords = search.iwords
      /\ rec.reslist = search.reslist /\ rec.reloaded = search.reloaded /\ rec.query = search.query
  BY <1>1 DEF AfterCall, SearchRecords
<1> HIDE DEF rec
<1>4. ~rec.reloaded => HasHeard(rec, query_dictmask)
  BY <1>1, <1>3 DEF HasHeard
<1>5. QED BY <1>2, <1>4, SetHeard DEF rec

\* A search that comes to its end without being cancelled has heard all that is expected.
LEMMA LookupHears ==
    ASSUME SearchesAreTrue, SearchInv, HeardSoFar, LookupData
    PROVE  /\ HeardSoFar'
           /\ Ended /\ SearchWords(search.query) # <<>> =>
                 \A k \in DOMAIN query_dictmask :
                    search.reslist[k] = Expected(search.query, query_dictmask[k])
<1>1. searches # <<>> /\ Len(searches) \in Nat
  BY DEF LookupData, Working, SearchInv, SearchTypes
<1>2. Len(searches') = Len(searches) => ~Ended
  BY <1>1 DEF Ended
<1>3. CASE Created
  <2>1. CASE SearchWords(search.query) = <<>> /\ SearchEnds
    BY <1>1, <2>1, FinishHears
  <2>2. CASE Set(AfterCall(search, "loop")) /\ UNCHANGED others
    BY <1>1, <1>2, <2>2, CallHears DEF others
  <2>3. QED BY <1>3, <2>1, <2>2 DEF Created, SearchEnds, AfterCall
<1>4. CASE NextDict
  BY <1>1, <1>4, NextDictHears
<1>5. CASE NextArticle
  <2>1. search.j <= search.iwords
    BY <1>5 DEF NextArticle
  <2>2. CASE search.cancel /\ Finish
    BY <1>1, <2>2, FinishHears DEF Ended, SearchEnds
  <2>3. CASE Set(AfterCall(search, "update")) /\ UNCHANGED others
    BY <1>1, <1>2, <2>3, CallHears DEF others
  <2>4. CASE Read
    BY <1>1, <1>2, <2>1, <2>4, ReadHears
  <2>5. QED BY <1>5, <2>2, <2>3, <2>4 DEF NextArticle, AfterCall
<1>6. CASE Updated
  <2>1. FitsIn(search, query_dictmask)
    BY <1>1, RunningSearch
  <2>2. search.j <= search.iwords
    BY <1>6, <2>1 DEF Updated, FitsIn
  <2>3. QED BY <1>1, <1>2, <1>6, <2>2, ReadHears DEF Updated
<1>7. QED BY <1>3, <1>4, <1>5, <1>6 DEF LookupData

\* The other steps end no search and leave what has been heard.
LEMMA OthersHear ==
    ASSUME SearchInv, HeardSoFar,
           \/ Type \/ Reload \/ SearchWord \/ onLookupProgressDialogResponse \/ UNCHANGED vars
    PROVE  HeardSoFar' /\ ~Ended
<1>1. searches \in Seq(SearchRecords) /\ Len(searches) \in Nat /\ query_dictmask \in DictLists
      /\ DOMAIN searches = 1..Len(searches) /\ entry \in Texts
  BY DEF SearchInv, SearchTypes
<1>2. ASSUME searches' = searches, query_dictmask' = query_dictmask PROVE HeardSoFar' /\ ~Ended
  BY <1>1, <1>2 DEF HeardSoFar, Ended
<1>3. CASE Type
  BY <1>2, <1>3 DEF Type
<1>4. CASE UNCHANGED vars
  BY <1>2, <1>4 DEF vars
<1>5. CASE Reload
  <2>1. searches' = [k \in DOMAIN searches |-> [searches[k] EXCEPT !.reloaded = TRUE]]
    BY <1>5 DEF Reload
  <2>2. searches' \in [1..Len(searches) -> SearchRecords]
    <3>1. \A s \in SearchRecords : [s EXCEPT !.reloaded = TRUE] \in SearchRecords
      BY DEF SearchRecords
    <3>2. \A k \in 1..Len(searches) : searches[k] \in SearchRecords
      BY <1>1
    <3>3. QED BY <1>1, <2>1, <3>1, <3>2
  <2>3. Len(searches') = Len(searches)
    BY <1>1, <2>2
  <2>4. ASSUME NEW k \in 1..Len(searches') PROVE searches'[k].reloaded
    <3>1. k \in 1..Len(searches) /\ searches[k] \in SearchRecords
      BY <1>1, <2>3
    <3>2. searches'[k] = [searches[k] EXCEPT !.reloaded = TRUE]
      BY <1>1, <2>1, <3>1
    <3>3. QED BY <3>1, <3>2 DEF SearchRecords
  <2>5. QED BY <1>1, <2>3, <2>4 DEF HeardSoFar, Ended
<1>6. CASE SearchWord
  <2> DEFINE s == NewSearch(Query[entry].query)
  <2>1. /\ searches' = Append(searches, s) /\ query_dictmask' = query_dictmask
        /\ Query[entry].type = qtDATA
    BY <1>6 DEF SearchWord
  <2>2. s \in SearchRecords /\ HasHeard(s, query_dictmask)
    BY <1>1, <2>1, QueryType, NewSearchFits, NewHasHeard
  <2> HIDE DEF s
  <2>3. /\ Len(searches') = Len(searches) + 1 /\ searches'[Len(searches) + 1] = s
        /\ \A k \in 1..Len(searches) : searches'[k] = searches[k]
    BY <1>1, <2>1, <2>2, AppendProperties
  <2>4. ASSUME NEW k \in 1..Len(searches'), ~searches'[k].reloaded
        PROVE  HasHeard(searches'[k], query_dictmask')
    <3>1. CASE k = Len(searches) + 1
      BY <2>1, <2>2, <2>3, <3>1
    <3>2. CASE k \in 1..Len(searches)
      BY <2>1, <2>3, <2>4, <3>2 DEF HeardSoFar
    <3>3. QED BY <1>1, <2>3, <3>1, <3>2
  <2>5. QED BY <1>1, <2>3, <2>4 DEF HeardSoFar, Ended
<1>7. CASE onLookupProgressDialogResponse
  <2>1. PICK n \in DOMAIN searches, open \in BOOLEAN :
            searches' = [searches EXCEPT ![n].cancel = TRUE, ![n].dialog = open]
    BY <1>7 DEF onLookupProgressDialogResponse
  <2> DEFINE s == searches[n]
             t == [s EXCEPT !.cancel = TRUE, !.dialog = open]
  <2>2. n \in 1..Len(searches) /\ s \in SearchRecords /\ query_dictmask' = query_dictmask
    BY <1>1, <1>7 DEF onLookupProgressDialogResponse
  <2>3. searches' = [searches EXCEPT ![n] = t]
    BY <2>1
  <2> HIDE DEF s
  <2>4. /\ t.i = s.i /\ t.j = s.j /\ t.iwords = s.iwords /\ t.reslist = s.reslist
        /\ t.reloaded = s.reloaded /\ t.query = s.query /\ t \in SearchRecords
    BY <2>1, <2>2 DEF SearchRecords
  <2> HIDE DEF t
  <2>5. /\ Len(searches') = Len(searches) /\ searches'[n] = t
        /\ \A k \in 1..Len(searches) : k # n => searches'[k] = searches[k]
    BY <1>1, <2>2, <2>3, <2>4
  <2>6. HasHeard(s, query_dictmask) => HasHeard(t, query_dictmask)
    BY <2>4 DEF HasHeard
  <2>7. ASSUME NEW k \in 1..Len(searches'), ~searches'[k].reloaded
        PROVE  HasHeard(searches'[k], query_dictmask')
    <3>1. CASE k = n
      BY <2>2, <2>4, <2>5, <2>6, <2>7, <3>1 DEF HeardSoFar, s
    <3>2. CASE k # n
      BY <2>2, <2>5, <2>7, <3>2 DEF HeardSoFar
    <3>3. QED BY <3>1, <3>2
  <2>8. QED BY <1>1, <2>5, <2>7 DEF HeardSoFar, Ended
<1>8. QED BY <1>3, <1>4, <1>5, <1>6, <1>7

\* If SearchData is right about the articles, every search that is under way has heard
\* what it should have from the articles it has come past, whatever was typed, searched
\* and answered in the meantime.  That it comes past the next takes the table of KMP,
\* which SearchSafe is about.
THEOREM SearchHears == ASSUME SearchesAreTrue PROVE Spec => []HeardSoFar
<1>1. Init => HeardSoFar
  <2>1. Init => Len(searches) = 0
    BY DEF Init
  <2>2. QED BY <2>1 DEF HeardSoFar
<1>2. SearchInv /\ HeardSoFar /\ [Next]_vars => HeardSoFar'
  <2> SUFFICES ASSUME SearchInv, HeardSoFar, [Next]_vars PROVE HeardSoFar'
    OBVIOUS
  <2>1. CASE LookupData
    BY <2>1, LookupHears
  <2>2. CASE \/ Type \/ Reload \/ SearchWord \/ onLookupProgressDialogResponse \/ UNCHANGED vars
    BY <2>2, OthersHear
  <2>3. QED BY <2>1, <2>2 DEF Next
<1>3. QED BY <1>1, <1>2, SearchInvariant, PTL DEF Spec

\* If SearchData is right about the articles, a search that comes to its end, was not
\* cancelled and whose dictionaries were not changed has found, in each of them, the
\* words whose articles have all the words of the query.
THEOREM SearchFindsExactly == ASSUME SearchesAreTrue PROVE Spec => FoundExactly
<1>1. SearchInv /\ HeardSoFar /\ [Next]_vars =>
          [Ended /\ SearchWords(search.query) # <<>> =>
              \A k \in DOMAIN query_dictmask :
                  search.reslist[k] = Expected(search.query, query_dictmask[k])]_vars
  <2> SUFFICES ASSUME SearchInv, HeardSoFar, [Next]_vars,
                      Ended, SearchWords(search.query) # <<>>
               PROVE  \A k \in DOMAIN query_dictmask :
                         search.reslist[k] = Expected(search.query, query_dictmask[k])
    OBVIOUS
  <2>1. CASE LookupData
    BY <2>1, LookupHears
  <2>2. CASE \/ Type \/ Reload \/ SearchWord \/ onLookupProgressDialogResponse \/ UNCHANGED vars
    BY <2>2, OthersHear
  <2>3. QED BY <2>1, <2>2 DEF Next
<1>2. QED BY <1>1, SearchInvariant, SearchHears, PTL DEF Spec, FoundExactly

-----------------------------------------------------------------------------
(* The slots of the fuzzy search, for any words, distances and number of   *)
(* slots.  The strengthening is the conjunction of the properties: that no *)
(* better word was lost needs to know that the word replaced was one of    *)
(* the worst, which is SlotFound and KeptOnce.                             *)

KeptInv == FuzzyTypeOK /\ SlotFound /\ KeptOnce /\ NothingBetterLost

USE CandidatesAssumption, LenDiffAssumption, DistAssumption, SizeAssumption, LimitAssumption

\* The slot that is replaced is one of the worst.
LEMMA ReplacedIsWorst ==
    ASSUME FuzzyTypeOK, SlotFound, NEW j \in ReplacedSlots
    PROVE  j \in Slots /\ iMatchWordDistance[j] = iMaxDistance
BY DEF SlotFound, ReplacedSlots

\* Replacing the word of a slot: what the slots hold afterwards, and that the
\* limit never rises.
LEMMA ReplaceEffect ==
    ASSUME FuzzyTypeOK, SlotFound, NEW w \in Candidates, Near(w), Replace(w)
    PROVE  \E j \in Slots :
             /\ iMatchWordDistance[j] = iMaxDistance
             /\ pMatchWord' = [pMatchWord EXCEPT ![j] = w]
             /\ iMatchWordDistance' = [iMatchWordDistance EXCEPT ![j] = Dist[w]]
             /\ iMaxDistance' \in 0..iMaxDistance
             /\ \E k \in Slots : iMatchWordDistance'[k] = iMaxDistance'
             /\ \A k \in Slots : iMatchWordDistance'[k] <= iMaxDistance'
<1>1. PICK j \in ReplacedSlots :
        /\ pMatchWord' = [pMatchWord EXCEPT ![j] = w]
        /\ iMatchWordDistance' = [iMatchWordDistance EXCEPT ![j] = Dist[w]]
        /\ iMaxDistance' \in Greatest(iMatchWordDistance')
  BY DEF Replace
<1>2. j \in Slots /\ iMatchWordDistance[j] = iMaxDistance
  BY ReplacedIsWorst
<1>3. \A k \in Slots : iMatchWordDistance'[k] \in 0..iMaxDistance
  BY <1>1, <1>2 DEF FuzzyTypeOK, SlotFound, Near
<1>4. /\ \E k \in Slots : iMatchWordDistance'[k] = iMaxDistance'
      /\ \A k \in Slots : iMatchWordDistance'[k] <= iMaxDistance'
  BY <1>1 DEF Greatest
<1>5. iMaxDistance' \in 0..iMaxDistance
  BY <1>3, <1>4
<1> QED
  BY <1>1, <1>2, <1>4, <1>5

LEMMA InitKept == FuzzyInit => KeptInv
<1> SUFFICES ASSUME FuzzyInit PROVE KeptInv
  OBVIOUS
<1>1. visits \in Seq(Candidates)
  BY DEF FuzzyInit
<1>2. FuzzyTypeOK
  BY <1>1 DEF FuzzyInit, FuzzyTypeOK, Slots
<1>3. SlotFound
  BY DEF FuzzyInit, SlotFound, Slots
<1>4. KeptOnce
  BY DEF FuzzyInit, KeptOnce
<1>5. NothingBetterLost
  BY DEF FuzzyInit, NothingBetterLost, Visited
<1> QED
  BY <1>2, <1>3, <1>4, <1>5 DEF KeptInv

\* A word that is passed over or found in the list again is accounted for.
LEMMA PassKept ==
    ASSUME KeptInv, Visit, UNCHANGED slots,
           LET w == visits[i] IN Skipped(w) \/ ~Near(w) \/ AlreadyInList(w)
    PROVE  KeptInv'
<1>1. /\ i \in DOMAIN visits /\ visits[i] \in Candidates
      /\ i' = i + 1 /\ visits' = visits /\ reslist' = reslist /\ found' \in {"yes", "no"}
  BY DEF Visit, KeptInv, FuzzyTypeOK
<1>2. FuzzyTypeOK'
  BY <1>1 DEF KeptInv, FuzzyTypeOK, slots
<1>3. SlotFound' /\ KeptOnce'
  BY DEF KeptInv, SlotFound, KeptOnce, slots
<1>4. NothingBetterLost'
  <2>1. Visited' \subseteq Visited \cup {visits[i]}
    BY <1>1 DEF Visited, KeptInv, FuzzyTypeOK
  <2>2. Kept' = Kept
    BY DEF Kept, slots
  <2>3. AlreadyInList(visits[i]) => visits[i] \in Kept
    BY <1>1 DEF AlreadyInList, Kept, NULL
  <2>4. iMaxDistance' = iMaxDistance
    BY DEF slots
  <2>5. LenDiff[visits[i]] \in Int /\ Dist[visits[i]] \in Nat /\ iMaxDistance \in Nat
    <3>1. \A u \in Candidates : LenDiff[u] \in Int /\ Dist[u] \in Nat
      OBVIOUS
    <3>2. iMaxDistance \in Nat
      BY DEF KeptInv, FuzzyTypeOK
    <3>3. QED BY <1>1, <3>1, <3>2
  <2> SUFFICES ASSUME NEW v \in Visited' \ Kept'
               PROVE  \/ Dist[v] >= iMaxDistance \/ Dist[v] >= QueryLen
                      \/ LenDiff[v] >= iMaxDistance \/ -LenDiff[v] >= iMaxDistance
    BY <2>4 DEF NothingBetterLost
  <2>6. CASE v \in Visited
    BY <2>2, <2>6 DEF KeptInv, NothingBetterLost
  <2>7. CASE v = visits[i]
    BY <2>2, <2>3, <2>5, <2>7 DEF Skipped, Near
  <2> QED
    BY <2>1, <2>6, <2>7
<1> QED
  BY <1>2, <1>3, <1>4 DEF KeptInv

\* So is a word that takes a slot, and the word it takes it from.
LEMMA ReplaceKept ==
    ASSUME KeptInv, Visit,
           Near(visits[i]), ~AlreadyInList(visits[i]), Replace(visits[i])
    PROVE  KeptInv'
<1> DEFINE w == visits[i]
<1>1. /\ i \in DOMAIN visits /\ w \in Candidates
      /\ i' = i + 1 /\ visits' = visits /\ reslist' = reslist /\ found' \in {"yes", "no"}
  BY DEF Visit, KeptInv, FuzzyTypeOK
<1>2. PICK j \in Slots :
             /\ iMatchWordDistance[j] = iMaxDistance
             /\ pMatchWord' = [pMatchWord EXCEPT ![j] = w]
             /\ iMatchWordDistance' = [iMatchWordDistance EXCEPT ![j] = Dist[w]]
             /\ iMaxDistance' \in 0..iMaxDistance
             /\ \E k \in Slots : iMatchWordDistance'[k] = iMaxDistance'
             /\ \A k \in Slots : iMatchWordDistance'[k] <= iMaxDistance'
  BY <1>1, ReplaceEffect DEF KeptInv
<1>3. FuzzyTypeOK'
  <2>1. Dist[w] \in Nat
    BY <1>1
  <2>2. pMatchWord' \in [Slots -> Candidates \cup {NULL}]
    BY <1>1, <1>2 DEF KeptInv, FuzzyTypeOK
  <2>3. iMatchWordDistance' \in [Slots -> Nat]
    BY <1>2, <2>1 DEF KeptInv, FuzzyTypeOK
  <2>4. iMaxDistance' \in 0..iMaxFuzzyDistance
    BY <1>2 DEF KeptInv, FuzzyTypeOK
  <2>5. i' \in 1..Len(visits') + 1
    BY <1>1 DEF KeptInv, FuzzyTypeOK
  <2> QED
    BY <1>1, <2>2, <2>3, <2>4, <2>5 DEF KeptInv, FuzzyTypeOK
<1>4. SlotFound'
  <2>1. \A k \in Slots : pMatchWord'[k] = NULL <=> iMatchWordDistance'[k] = iMaxFuzzyDistance
    BY <1>1, <1>2 DEF KeptInv, FuzzyTypeOK, SlotFound, Near, NULL
  <2> QED
    BY <1>2, <2>1 DEF SlotFound
<1>5. KeptOnce'
  BY <1>1, <1>2 DEF KeptInv, FuzzyTypeOK, KeptOnce, AlreadyInList
<1>6. NothingBetterLost'
  <2>1. Visited' \subseteq Visited \cup {w}
    BY <1>1 DEF Visited, KeptInv, FuzzyTypeOK
  <2>2. w \in Kept' /\ Kept \subseteq Kept' \cup {pMatchWord[j]}
    BY <1>1, <1>2 DEF Kept, NULL, KeptInv, FuzzyTypeOK
  <2>3. pMatchWord[j] \in Kept => Dist[pMatchWord[j]] = iMaxDistance
    BY <1>2 DEF KeptInv, KeptOnce, Kept
  <2> SUFFICES ASSUME NEW v \in Visited' \ Kept'
               PROVE  \/ Dist[v] >= iMaxDistance' \/ Dist[v] >= QueryLen
                      \/ LenDiff[v] >= iMaxDistance' \/ -LenDiff[v] >= iMaxDistance'
    BY DEF NothingBetterLost
  <2>4. v \in Visited /\ v # w
    BY <2>1, <2>2
  <2>5. v \in Candidates
    BY <2>4 DEF Visited, KeptInv, FuzzyTypeOK
  <2>6. Dist[v] \in Nat /\ LenDiff[v] \in Int /\ iMaxDistance \in Nat /\ QueryLen \in Nat
    BY <2>5 DEF KeptInv, FuzzyTypeOK
  <2>7. CASE v \in Kept
    BY <2>2, <2>3, <2>6, <2>7, <1>2
  <2>8. CASE v \notin Kept
    <3>1. \/ Dist[v] >= iMaxDistance \/ Dist[v] >= QueryLen
          \/ LenDiff[v] >= iMaxDistance \/ -LenDiff[v] >= iMaxDistance
      BY <2>4, <2>8 DEF KeptInv, NothingBetterLost
    <3> QED
      BY <3>1, <2>6, <1>2
  <2> QED
    BY <2>7, <2>8
<1> QED
  BY <1>3, <1>4, <1>5, <1>6 DEF KeptInv

LEMMA NextKept == KeptInv /\ [FuzzyNext]_fuzzy_vars => KeptInv'
<1> SUFFICES ASSUME KeptInv, [FuzzyNext]_fuzzy_vars PROVE KeptInv'
  OBVIOUS
<1>1. CASE Visit
  BY <1>1, PassKept, ReplaceKept DEF Visit
<1>2. CASE Return
  <2>1. PICK p \in [Slots -> Slots] : reslist' = [j \in Slots |-> pMatchWord[p[j]]]
    BY <1>2 DEF Return
  <2>2. reslist' \in Seq(Candidates \cup {NULL})
    <3>1. \A j \in Slots : pMatchWord[p[j]] \in Candidates \cup {NULL}
      BY DEF KeptInv, FuzzyTypeOK
    <3>2. reslist' \in [1..reslist_size -> Candidates \cup {NULL}]
      BY <2>1, <3>1 DEF Slots
    <3> QED
      BY <3>2
  <2>3. UNCHANGED <<visits, i, pMatchWord, iMatchWordDistance, iMaxDistance, found>>
    BY <1>2 DEF Return, slots
  <2>4. FuzzyTypeOK'
    BY <2>2, <2>3 DEF KeptInv, FuzzyTypeOK
  <2>5. SlotFound' /\ KeptOnce'
    BY <2>3 DEF KeptInv, SlotFound, KeptOnce
  <2>6. NothingBetterLost'
    BY <2>3 DEF KeptInv, NothingBetterLost, Visited, Kept
  <2> QED
    BY <2>4, <2>5, <2>6 DEF KeptInv
<1>3. CASE UNCHANGED fuzzy_vars
  <2>1. FuzzyTypeOK'
    BY <1>3 DEF fuzzy_vars, KeptInv, FuzzyTypeOK
  <2>2. SlotFound' /\ KeptOnce'
    BY <1>3 DEF fuzzy_vars, KeptInv, SlotFound, KeptOnce
  <2>3. NothingBetterLost'
    BY <1>3 DEF fuzzy_vars, KeptInv, NothingBetterLost, Visited, Kept
  <2> QED
    BY <2>1, <2>2, <2>3 DEF KeptInv
<1> QED
  BY <1>1, <1>2, <1>3 DEF FuzzyNext

\* The invariant the theorems below are parts of.
THEOREM KeptInvariant == FuzzySpec => []KeptInv
BY InitKept, NextKept, PTL DEF FuzzySpec

\* The variables stay in their types: iMaxDistance never leaves its range.
THEOREM TypeCorrect == FuzzySpec => []FuzzyTypeOK
<1>1. KeptInv => FuzzyTypeOK
  BY DEF KeptInv
<1> QED
  BY <1>1, KeptInvariant, PTL

\* The slot to replace "will certainly be found".
THEOREM SlotAlwaysFound == FuzzySpec => []SlotFound
<1>1. KeptInv => SlotFound
  BY DEF KeptInv
<1> QED
  BY <1>1, KeptInvariant, PTL

\* No word is offered twice.
THEOREM NoDuplicates == FuzzySpec => []KeptOnce
<1>1. KeptInv => KeptOnce
  BY DEF KeptInv
<1> QED
  BY <1>1, KeptInvariant, PTL

\* One pass with a falling limit drops no word that is nearer than a kept one.
THEOREM NearestKept == FuzzySpec => []NothingBetterLost
<1>1. KeptInv => NothingBetterLost
  BY DEF KeptInv
<1> QED
  BY <1>1, KeptInvariant, PTL

\* The words kept are the nearest of those seen, each once.
THEOREM KeptAreNearest == FuzzySpec => []KeepsNearest
<1>1. KeptOnce /\ NothingBetterLost => KeepsNearest
  BY DEF KeepsNearest
<1> QED
  BY <1>1, NoDuplicates, NearestKept, PTL
=============================================================================
