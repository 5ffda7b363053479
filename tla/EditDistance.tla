---------------------------- MODULE EditDistance ----------------------------
(***************************************************************************)
(* EditDistance::CalEditDistance (lib/distance.cpp): how many letters must *)
(* be inserted, deleted, replaced or swapped with their neighbour to turn  *)
(* one word into another.  The code trims what the words have in common,   *)
(* puts the shorter one first and stops when a limit is reached, so that   *)
(* most words cost little.  The reference definition does none of this.    *)
(***************************************************************************)
EXTENDS Integers, Sequences

CONSTANTS Letters, MaxLetters, MaxLimit   \* bounds of the comparison

Min3(a, b, c) == CHOOSE m \in {a, b, c} : m <= a /\ m <= b /\ m <= c

\* How many letters the words share at their front.
CommonPrefix(s, t) ==
    CHOOSE p \in 0..Len(s) :
        /\ p <= Len(t)
        /\ \A k \in 1..p : s[k] = t[k]
        /\ p < Len(s) /\ p < Len(t) => s[p + 1] # t[p + 1]

CommonSuffix(s, t) ==
    CHOOSE q \in 0..Len(s) :
        /\ q <= Len(t)
        /\ \A k \in 0..q - 1 : s[Len(s) - k] = t[Len(t) - k]
        /\ q < Len(s) /\ q < Len(t) => s[Len(s) - q] # t[Len(t) - q]

\* Mutant of Matrix: a swap is taken off without looking at its cost.
MatrixSwapUnchecked(s, t) ==
    LET d[i \in 0..Len(s), j \in 0..Len(t)] ==
          IF i = 0 THEN j ELSE IF j = 0 THEN i
          ELSE LET cost == IF s[i] = t[j] THEN 0 ELSE 1
                   least == Min3(d[i, j - 1] + 1, d[i - 1, j] + 1, d[i - 1, j - 1] + cost)
               IN  IF i >= 2 /\ j >= 2 /\ s[i - 1] = t[j] /\ s[i] = t[j - 1]
                   THEN least - 1 ELSE least
    IN  d

\* The cells of the matrix d.  They are calculated column by column down to row
\* iLenDif + i and then along that row, so that each only reads earlier ones.
Matrix(s, t) ==
    LET d[i \in 0..Len(s), j \in 0..Len(t)] ==
          IF i = 0 THEN j ELSE IF j = 0 THEN i
          ELSE LET cost == IF s[i] = t[j] THEN 0 ELSE 1
                   least == Min3(d[i, j - 1] + 1, d[i - 1, j] + 1, d[i - 1, j - 1] + cost)
               IN  IF i >= 2 /\ j >= 2 /\ least - d[i - 2, j - 2] = 2
                      /\ s[i - 1] = t[j] /\ s[i] = t[j - 1]
                   THEN least - 1 ELSE least
    IN  d

\* The loop: it stops at the first cell of the last diagonal at the limit.
Band(s, t, limit) ==
    LET d == Matrix(s, t)
        diagonal == [i \in 1..Len(s) |-> d[i, Len(t) - Len(s) + i]]
        Over == {i \in 1..Len(s) : diagonal[i] >= limit}
    IN  diagonal[IF Over = {} THEN Len(s) ELSE CHOOSE i \in Over : \A k \in Over : i <= k]

CalEditDistance(s0, t0, limit) ==
    LET p == CommonPrefix(s0, t0)
        s1 == SubSeq(s0, p + 1, Len(s0))
        t1 == SubSeq(t0, p + 1, Len(t0))
        q == CommonSuffix(s1, t1)
        s2 == SubSeq(s1, 1, Len(s1) - q)
        t2 == SubSeq(t1, 1, Len(t1) - q)
        s == IF Len(t2) < Len(s2) THEN t2 ELSE s2
        t == IF Len(t2) < Len(s2) THEN s2 ELSE t2
        iLenDif == Len(t) - Len(s)
    IN  IF s = <<>> THEN Len(t)
        ELSE IF iLenDif >= limit THEN iLenDif
        ELSE Band(s, t, limit)

-----------------------------------------------------------------------------
\* The distance itself: a word of no letters, or the least of the four edits.
Distance(s, t) ==
    LET d[i \in 0..Len(s), j \in 0..Len(t)] ==
          IF i = 0 \/ j = 0 THEN i + j
          ELSE LET edits == {d[i - 1, j] + 1, d[i, j - 1] + 1,
                             d[i - 1, j - 1] + IF s[i] = t[j] THEN 0 ELSE 1}
                   swaps == IF i >= 2 /\ j >= 2 /\ s[i] = t[j - 1] /\ s[i - 1] = t[j]
                            THEN {d[i - 2, j - 2] + 1} ELSE {}
               IN  CHOOSE m \in edits \cup swaps : \A e \in edits \cup swaps : m <= e
    IN  d[Len(s), Len(t)]

\* The short cuts change nothing that the caller can tell: below the limit the
\* result is the distance, at or beyond it the distance is there too.
DistanceExact ==
    LET Strings == UNION {[1..n -> Letters] : n \in 0..MaxLetters}
    IN  \A s, t \in Strings, limit \in 1..MaxLimit :
            LET c == CalEditDistance(s, t, limit)
            IN  IF c < limit THEN c = Distance(s, t) ELSE Distance(s, t) >= limit
=============================================================================
