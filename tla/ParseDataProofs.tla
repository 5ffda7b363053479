-------------------------- MODULE ParseDataProofs ---------------------------
(***************************************************************************)
(* What holds of ParseData for every article: each link of an item covers  *)
(* the text that was written for it.  The units of markup and the places   *)
(* they take are counted first, then what each plugin writes, token by     *)
(* token, and its steps.                                                   *)
(***************************************************************************)
EXTENDS ParseData, FiniteSetTheorems, SequenceTheorems, WellFoundedInduction, TLAPS

-----------------------------------------------------------------------------
(* Numbers.                                                                *)

\* A set of natural numbers that is not empty has a least element.
LEMMA LeastNat ==
    ASSUME NEW T \in SUBSET Nat, T # {}
    PROVE  \E x \in T : \A y \in T : x <= y
<1> DEFINE R == OpToRel(<, Nat)
<1>1. IsWellFoundedOn(R, Nat)
  BY NatLessThanWellFounded
<1>2. \A x, y \in Nat : <<y, x>> \in R <=> y < x
  BY DEF OpToRel
<1> HIDE DEF R
<1>3. PICK x \in T : \A y \in T : ~ (<<y, x>> \in R)
  BY <1>1, WFMin
<1>4. ASSUME NEW y \in T PROVE x <= y
  <2>1. x \in Nat /\ y \in Nat
    OBVIOUS
  <2>2. ~ (y < x)
    BY <1>2, <1>3, <2>1
  <2>3. QED BY <2>1, <2>2
<1>5. QED BY <1>4

\* Induction up to n: what holds of 0, and of k + 1 if of k, is said by a set.
LEMMA CountUp ==
    ASSUME NEW n \in Nat, NEW T, 0 \in T, \A k \in 0..n - 1 : k \in T => k + 1 \in T
    PROVE  n \in T /\ \A k \in 0..n : k \in T
<1> DEFINE Wrong == {k \in 0..n : k \notin T}
<1>1. SUFFICES ASSUME Wrong # {} PROVE FALSE
  OBVIOUS
<1>2. PICK x \in Wrong : \A y \in Wrong : x <= y
  <2>1. Wrong \in SUBSET Nat
    OBVIOUS
  <2> HIDE DEF Wrong
  <2>2. QED BY <1>1, <2>1, LeastNat
<1>3. x - 1 \in 0..n - 1
  OBVIOUS
<1>4. x - 1 \in T
  BY <1>2, <1>3
<1>5. x - 1 + 1 = x
  OBVIOUS
<1>6. QED BY <1>3, <1>4, <1>5

\* Induction up to n: what holds of 1, and of k + 1 if of k, is said by a set.
LEMMA CountFromOne ==
    ASSUME NEW n \in Nat, NEW T, 1 \in T, \A k \in 1..n - 1 : k \in T => k + 1 \in T
    PROVE  \A k \in 1..n : k \in T
<1> DEFINE Wrong == {k \in 1..n : k \notin T}
<1>1. SUFFICES ASSUME Wrong # {} PROVE FALSE
  OBVIOUS
<1>2. PICK x \in Wrong : \A y \in Wrong : x <= y
  <2>1. Wrong \in SUBSET Nat
    OBVIOUS
  <2> HIDE DEF Wrong
  <2>2. QED BY <1>1, <2>1, LeastNat
<1>3. x # 1 /\ x - 1 \in 1..n - 1
  OBVIOUS
<1>4. x - 1 \in T
  BY <1>2, <1>3
<1>5. x - 1 + 1 = x
  OBVIOUS
<1>6. QED BY <1>3, <1>4, <1>5

-----------------------------------------------------------------------------
(* Units and the places they take.                                         *)

Units == [k : Visible \cup {"open", "close"}, tag : {"", "b", "span", "unknown"}, by : Nat]

\* The places of a text.
Width(units) == Places(units)[Len(units)]

\* Where the units of two sequences stand in both.
LEMMA ConcatFacts ==
    ASSUME NEW D, NEW x \in Seq(D), NEW y \in Seq(D)
    PROVE  /\ x \o y \in Seq(D) /\ Len(x \o y) = Len(x) + Len(y)
           /\ Len(x) \in Nat /\ Len(y) \in Nat
           /\ DOMAIN (x \o y) = 1..Len(x) + Len(y) /\ DOMAIN (x \o y) = 1..Len(x \o y)
           /\ \A i \in 1..Len(x) : i \in DOMAIN (x \o y) /\ (x \o y)[i] = x[i]
           /\ \A i \in 1..Len(y) : Len(x) + i \in DOMAIN (x \o y) /\ (x \o y)[Len(x) + i] = y[i]
           /\ \A i \in DOMAIN (x \o y) :
                /\ i \in Int /\ Len(x) + (i - Len(x)) = i
                /\ i \in 1..Len(x) \/ i - Len(x) \in 1..Len(y)
<1>1. x \o y \in Seq(D) /\ Len(x \o y) = Len(x) + Len(y) /\ Len(x) \in Nat /\ Len(y) \in Nat
  OBVIOUS
<1>2. \A i \in 1..Len(x) + Len(y) : (x \o y)[i] = IF i <= Len(x) THEN x[i] ELSE y[i - Len(x)]
  OBVIOUS
<1>3. DOMAIN (x \o y) = 1..Len(x) + Len(y)
  BY <1>1
<1>4. ASSUME NEW i \in 1..Len(y)
      PROVE  Len(x) + i \in DOMAIN (x \o y) /\ (x \o y)[Len(x) + i] = y[i]
  <2>1. Len(x) + i \in 1..Len(x) + Len(y) /\ ~(Len(x) + i <= Len(x)) /\ Len(x) + i - Len(x) = i
    BY <1>1
  <2>2. QED BY <1>2, <1>3, <2>1
<1>5. ASSUME NEW i \in 1..Len(x) PROVE i \in DOMAIN (x \o y) /\ (x \o y)[i] = x[i]
  <2>1. i \in 1..Len(x) + Len(y) /\ i <= Len(x)
    BY <1>1
  <2>2. QED BY <1>2, <1>3, <2>1
<1>6. ASSUME NEW i \in 1..Len(x) + Len(y)
      PROVE  /\ i \in Int /\ Len(x) + (i - Len(x)) = i
             /\ i \in 1..Len(x) \/ i - Len(x) \in 1..Len(y)
  BY <1>1
<1> DEFINE z == x \o y
<1> HIDE DEF z
<1>7. QED BY <1>1, <1>3, <1>4, <1>5, <1>6 DEF z

LEMMA UnitsConcat ==
    ASSUME NEW x \in Seq(Units), NEW y \in Seq(Units)
    PROVE  /\ x \o y \in Seq(Units) /\ Len(x \o y) = Len(x) + Len(y)
           /\ Len(x) \in Nat /\ Len(y) \in Nat
           /\ DOMAIN (x \o y) = 1..Len(x) + Len(y) /\ DOMAIN (x \o y) = 1..Len(x \o y)
           /\ \A i \in 1..Len(x) : i \in DOMAIN (x \o y) /\ (x \o y)[i] = x[i]
           /\ \A i \in 1..Len(y) : Len(x) + i \in DOMAIN (x \o y) /\ (x \o y)[Len(x) + i] = y[i]
           /\ \A i \in DOMAIN (x \o y) :
                /\ i \in Int /\ Len(x) + (i - Len(x)) = i
                /\ i \in 1..Len(x) \/ i - Len(x) \in 1..Len(y)
           /\ \A i \in 1..Len(x \o y) :
                \/ \E j \in 1..Len(x) : (x \o y)[i] = x[j]
                \/ \E j \in 1..Len(y) : (x \o y)[i] = y[j]
<1> DEFINE D == Units
<1>1. x \in Seq(D) /\ y \in Seq(D)
  OBVIOUS
<1> HIDE DEF D
<1>2. /\ x \o y \in Seq(D) /\ Len(x \o y) = Len(x) + Len(y)
      /\ Len(x) \in Nat /\ Len(y) \in Nat
      /\ DOMAIN (x \o y) = 1..Len(x) + Len(y) /\ DOMAIN (x \o y) = 1..Len(x \o y)
      /\ \A i \in 1..Len(x) : i \in DOMAIN (x \o y) /\ (x \o y)[i] = x[i]
      /\ \A i \in 1..Len(y) : Len(x) + i \in DOMAIN (x \o y) /\ (x \o y)[Len(x) + i] = y[i]
      /\ \A i \in DOMAIN (x \o y) :
            /\ i \in Int /\ Len(x) + (i - Len(x)) = i
            /\ i \in 1..Len(x) \/ i - Len(x) \in 1..Len(y)
  BY <1>1, ConcatFacts
<1> DEFINE z == x \o y
<1> HIDE DEF z
<1>3. ASSUME NEW i \in 1..Len(z)
      PROVE  \/ \E j \in 1..Len(x) : z[i] = x[j]
             \/ \E j \in 1..Len(y) : z[i] = y[j]
  <2>1. /\ \A j \in 1..Len(x) : z[j] = x[j]
        /\ \A j \in 1..Len(y) : z[Len(x) + j] = y[j]
    BY <1>2 DEF z
  <2>2. i \in 1..Len(x) \/ i - Len(x) \in 1..Len(y)
    BY <1>2 DEF z
  <2>3. Len(x) + (i - Len(x)) = i
    BY <1>2
  <2>4. CASE i - Len(x) \in 1..Len(y)
    <3> DEFINE j == i - Len(x)
    <3>1. j \in 1..Len(y) /\ i = Len(x) + j
      BY <2>3, <2>4
    <3> HIDE DEF j
    <3>2. z[i] = y[j]
      BY <2>1, <3>1
    <3>3. QED BY <3>1, <3>2
  <2>5. CASE i \in 1..Len(x)
    BY <2>1, <2>5
  <2>6. QED BY <2>2, <2>4, <2>5
<1>4. QED BY <1>2, <1>3 DEF z, D

\* How the places add up.
LEMMA PlacesFacts ==
    ASSUME NEW D, NEW u \in Seq(D)
    PROVE  /\ \A n \in 0..Len(u) : Places(u)[n] \in Nat
           /\ Places(u)[0] = 0
           /\ \A n \in 0..Len(u) - 1 :
                Places(u)[n + 1] = Places(u)[n] + IF u[n + 1].k \in Visible THEN 1 ELSE 0
           /\ Width(u) \in Nat
<1> DEFINE P(n) == {i \in 1..n : u[i].k \in Visible}
<1>1. \A n \in 0..Len(u) : Places(u)[n] = Cardinality(P(n))
  BY DEF Places
<1>2. ASSUME NEW n \in Nat PROVE IsFiniteSet(P(n)) /\ Cardinality(P(n)) \in Nat
  <2>1. IsFiniteSet(1..n)
    BY FS_Interval
  <2>2. IsFiniteSet(P(n))
    BY <2>1, FS_Subset
  <2>3. QED BY <2>2, FS_CardinalityType
<1>3. Cardinality(P(0)) = 0
  <2>1. P(0) = {}
    OBVIOUS
  <2>2. QED BY <2>1, FS_EmptySet
<1>4. ASSUME NEW n \in 0..Len(u) - 1
      PROVE  Cardinality(P(n + 1)) = Cardinality(P(n)) + IF u[n + 1].k \in Visible THEN 1 ELSE 0
  <2>1. IsFiniteSet(P(n)) /\ n + 1 \notin P(n) /\ n \in Nat
    BY <1>2
  <2>2. CASE u[n + 1].k \in Visible
    <3>1. P(n + 1) = P(n) \cup {n + 1}
      BY <2>1, <2>2
    <3>2. QED BY <2>1, <2>2, <3>1, FS_AddElement
  <2>3. CASE u[n + 1].k \notin Visible
    <3>1. P(n + 1) = P(n)
      BY <2>1, <2>3
    <3>2. Cardinality(P(n)) \in Nat
      BY <1>2, <2>1
    <3>3. Cardinality(P(n)) + 0 = Cardinality(P(n))
      BY <3>2
    <3>4. QED BY <2>3, <3>1, <3>3
  <2>4. QED BY <2>2, <2>3
<1>5. Len(u) \in Nat
  OBVIOUS
<1> HIDE DEF P
<1>6. \A n \in 0..Len(u) - 1 : n \in 0..Len(u) /\ n + 1 \in 0..Len(u)
  BY <1>5
<1>7. 0 \in 0..Len(u) /\ Len(u) \in 0..Len(u)
  BY <1>5
<1>8. \A n \in 0..Len(u) : Places(u)[n] \in Nat
  BY <1>1, <1>2
<1>9. QED BY <1>1, <1>3, <1>4, <1>6, <1>7, <1>8 DEF Width

LEMMA PlacesConcat ==
    ASSUME NEW x \in Seq(Units), NEW y \in Seq(Units)
    PROVE  /\ \A n \in 0..Len(x) : Places(x \o y)[n] = Places(x)[n]
           /\ \A n \in 0..Len(y) : Places(x \o y)[Len(x) + n] = Width(x) + Places(y)[n]
           /\ Width(x \o y) = Width(x) + Width(y)
<1> DEFINE z == x \o y
<1>1. /\ z \in Seq(Units) /\ Len(z) = Len(x) + Len(y) /\ Len(x) \in Nat /\ Len(y) \in Nat
      /\ \A i \in 1..Len(x) : z[i] = x[i]
      /\ \A i \in 1..Len(y) : z[Len(x) + i] = y[i]
  BY ConcatFacts
<1> HIDE DEF z
<1>2. ASSUME NEW n \in 0..Len(x) PROVE Places(z)[n] = Places(x)[n]
  <2>1. {i \in 1..n : z[i].k \in Visible} = {i \in 1..n : x[i].k \in Visible}
    <3>1. \A i \in 1..n : i \in 1..Len(x)
      BY <1>1
    <3>2. QED BY <1>1, <3>1
  <2>2. n \in 0..Len(z)
    BY <1>1
  <2>3. QED BY <2>1, <2>2 DEF Places
<1> DEFINE T == {n \in 0..Len(y) : Places(z)[Len(x) + n] = Width(x) + Places(y)[n]}
<1>3. 0 \in T
  <2>1. Len(x) \in 0..Len(x) /\ 0 \in 0..Len(y) /\ Len(x) + 0 = Len(x)
    BY <1>1
  <2>2. Places(z)[Len(x)] = Width(x) /\ Width(x) \in Nat
    BY <1>2, <2>1, PlacesFacts DEF Width
  <2>3. Places(y)[0] = 0
    BY PlacesFacts
  <2>4. QED BY <2>1, <2>2, <2>3
<1>4. ASSUME NEW n \in 0..Len(y) - 1, n \in T PROVE n + 1 \in T
  <2>1. Len(x) + n \in 0..Len(z) - 1 /\ Len(x) + (n + 1) = Len(x) + n + 1 /\ n + 1 \in 1..Len(y)
    BY <1>1
  <2>2. Places(z)[Len(x) + n + 1] =
          Places(z)[Len(x) + n] + IF z[Len(x) + n + 1].k \in Visible THEN 1 ELSE 0
    BY <1>1, <2>1, PlacesFacts
  <2>3. Places(y)[n + 1] = Places(y)[n] + IF y[n + 1].k \in Visible THEN 1 ELSE 0
    BY PlacesFacts
  <2>4. z[Len(x) + n + 1] = y[n + 1]
    BY <1>1, <2>1
  <2>5. Places(y)[n] \in Nat /\ Width(x) \in Nat
    <3>1. n \in 0..Len(y)
      BY <1>1
    <3>2. QED BY <3>1, PlacesFacts
  <2>6. Places(z)[Len(x) + n] = Width(x) + Places(y)[n]
    BY <1>4
  <2>7. Places(z)[Len(x) + (n + 1)] = Width(x) + Places(y)[n + 1]
    BY <2>1, <2>2, <2>3, <2>4, <2>5, <2>6
  <2>8. n + 1 \in 0..Len(y)
    BY <1>1
  <2>9. QED BY <2>7, <2>8
<1>5. \A n \in 0..Len(y) : n \in T
  <2> HIDE DEF T
  <2>1. QED BY <1>1, <1>3, <1>4, CountUp
<1>6. Width(z) = Width(x) + Width(y)
  <2>1. Len(y) \in T
    BY <1>1, <1>5
  <2>2. QED BY <1>1, <2>1 DEF Width
<1>7. QED BY <1>2, <1>5, <1>6 DEF z

\* Where the units written for link n are, in a text that goes on.
LEMMA PlacesOfConcat ==
    ASSUME NEW x \in Seq(Units), NEW y \in Seq(Units), NEW n
    PROVE  PlacesOf(x \o y, n) = PlacesOf(x, n) \cup {Width(x) + q : q \in PlacesOf(y, n)}
<1> DEFINE z == x \o y
           Of(u) == {i \in DOMAIN u : u[i].k \in Visible /\ u[i].by = n}
<1>1. /\ Len(x) \in Nat /\ Len(y) \in Nat
      /\ DOMAIN x = 1..Len(x) /\ DOMAIN y = 1..Len(y)
      /\ \A i \in 1..Len(x) : i \in DOMAIN z /\ z[i] = x[i]
      /\ \A i \in 1..Len(y) : Len(x) + i \in DOMAIN z /\ z[Len(x) + i] = y[i]
      /\ \A i \in DOMAIN z : i \in Int /\ (i \in 1..Len(x) \/ i - Len(x) \in 1..Len(y))
  BY ConcatFacts
<1>2. /\ \A i \in 1..Len(x) : Places(z)[i] = Places(x)[i]
      /\ \A i \in 1..Len(y) : Places(z)[Len(x) + i] = Width(x) + Places(y)[i]
  <2>1. /\ \A i \in 1..Len(x) : i \in 0..Len(x)
        /\ \A i \in 1..Len(y) : i \in 0..Len(y)
    BY <1>1
  <2>2. QED BY <2>1, PlacesConcat
<1>3. \A u : PlacesOf(u, n) = {Places(u)[i] : i \in Of(u)}
  BY DEF PlacesOf
<1> HIDE DEF z
<1>4. ASSUME NEW q \in PlacesOf(z, n)
      PROVE  q \in PlacesOf(x, n) \/ \E r \in PlacesOf(y, n) : q = Width(x) + r
  <2>1. PICK i \in Of(z) : q = Places(z)[i]
    BY <1>3
  <2>2. CASE i \in 1..Len(x)
    <3>1. i \in Of(x)
      BY <1>1, <2>1, <2>2
    <3>2. q = Places(x)[i]
      BY <1>2, <2>1, <2>2
    <3>3. QED BY <1>3, <3>1, <3>2
  <2>3. CASE i - Len(x) \in 1..Len(y)
    <3> DEFINE j == i - Len(x)
    <3>1. i = Len(x) + j
      BY <1>1, <2>1
    <3>2. j \in 1..Len(y)
      BY <2>3
    <3> HIDE DEF j
    <3>3. j \in Of(y)
      BY <1>1, <2>1, <3>1, <3>2
    <3>4. q = Width(x) + Places(y)[j]
      BY <1>2, <2>1, <3>1, <3>2
    <3>5. Places(y)[j] \in PlacesOf(y, n)
      BY <1>3, <3>3
    <3>6. QED BY <3>4, <3>5
  <2>4. QED BY <1>1, <2>1, <2>2, <2>3
<1>5. ASSUME NEW q \in PlacesOf(x, n) PROVE q \in PlacesOf(z, n)
  <2>1. PICK i \in Of(x) : q = Places(x)[i]
    BY <1>3
  <2>2. i \in Of(z) /\ q = Places(z)[i]
    BY <1>1, <1>2, <2>1
  <2>3. QED BY <1>3, <2>2
<1>6. ASSUME NEW r \in PlacesOf(y, n) PROVE Width(x) + r \in PlacesOf(z, n)
  <2>1. PICK i \in Of(y) : r = Places(y)[i]
    BY <1>3
  <2>2. Len(x) + i \in Of(z) /\ Width(x) + r = Places(z)[Len(x) + i]
    BY <1>1, <1>2, <2>1
  <2>3. QED BY <1>3, <2>2
<1>7. QED BY <1>4, <1>5, <1>6 DEF z

\* A text that was written for a link, and one that was not.
LEMMA PlacesOfAll ==
    ASSUME NEW u \in Seq(Units), NEW n
    PROVE  /\ (\A i \in 1..Len(u) : u[i].by = n) => PlacesOf(u, n) = 1..Width(u)
           /\ (\A i \in 1..Len(u) : u[i].by # n) => PlacesOf(u, n) = {}
<1>1. Len(u) \in Nat /\ DOMAIN u = 1..Len(u)
  OBVIOUS
<1>2. ASSUME \A i \in 1..Len(u) : u[i].by # n PROVE PlacesOf(u, n) = {}
  <2>1. {j \in DOMAIN u : u[j].k \in Visible /\ u[j].by = n} = {}
    BY <1>1, <1>2
  <2>2. QED BY <2>1 DEF PlacesOf
<1>3. ASSUME \A i \in 1..Len(u) : u[i].by = n PROVE PlacesOf(u, n) = 1..Width(u)
  <2> DEFINE Upto(m) == {Places(u)[i] : i \in {j \in 1..m : u[j].k \in Visible}}
             T == {m \in 0..Len(u) : Upto(m) = 1..Places(u)[m]}
  <2>1. 0 \in T
    <3>1. Upto(0) = {}
      OBVIOUS
    <3>2. Places(u)[0] = 0 /\ 0 \in 0..Len(u) /\ 1..0 = {}
      BY <1>1, PlacesFacts
    <3> HIDE DEF Upto
    <3>3. QED BY <3>1, <3>2
  <2>2. ASSUME NEW m \in 0..Len(u) - 1, m \in T PROVE m + 1 \in T
    <3>1. m + 1 \in 0..Len(u) /\ m \in 0..Len(u)
      BY <1>1
    <3>2. /\ Places(u)[m] \in Nat
          /\ Places(u)[m + 1] = Places(u)[m] + IF u[m + 1].k \in Visible THEN 1 ELSE 0
      BY <3>1, PlacesFacts
    <3>3. Upto(m) = 1..Places(u)[m]
      BY <2>2
    <3>4. CASE u[m + 1].k \in Visible
      <4>1. {j \in 1..m + 1 : u[j].k \in Visible} =
            {j \in 1..m : u[j].k \in Visible} \cup {m + 1}
        BY <3>1, <3>4
      <4>2. Upto(m + 1) = Upto(m) \cup {Places(u)[m + 1]}
        BY <4>1
      <4>3. Places(u)[m + 1] = Places(u)[m] + 1
        BY <3>2, <3>4
      <4> DEFINE before == Places(u)[m]
                 after == Places(u)[m + 1]
                 A == Upto(m)
                 B == Upto(m + 1)
      <4>4. before \in Nat /\ after = before + 1 /\ A = 1..before /\ B = A \cup {after}
        BY <3>2, <3>3, <4>2, <4>3
      <4> HIDE DEF before, after, A, B
      <4>5. B = 1..after
        BY <4>4
      <4>6. Upto(m + 1) = 1..Places(u)[m + 1]
        BY <4>5 DEF B, after
      <4>7. QED BY <3>1, <4>6
    <3>5. CASE u[m + 1].k \notin Visible
      <4>1. {j \in 1..m + 1 : u[j].k \in Visible} = {j \in 1..m : u[j].k \in Visible}
        BY <3>1, <3>5
      <4>2. Upto(m + 1) = Upto(m)
        BY <4>1
      <4>3. Places(u)[m] + 0 = Places(u)[m]
        BY <3>2
      <4>4. Places(u)[m + 1] = Places(u)[m]
        BY <3>2, <3>5, <4>3
      <4> HIDE DEF Upto
      <4>5. QED BY <3>1, <3>3, <4>2, <4>4
    <3>6. QED BY <3>4, <3>5
  <2>3. Len(u) \in T
    <3> HIDE DEF T
    <3>1. QED BY <1>1, <2>1, <2>2, CountUp
  <2>4. Upto(Len(u)) = 1..Width(u)
    BY <2>3 DEF Width
  <2>5. {j \in DOMAIN u : u[j].k \in Visible /\ u[j].by = n} = {j \in 1..Len(u) : u[j].k \in Visible}
    BY <1>1, <1>3
  <2>6. PlacesOf(u, n) = Upto(Len(u))
    BY <2>5 DEF PlacesOf
  <2>7. QED BY <2>4, <2>6
<1>4. QED BY <1>2, <1>3

-----------------------------------------------------------------------------
(* FlattenSeq: what its recursion builds up.                               *)

\* The recursion of FlattenSeq, up to m.
IsFlat(g, ss, m) ==
    g = [i \in 1..m |-> IF i = 1 THEN ss[i] ELSE g[i - 1] \o ss[i]]

\* There is such a function, up to any number.
LEMMA FlatExists ==
    ASSUME NEW ss, NEW n \in Nat \ {0}
    PROVE  \E g : IsFlat(g, ss, n)
<1> DEFINE T == {m \in 1..n : \E g : IsFlat(g, ss, m)}
<1>1. 1 \in T
  <2>1. IsFlat([i \in 1..1 |-> ss[1]], ss, 1)
    BY DEF IsFlat
  <2>2. QED BY <2>1
<1>2. ASSUME NEW m \in 1..n - 1, m \in T PROVE m + 1 \in T
  <2>1. PICK f : IsFlat(f, ss, m)
    BY <1>2
  <2> DEFINE g == [i \in 1..m + 1 |-> IF i <= m THEN f[i] ELSE f[m] \o ss[m + 1]]
  <2>2. \A i \in 1..m : g[i] = f[i]
    OBVIOUS
  <2>3. g[m + 1] = f[m] \o ss[m + 1]
    <3>1. m + 1 \in 1..m + 1 /\ ~(m + 1 <= m)
      OBVIOUS
    <3>2. QED BY <3>1
  <2>4. g = [i \in 1..m + 1 |-> g[i]]
    OBVIOUS
  <2>5. \A i \in 1..m : f[i] = IF i = 1 THEN ss[i] ELSE f[i - 1] \o ss[i]
    BY <2>1 DEF IsFlat
  <2> HIDE DEF g
  <2>6. ASSUME NEW i \in 1..m + 1
        PROVE  g[i] = IF i = 1 THEN ss[i] ELSE g[i - 1] \o ss[i]
    <3>1. CASE i \in 1..m
      <4>1. i # 1 => i - 1 \in 1..m
        BY <3>1
      <4>2. QED BY <2>2, <2>5, <3>1, <4>1
    <3>2. CASE i = m + 1
      <4>1. i - 1 = m /\ i # 1 /\ m \in 1..m
        BY <3>2
      <4>2. QED BY <2>2, <2>3, <3>2, <4>1
    <3>3. QED BY <3>1, <3>2
  <2>7. g = [i \in 1..m + 1 |-> IF i = 1 THEN ss[i] ELSE g[i - 1] \o ss[i]]
    BY <2>4, <2>6
  <2>8. IsFlat(g, ss, m + 1)
    BY <2>7 DEF IsFlat
  <2>9. m + 1 \in 1..n
    OBVIOUS
  <2>10. QED BY <2>8, <2>9
<1> HIDE DEF T
<1>3. n \in Nat /\ n \in 1..n
  OBVIOUS
<1>4. \A k \in 1..n : k \in T
  BY <1>1, <1>2, <1>3, CountFromOne
<1>5. n \in T
  BY <1>3, <1>4
<1>6. QED BY <1>5 DEF T


\* What FlattenSeq makes of texts: their units, and as many places.
LEMMA FlattenFacts ==
    ASSUME NEW ss, NEW n \in Nat, ss \in Seq(Seq(Units)), n = Len(ss)
    PROVE  /\ FlattenSeq(ss) \in Seq(Units)
           /\ \A i \in 1..Len(FlattenSeq(ss)) :
                \E j \in 1..n : \E l \in 1..Len(ss[j]) : FlattenSeq(ss)[i] = ss[j][l]
           /\ \A g : (g[0] = 0 /\ \A j \in 1..n : g[j] = g[j - 1] + Width(ss[j]))
                     => Width(FlattenSeq(ss)) = g[n]
<1> DEFINE In(u, m) == \A i \in 1..Len(u) : \E j \in 1..m : \E l \in 1..Len(ss[j]) : u[i] = ss[j][l]
           Sums(g) == g[0] = 0 /\ \A j \in 1..n : g[j] = g[j - 1] + Width(ss[j])
<1>1. DOMAIN ss = 1..n /\ \A i \in 1..n : ss[i] \in Seq(Units)
  OBVIOUS
<1>2. CASE n = 0
  <2>1. FlattenSeq(ss) = ss /\ ss = <<>>
    BY <1>1, <1>2, EmptySeq DEF FlattenSeq
  <2>2. <<>> \in Seq(Units) /\ Len(<<>>) = 0
    OBVIOUS
  <2>3. Width(<<>>) = 0
    BY <2>2, PlacesFacts DEF Width
  <2>4. QED BY <1>2, <2>1, <2>2, <2>3
<1>3. CASE n # 0
  <2> DEFINE f == CHOOSE g : IsFlat(g, ss, n)
  <2>1. FlattenSeq(ss) = f[n]
    BY <1>1, <1>3 DEF FlattenSeq, IsFlat
  <2>2. IsFlat(f, ss, n)
    BY <1>3, FlatExists
  <2> HIDE DEF f
  <2>3. f[1] = ss[1] /\ \A i \in 1..n - 1 : f[i + 1] = f[i] \o ss[i + 1]
    <3>1. \A i \in 1..n : f[i] = IF i = 1 THEN ss[i] ELSE f[i - 1] \o ss[i]
      BY <2>2 DEF IsFlat
    <3>2. 1 \in 1..n
      BY <1>3
    <3>3. ASSUME NEW i \in 1..n - 1 PROVE f[i + 1] = f[i] \o ss[i + 1]
      <4> DEFINE j == i + 1
      <4>1. j \in 1..n /\ j # 1 /\ j - 1 = i
        OBVIOUS
      <4> HIDE DEF j
      <4>2. f[j] = f[i] \o ss[j]
        BY <3>1, <4>1
      <4>3. QED BY <4>2 DEF j
    <3>4. QED BY <3>1, <3>2, <3>3
  <2> DEFINE Good(m) == /\ f[m] \in Seq(Units) /\ In(f[m], m)
                        /\ \A g : Sums(g) => Width(f[m]) = g[m]
             T == {m \in 1..n : Good(m)}
  <2>4. 1 \in T
    <3>1. ss[1] \in Seq(Units) /\ 1 \in 1..n /\ 1 \in 1..1
      BY <1>1, <1>3
    <3>2. In(ss[1], 1)
      BY <3>1
    <3>3. ASSUME NEW g, Sums(g) PROVE Width(ss[1]) = g[1]
      <4>1. g[1] = g[1 - 1] + Width(ss[1])
        BY <3>1, <3>3
      <4>2. 1 - 1 = 0 /\ g[0] = 0 /\ Width(ss[1]) \in Nat
        BY <3>1, <3>3, PlacesFacts
      <4>3. g[1] = 0 + Width(ss[1])
        BY <4>1, <4>2
      <4>4. QED BY <4>2, <4>3
    <3>4. Good(1)
      BY <2>3, <3>1, <3>2, <3>3
    <3>5. QED BY <3>1, <3>4
  <2>5. ASSUME NEW m \in 1..n - 1, m \in T PROVE m + 1 \in T
    <3>1. m + 1 \in 1..n /\ ss[m + 1] \in Seq(Units) /\ m \in Nat
      BY <1>1
    <3>2. f[m + 1] = f[m] \o ss[m + 1]
      BY <2>3
    <3>3. Good(m)
      BY <2>5
    <3> DEFINE x == f[m]
               y == ss[m + 1]
    <3>4. x \in Seq(Units) /\ y \in Seq(Units)
      BY <3>1, <3>3
    <3>5. /\ x \o y \in Seq(Units) /\ DOMAIN (x \o y) = 1..Len(x \o y)
          /\ \A i \in 1..Len(x) : (x \o y)[i] = x[i]
          /\ \A i \in 1..Len(y) : (x \o y)[Len(x) + i] = y[i]
          /\ \A i \in DOMAIN (x \o y) : i \in 1..Len(x) \/ i - Len(x) \in 1..Len(y)
      <4> HIDE DEF x, y
      <4>1. x \in Seq(Units) /\ y \in Seq(Units)
        BY <3>4
      <4>2. QED BY <4>1, UnitsConcat
    <3>6. In(x \o y, m + 1)
      <4> SUFFICES ASSUME NEW i \in 1..Len(x \o y)
                   PROVE  \E j \in 1..m + 1 : \E l \in 1..Len(ss[j]) : (x \o y)[i] = ss[j][l]
        OBVIOUS
      <4>1. CASE i \in 1..Len(x)
        <5>1. PICK j \in 1..m : \E l \in 1..Len(ss[j]) : x[i] = ss[j][l]
          BY <3>3, <4>1
        <5>2. j \in 1..m + 1
          BY <3>1
        <5>3. (x \o y)[i] = x[i]
          BY <3>5, <4>1
        <5> HIDE DEF x
        <5>4. QED BY <5>1, <5>2, <5>3
      <4>2. CASE i - Len(x) \in 1..Len(y)
        <5> DEFINE l == i - Len(x)
        <5>1. i = Len(x) + l
          BY <3>4
        <5>2. l \in 1..Len(y)
          BY <4>2
        <5> HIDE DEF l
        <5>3. (x \o y)[i] = ss[m + 1][l]
          BY <3>5, <5>1, <5>2
        <5>4. m + 1 \in 1..m + 1 /\ l \in 1..Len(ss[m + 1])
          BY <3>1, <5>2
        <5>5. QED BY <5>3, <5>4
      <4>3. QED BY <3>5, <4>1, <4>2
    <3>7. ASSUME NEW g, Sums(g) PROVE Width(x \o y) = g[m + 1]
      <4>1. g[m + 1] = g[m + 1 - 1] + Width(y)
        BY <3>1, <3>7
      <4>2. m + 1 - 1 = m
        BY <3>1
      <4>3. Width(x) = g[m]
        BY <3>3, <3>7
      <4>4. Width(x \o y) = Width(x) + Width(y)
        <5> HIDE DEF x, y
        <5>1. QED BY <3>4, PlacesConcat
      <4> HIDE DEF x, y
      <4>5. QED BY <4>1, <4>2, <4>3, <4>4
    <3>8. Good(m + 1)
      <4>1. f[m + 1] = x \o y
        BY <3>2
      <4> DEFINE z == x \o y
      <4>2. z \in Seq(Units) /\ In(z, m + 1) /\ \A g : Sums(g) => Width(z) = g[m + 1]
        BY <3>5, <3>6, <3>7
      <4> HIDE DEF z
      <4>3. f[m + 1] = z
        BY <4>1 DEF z
      <4>4. QED BY <4>2, <4>3
    <3>9. QED BY <3>1, <3>8
  <2>6. n \in T
    <3> HIDE DEF T
    <3>1. n \in 1..n
      BY <1>3
    <3>2. QED BY <2>4, <2>5, <3>1, CountFromOne
  <2>7. Good(n)
    BY <2>6
  <2>8. QED BY <2>1, <2>7
<1>4. QED BY <1>2, <1>3

LEMMA FlattenWidth ==
    ASSUME NEW ss, NEW n \in Nat, ss \in Seq(Seq(Units)), n = Len(ss),
           NEW g, g[0] = 0, \A j \in 1..n : g[j] = g[j - 1] + Width(ss[j])
    PROVE  Width(FlattenSeq(ss)) = g[n]
<1>1. \A f : (f[0] = 0 /\ \A j \in 1..n : f[j] = f[j - 1] + Width(ss[j])) => Width(FlattenSeq(ss)) = f[n]
  BY ONLY n \in Nat, ss \in Seq(Seq(Units)), n = Len(ss), FlattenFacts, ZenonT(30)
<1>2. QED BY <1>1

-----------------------------------------------------------------------------
(* Small texts.                                                            *)

LEMMA OneUnit ==
    ASSUME NEW u \in Units
    PROVE  /\ <<u>> \in Seq(Units) /\ Len(<<u>>) = 1 /\ <<u>>[1] = u
           /\ Width(<<u>>) = IF u.k \in Visible THEN 1 ELSE 0
<1>1. <<u>> \in Seq(Units) /\ Len(<<u>>) = 1 /\ <<u>>[1] = u
  OBVIOUS
<1> DEFINE w == <<u>>
<1> HIDE DEF w
<1>2. w \in Seq(Units) /\ Len(w) = 1 /\ w[1] = u
  BY <1>1 DEF w
<1>3. Places(w)[0] = 0 /\ 0 \in 0..Len(w) - 1 /\ 0 + 1 = 1
  BY <1>2, PlacesFacts
<1>4. Places(w)[1] = Places(w)[0] + IF w[1].k \in Visible THEN 1 ELSE 0
  <2>1. Places(w)[0 + 1] = Places(w)[0] + IF w[0 + 1].k \in Visible THEN 1 ELSE 0
    BY <1>2, <1>3, PlacesFacts
  <2>2. QED BY <1>3, <2>1
<1>5. Width(w) = IF u.k \in Visible THEN 1 ELSE 0
  BY <1>2, <1>3, <1>4 DEF Width
<1>6. QED BY <1>1, <1>5 DEF w

LEMMA NoUnits == <<>> \in Seq(Units) /\ Len(<<>>) = 0 /\ Width(<<>>) = 0
<1>1. <<>> \in Seq(Units) /\ Len(<<>>) = 0
  OBVIOUS
<1>2. Places(<<>>)[0] = 0
  BY <1>1, PlacesFacts
<1>3. QED BY <1>1, <1>2 DEF Width

\* The bounds of a span.
LEMMA SpanBounds ==
    /\ Open("span") \in Units /\ Open("span").by = 0 /\ Open("span").k = "open"
    /\ Close("span") \in Units /\ Close("span").by = 0 /\ Close("span").k = "close"
  BY DEF Open, Close, Unit, Units, Visible

\* The places of a link are numbers.
LEMMA PlacesOfType ==
    ASSUME NEW u \in Seq(Units), NEW n
    PROVE  PlacesOf(u, n) \in SUBSET Nat
<1>1. \A i \in DOMAIN u : Places(u)[i] \in Nat
  <2>1. \A i \in DOMAIN u : i \in 0..Len(u)
    OBVIOUS
  <2>2. QED BY <2>1, PlacesFacts
<1>2. QED BY <1>1 DEF PlacesOf

\* A unit that shows nothing and is written for no link, before or behind a text.
LEMMA Beside ==
    ASSUME NEW u \in Seq(Units), NEW e \in Units, e.k \notin Visible, e.by = 0, NEW n \in Nat \ {0}
    PROVE  /\ Width(<<e>> \o u) = Width(u) /\ PlacesOf(<<e>> \o u, n) = PlacesOf(u, n)
           /\ Width(u \o <<e>>) = Width(u) /\ PlacesOf(u \o <<e>>, n) = PlacesOf(u, n)
<1> DEFINE w == <<e>>
<1>1. w \in Seq(Units) /\ Width(w) = 0 /\ Len(w) = 1 /\ w[1] = e
  BY OneUnit
<1> HIDE DEF w
<1>2. Width(u) \in Nat /\ PlacesOf(u, n) \in SUBSET Nat
  BY PlacesFacts, PlacesOfType
<1>3. Width(w \o u) = Width(u) /\ Width(u \o w) = Width(u)
  <2>1. Width(w \o u) = Width(w) + Width(u) /\ Width(u \o w) = Width(u) + Width(w)
    BY <1>1, PlacesConcat
  <2>2. QED BY <1>1, <1>2, <2>1
<1>4. PlacesOf(w, n) = {}
  <2>1. \A i \in 1..Len(w) : w[i].by # n
    BY <1>1
  <2>2. QED BY <1>1, <2>1, PlacesOfAll
<1>5. PlacesOf(w \o u, n) = PlacesOf(u, n)
  <2>1. PlacesOf(w \o u, n) = PlacesOf(w, n) \cup {Width(w) + q : q \in PlacesOf(u, n)}
    BY <1>1, PlacesOfConcat
  <2>2. \A q \in PlacesOf(u, n) : Width(w) + q = q
    BY <1>1, <1>2
  <2>3. {Width(w) + q : q \in PlacesOf(u, n)} = PlacesOf(u, n)
    BY <2>2
  <2>4. QED BY <1>4, <2>1, <2>3
<1>6. PlacesOf(u \o w, n) = PlacesOf(u, n)
  <2>1. PlacesOf(u \o w, n) = PlacesOf(u, n) \cup {Width(u) + q : q \in PlacesOf(w, n)}
    BY <1>1, PlacesOfConcat
  <2>2. QED BY <1>4, <2>1
<1>7. QED BY <1>3, <1>5, <1>6 DEF w

\* A span adds no place.
LEMMA SpanFacts ==
    ASSUME NEW u \in Seq(Units)
    PROVE  /\ Span(u) \in Seq(Units) /\ Width(Span(u)) = Width(u)
           /\ \A i \in 1..Len(Span(u)) :
                \/ Span(u)[i] \in {Open("span"), Close("span")}
                \/ \E j \in 1..Len(u) : Span(u)[i] = u[j]
           /\ \A n \in Nat \ {0} : PlacesOf(Span(u), n) = PlacesOf(u, n)
<1> DEFINE o == Open("span")
           c == Close("span")
<1>1. o \in Units /\ c \in Units /\ o.k \notin Visible /\ c.k \notin Visible /\ o.by = 0 /\ c.by = 0
  BY SpanBounds DEF Visible
<1>2. Span(u) = <<o>> \o u \o <<c>>
  BY DEF Span
<1> HIDE DEF o, c
<1> DEFINE a1 == <<o>>
           a3 == <<c>>
<1>3. /\ a1 \in Seq(Units) /\ Len(a1) = 1 /\ a1[1] = o
      /\ a3 \in Seq(Units) /\ Len(a3) = 1 /\ a3[1] = c
  BY <1>1, OneUnit
<1> HIDE DEF a1, a3
<1> DEFINE b == a1 \o u
           d == b \o a3
<1>4. b \in Seq(Units)
  BY <1>3, UnitsConcat
<1>5. \A i \in 1..Len(b) : b[i] = o \/ \E j \in 1..Len(u) : b[i] = u[j]
  <2>1. \A i \in 1..Len(b) : (\E j \in 1..Len(a1) : b[i] = a1[j]) \/ \E j \in 1..Len(u) : b[i] = u[j]
    BY ONLY <1>3, UnitsConcat
  <2> HIDE DEF b
  <2>2. QED BY <1>3, <2>1
<1>6. Width(b) = Width(u) /\ \A n \in Nat \ {0} : PlacesOf(b, n) = PlacesOf(u, n)
  <2>1. Width(b) = Width(u)
    <3>1. 1 \in Nat \ {0}
      OBVIOUS
    <3>2. QED BY <1>1, <3>1, Beside DEF a1
  <2>2. QED BY <1>1, <2>1, Beside DEF a1
<1> HIDE DEF b
<1>7. d \in Seq(Units)
  BY <1>3, <1>4, UnitsConcat
<1>8. \A i \in 1..Len(d) : d[i] \in {o, c} \/ \E j \in 1..Len(u) : d[i] = u[j]
  <2>1. \A i \in 1..Len(d) : (\E j \in 1..Len(b) : d[i] = b[j]) \/ \E j \in 1..Len(a3) : d[i] = a3[j]
    BY ONLY <1>3, <1>4, UnitsConcat
  <2> HIDE DEF d
  <2>2. QED BY <1>3, <1>5, <2>1
<1>9. Width(d) = Width(b) /\ \A n \in Nat \ {0} : PlacesOf(d, n) = PlacesOf(b, n)
  <2>1. 1 \in Nat \ {0}
    OBVIOUS
  <2>2. Width(d) = Width(b)
    BY <1>1, <1>4, <2>1, Beside DEF a3
  <2>3. QED BY <1>1, <1>4, <2>2, Beside DEF a3
<1>10. Span(u) = d
  BY <1>2 DEF a1, a3, b
<1> HIDE DEF d
<1>11. QED BY <1>6, <1>7, <1>8, <1>9, <1>10 DEF o, c

\* Without references xml_strlen counts the places.
LEMMA StrlenFacts ==
    ASSUME NEW u \in Seq(Units), \A i \in 1..Len(u) : u[i].k # "ref"
    PROVE  xml_strlen(u) = Width(u)
<1> DEFINE Of(kinds) == {i \in DOMAIN u : u[i].k \in kinds}
<1>1. DOMAIN u = 1..Len(u) /\ Len(u) \in 0..Len(u)
  OBVIOUS
<1>2. Of({"ref"}) = {}
  BY <1>1
<1>3. Of(Visible \ {"ref"}) = {i \in 1..Len(u) : u[i].k \in Visible}
  BY <1>1
<1>4. Cardinality(Of(Visible \ {"ref"})) = Width(u)
  BY <1>1, <1>3 DEF Width, Places
<1>5. Cardinality(Of({"ref"})) = 0
  BY <1>2, FS_EmptySet
<1>6. Width(u) \in Nat
  BY PlacesFacts
<1>7. xml_strlen(u) = Cardinality(Of(Visible \ {"ref"})) + RefLen * Cardinality(Of({"ref"}))
  BY DEF xml_strlen
<1> HIDE DEF Of
<1>8. xml_strlen(u) = Width(u) + RefLen * 0
  BY <1>4, <1>5, <1>7
<1>9. QED BY <1>6, <1>8 DEF RefLen
-----------------------------------------------------------------------------
(* What the plugins write for no link; the units of it that are counted as *)
(* they are shown.                                                         *)

Loose == {u \in Units : u.by = 0}
Counted == {u \in Loose : u.k # "ref"}

LEMMA LooseType == Counted \subseteq Loose /\ Loose \subseteq Units
BY DEF Loose, Counted

LEMMA LooseUnits ==
    /\ Char \in Counted /\ Char.k \in Visible
    /\ Entity \in Counted /\ Entity.k \in Visible
    /\ Bad \in Counted /\ Bad.k \in Visible
    /\ Ref \in Loose /\ Ref.k \in Visible
    /\ \A tag \in {"b", "span", "unknown"} :
          /\ Open(tag) \in Counted /\ Open(tag).k \notin Visible
          /\ Close(tag) \in Counted /\ Close(tag).k \notin Visible
BY DEF Char, Entity, Bad, Ref, Open, Close, Unit, Units, Loose, Counted, Visible

\* Sequences of fewer units.
LEMMA SeqMono ==
    ASSUME NEW D, NEW E, D \subseteq E, NEW u \in Seq(D)
    PROVE  u \in Seq(E)
OBVIOUS

\* A text of which everything is shown.
LEMMA AllVisible ==
    ASSUME NEW u \in Seq(Units), \A i \in 1..Len(u) : u[i].k \in Visible
    PROVE  Width(u) = Len(u)
<1>1. Len(u) \in Nat /\ Len(u) \in 0..Len(u)
  OBVIOUS
<1>2. {i \in 1..Len(u) : u[i].k \in Visible} = 1..Len(u)
  OBVIOUS
<1>3. Cardinality(1..Len(u)) = Len(u)
  <2> DEFINE n == Len(u)
  <2>1. n \in Nat
    BY <1>1
  <2> HIDE DEF n
  <2>2. 1 \in Int /\ n \in Int
    BY <2>1
  <2>3. Cardinality(1..n) = IF 1 > n THEN 0 ELSE n - 1 + 1
    BY ONLY <2>2, FS_Interval
  <2>4. Cardinality(1..n) = n
    BY <2>1, <2>3
  <2>5. QED BY <2>4 DEF n
<1>4. Width(u) = Cardinality({i \in 1..Len(u) : u[i].k \in Visible})
  BY <1>1 DEF Width, Places
<1>5. QED BY <1>2, <1>3, <1>4

LEMMA Nothing ==
    <<>> \in Seq(Loose) /\ <<>> \in Seq(Counted) /\ Width(<<>>) = 0 /\ xml_strlen(<<>>) = Width(<<>>)
<1>1. \A i \in 1..Len(<<>>) : <<>>[i].k # "ref"
  BY NoUnits
<1>2. xml_strlen(<<>>) = Width(<<>>)
  BY <1>1, NoUnits, StrlenFacts
<1>3. <<>> \in Seq(Loose) /\ <<>> \in Seq(Counted)
  OBVIOUS
<1>4. QED BY <1>2, <1>3, NoUnits

\* Texts that are put together.
LEMMA LooseConcat ==
    ASSUME NEW x \in Seq(Loose), NEW y \in Seq(Loose)
    PROVE  x \o y \in Seq(Loose) /\ Width(x \o y) = Width(x) + Width(y)
<1>1. x \in Seq(Units) /\ y \in Seq(Units)
  BY LooseType, SeqMono
<1>2. QED BY <1>1, PlacesConcat

LEMMA LooseSpan ==
    ASSUME NEW u \in Seq(Loose)
    PROVE  Span(u) \in Seq(Loose) /\ Width(Span(u)) = Width(u)
<1>1. u \in Seq(Units)
  BY LooseType, SeqMono
<1>2. Width(Span(u)) = Width(u)
  BY <1>1, SpanFacts
<1>3. <<Open("span")>> \in Seq(Loose) /\ <<Close("span")>> \in Seq(Loose)
  BY LooseUnits, LooseType
<1>4. <<Open("span")>> \o u \o <<Close("span")>> \in Seq(Loose)
  BY <1>3
<1>5. QED BY <1>2, <1>4 DEF Span

\* FlattenSeq of sequences over a set.
LEMMA FlattenIn ==
    ASSUME NEW D \in SUBSET Units, NEW ss \in Seq(Seq(D))
    PROVE  FlattenSeq(ss) \in Seq(D)
<1>1. ss \in Seq(Seq(Units)) /\ Len(ss) \in Nat
  <2>1. Seq(D) \subseteq Seq(Units)
    OBVIOUS
  <2> DEFINE A == Seq(D)
             B == Seq(Units)
  <2>2. A \subseteq B /\ ss \in Seq(A)
    BY <2>1
  <2> HIDE DEF A, B
  <2>3. ss \in Seq(B) /\ Len(ss) \in Nat
    BY <2>2
  <2>4. QED BY <2>3 DEF B
<1> DEFINE u == FlattenSeq(ss)
<1>2. u \in Seq(Units) /\ \A i \in 1..Len(u) : \E j \in 1..Len(ss) : \E l \in 1..Len(ss[j]) : u[i] = ss[j][l]
  BY <1>1, FlattenFacts
<1> HIDE DEF u
<1>3. \A j \in 1..Len(ss) : ss[j] \in Seq(D)
  OBVIOUS
<1>4. \A j \in 1..Len(ss) : \A l \in 1..Len(ss[j]) : ss[j][l] \in D
  BY <1>3
<1>5. \A i \in 1..Len(u) : u[i] \in D
  BY <1>2, <1>4
<1>6. u \in Seq(D)
  BY <1>2, <1>5
<1>7. QED BY <1>6 DEF u

\* Each of the tokens of a text.
LEMMA EachFacts ==
    ASSUME NEW D \in SUBSET Units, NEW ss, NEW s_, NEW T, s_ \in Seq(T),
           DOMAIN ss = DOMAIN s_, ss = [i \in DOMAIN s_ |-> ss[i]],
           \A i \in DOMAIN s_ : ss[i] \in Seq(D)
    PROVE  ss \in Seq(Seq(D)) /\ Len(ss) = Len(s_) /\ FlattenSeq(ss) \in Seq(D)
<1>1. ss \in Seq(Seq(D)) /\ Len(ss) = Len(s_)
  <2> DEFINE A == Seq(D)
  <2>1. \A i \in DOMAIN s_ : ss[i] \in A
    OBVIOUS
  <2> HIDE DEF A
  <2>2. DOMAIN s_ = 1..Len(s_) /\ Len(s_) \in Nat
    OBVIOUS
  <2>3. ss \in Seq(A) /\ Len(ss) = Len(s_)
    BY <2>1, <2>2
  <2>4. QED BY <2>3 DEF A
<1>2. QED BY <1>1, FlattenIn

-----------------------------------------------------------------------------
(* Links that are where they are said to be.                               *)

Links == [pos : Nat, len : Nat]

Fits(u, links) ==
    /\ u \in Seq(Units) /\ links \in Seq(Links)
    /\ \A i \in 1..Len(u) : u[i].by \in 0..Len(links)
    /\ \A n \in 1..Len(links) :
          PlacesOf(u, n) = (links[n].pos + 1)..(links[n].pos + links[n].len)

LEMMA FitsEmpty == Fits(<<>>, <<>>)
BY DEF Fits

\* Text behind links leaves them in place.
LEMMA WriteFits ==
    ASSUME NEW u, NEW links, Fits(u, links), NEW y \in Seq(Loose)
    PROVE  Fits(u \o y, links) /\ Width(u \o y) = Width(u) + Width(y)
<1>1. u \in Seq(Units) /\ y \in Seq(Units) /\ links \in Seq(Links) /\ Len(links) \in Nat
  BY LooseType, SeqMono DEF Fits
<1>2. u \o y \in Seq(Units) /\ Width(u \o y) = Width(u) + Width(y)
  BY <1>1, UnitsConcat, PlacesConcat
<1>3. \A i \in 1..Len(y) : y[i].by = 0
  BY DEF Loose
<1>4. \A i \in 1..Len(u \o y) : (u \o y)[i].by \in 0..Len(links)
  <2>1. \A i \in 1..Len(u \o y) : (\E j \in 1..Len(u) : (u \o y)[i] = u[j])
                                   \/ \E j \in 1..Len(y) : (u \o y)[i] = y[j]
    BY ONLY <1>1, UnitsConcat
  <2>2. \A j \in 1..Len(u) : u[j].by \in 0..Len(links)
    BY DEF Fits
  <2>3. 0 \in 0..Len(links)
    BY <1>1
  <2>4. QED BY <1>3, <2>1, <2>2, <2>3
<1>5. ASSUME NEW n \in 1..Len(links)
      PROVE  PlacesOf(u \o y, n) = (links[n].pos + 1)..(links[n].pos + links[n].len)
  <2>1. PlacesOf(y, n) = {}
    <3>1. \A i \in 1..Len(y) : y[i].by # n
      BY <1>1, <1>3
    <3>2. QED BY <1>1, <3>1, PlacesOfAll
  <2>2. PlacesOf(u \o y, n) = PlacesOf(u, n) \cup {Width(u) + q : q \in PlacesOf(y, n)}
    BY <1>1, PlacesOfConcat
  <2>3. PlacesOf(u \o y, n) = PlacesOf(u, n)
    BY <2>1, <2>2
  <2>4. QED BY <2>3 DEF Fits
<1>6. QED BY <1>1, <1>2, <1>4, <1>5 DEF Fits

\* What a text is when it is written for link n.
For(u, n) == [i \in DOMAIN u |-> [u[i] EXCEPT !.by = n]]

LEMMA ForFacts ==
    ASSUME NEW u \in Seq(Units), NEW n \in Nat
    PROVE  /\ For(u, n) \in Seq(Units) /\ Width(For(u, n)) = Width(u)
           /\ \A i \in 1..Len(For(u, n)) : For(u, n)[i].by = n
<1>1. DOMAIN u = 1..Len(u) /\ Len(u) \in Nat /\ Len(u) \in 0..Len(u)
  OBVIOUS
<1>2. \A i \in DOMAIN u : /\ For(u, n)[i] \in Units
                          /\ For(u, n)[i].by = n /\ For(u, n)[i].k = u[i].k
  <2> SUFFICES ASSUME NEW i \in DOMAIN u
               PROVE  For(u, n)[i] \in Units /\ For(u, n)[i].by = n /\ For(u, n)[i].k = u[i].k
    OBVIOUS
  <2> DEFINE v == u[i]
  <2>1. v \in Units
    OBVIOUS
  <2>2. For(u, n)[i] = [v EXCEPT !.by = n]
    BY DEF For
  <2> HIDE DEF v
  <2>3. [v EXCEPT !.by = n] \in Units /\ [v EXCEPT !.by = n].by = n /\ [v EXCEPT !.by = n].k = v.k
    BY <2>1 DEF Units
  <2>4. QED BY <2>2, <2>3 DEF v
<1>3. For(u, n) = [i \in 1..Len(u) |-> For(u, n)[i]]
  BY <1>1 DEF For
<1>4. For(u, n) \in Seq(Units) /\ Len(For(u, n)) = Len(u)
  <2> DEFINE f == For(u, n)
  <2>1. f = [i \in 1..Len(u) |-> f[i]] /\ \A i \in 1..Len(u) : f[i] \in Units
    BY <1>1, <1>2, <1>3
  <2> HIDE DEF f
  <2>2. f \in Seq(Units) /\ Len(f) = Len(u)
    BY <1>1, <2>1
  <2>3. QED BY <2>2 DEF f
<1>5. {i \in 1..Len(u) : For(u, n)[i].k \in Visible} = {i \in 1..Len(u) : u[i].k \in Visible}
  BY <1>1, <1>2
<1>6. Width(For(u, n)) = Width(u)
  BY <1>1, <1>4, <1>5 DEF Width, Places
<1>7. QED BY <1>1, <1>2, <1>4, <1>6

\* A link put behind the others covers its text.
LEMMA LinkFits ==
    ASSUME NEW u, NEW links, Fits(u, links), NEW lead \in Seq(Loose), NEW text \in Seq(Loose)
    PROVE  LET new == u \o lead \o Span(For(text, Len(links) + 1))
               link == [pos |-> Width(u) + Width(lead), len |-> Width(text)]
           IN Fits(new, Append(links, link)) /\ Width(new) = Width(u) + Width(lead) + Width(text)
<1> DEFINE n == Len(links) + 1
           y == u \o lead
           linked == For(text, n)
           z == Span(linked)
           new == y \o z
           link == [pos |-> Width(u) + Width(lead), len |-> Width(text)]
           more == Append(links, link)
<1>1. Fits(y, links) /\ Width(y) = Width(u) + Width(lead)
  BY WriteFits
<1>2. /\ text \in Seq(Units) /\ y \in Seq(Units) /\ lead \in Seq(Units) /\ u \in Seq(Units)
      /\ links \in Seq(Links) /\ Len(links) \in Nat /\ n \in Nat \ {0}
  BY <1>1, LooseType, SeqMono DEF Fits
<1>3. linked \in Seq(Units) /\ Width(linked) = Width(text) /\ \A i \in 1..Len(linked) : linked[i].by = n
  BY <1>2, ForFacts
<1> HIDE DEF linked
<1>4. z \in Seq(Units) /\ Width(z) = Width(text)
  BY <1>3, SpanFacts
<1>5. \A i \in 1..Len(z) : z[i].by \in {0, n}
  <2>1. \A i \in 1..Len(z) : z[i] \in {Open("span"), Close("span")} \/ \E j \in 1..Len(linked) : z[i] = linked[j]
    BY <1>3, SpanFacts
  <2> HIDE DEF z, n
  <2>2. QED BY <1>3, <2>1, SpanBounds
<1>6. \A m \in Nat \ {0} : PlacesOf(z, m) = PlacesOf(linked, m)
  BY <1>3, SpanFacts
<1>7. PlacesOf(z, n) = 1..Width(text)
  BY <1>2, <1>3, <1>6, PlacesOfAll
<1>8. \A m \in 1..Len(links) : PlacesOf(z, m) = {}
  <2>1. \A m \in 1..Len(links) : m \in Nat \ {0} /\ m # n
    BY <1>2
  <2>2. \A m \in 1..Len(links) : PlacesOf(linked, m) = {}
    <3> HIDE DEF n
    <3>1. QED BY <1>3, <2>1, PlacesOfAll
  <2>3. QED BY <1>6, <2>1, <2>2
<1> HIDE DEF z
<1>9. Width(u) \in Nat /\ Width(lead) \in Nat /\ Width(text) \in Nat
  BY <1>2, PlacesFacts
<1>10. link \in Links
  BY <1>9 DEF Links
<1> HIDE DEF y
<1>11. new \in Seq(Units) /\ Width(new) = Width(y) + Width(z)
  BY <1>2, <1>4, UnitsConcat, PlacesConcat
<1>12. \A m : PlacesOf(new, m) = PlacesOf(y, m) \cup {Width(y) + q : q \in PlacesOf(z, m)}
  BY <1>2, <1>4, PlacesOfConcat
<1>13. /\ \A i \in 1..Len(y) : y[i].by \in 0..Len(links)
       /\ \A m \in 1..Len(links) : PlacesOf(y, m) = (links[m].pos + 1)..(links[m].pos + links[m].len)
  BY <1>1 DEF Fits
<1>14. \A i \in 1..Len(new) : new[i].by \in 0..n
  <2>1. \A i \in 1..Len(new) : (\E j \in 1..Len(y) : new[i] = y[j]) \/ \E j \in 1..Len(z) : new[i] = z[j]
    BY ONLY <1>2, <1>4, UnitsConcat
  <2>2. \A m \in 0..Len(links) : m \in 0..n
    BY <1>2
  <2>3. 0 \in 0..n /\ n \in 0..n
    BY <1>2
  <2> HIDE DEF new, n
  <2>4. QED BY <1>5, <1>13, <2>1, <2>2, <2>3
<1>15. PlacesOf(y, n) = {}
  <2>1. \A i \in 1..Len(y) : y[i].by # n
    BY <1>2, <1>13
  <2>2. QED BY <1>2, <2>1, PlacesOfAll
<1> HIDE DEF new
<1>16. PlacesOf(new, n) = (link.pos + 1)..(link.pos + link.len)
  <2> DEFINE before == Width(y)
             w == Width(text)
  <2>1. PlacesOf(new, n) = {before + q : q \in 1..w}
    BY <1>7, <1>12, <1>15
  <2>2. link.pos = before /\ link.len = w /\ before \in Nat /\ w \in Nat
    BY <1>1, <1>9
  <2> HIDE DEF before, w
  <2>3. {before + q : q \in 1..w} = (before + 1)..(before + w)
    <3>1. ASSUME NEW r \in (before + 1)..(before + w) PROVE \E q \in 1..w : r = before + q
      <4>1. r - before \in 1..w /\ r = before + (r - before)
        BY <2>2
      <4>2. QED BY <4>1
    <3>2. \A q \in 1..w : before + q \in (before + 1)..(before + w)
      BY <2>2
    <3>3. QED BY <3>1, <3>2
  <2> HIDE DEF link
  <2>4. QED BY <2>1, <2>2, <2>3
<1>17. \A m \in 1..Len(links) : PlacesOf(new, m) = (links[m].pos + 1)..(links[m].pos + links[m].len)
  BY <1>8, <1>12, <1>13
<1> HIDE DEF link
<1>18. /\ more \in Seq(Links) /\ Len(more) = n /\ more[n] = link
       /\ \A m \in 1..Len(links) : more[m] = links[m]
       /\ \A m \in 1..n : m = n \/ m \in 1..Len(links)
  BY <1>2, <1>10
<1> HIDE DEF more
<1>19. \A m \in 1..n : PlacesOf(new, m) = (more[m].pos + 1)..(more[m].pos + more[m].len)
  BY <1>16, <1>17, <1>18
<1>20. Fits(new, more)
  BY <1>11, <1>14, <1>18, <1>19 DEF Fits
<1>21. Width(new) = Width(u) + Width(lead) + Width(text)
  BY <1>1, <1>4, <1>11
<1>22. QED BY <1>20, <1>21 DEF new, more, link, y, z, linked
-----------------------------------------------------------------------------
(* The steps that the plugins share.                                       *)

Items == {item \in [type : {"link", "res"}, pango : Seq(Units), links_list : Seq(Links)] :
             Fits(item.pango, item.links_list)}
Rows == Fits(res, links_list) /\ item_list \in Seq(Items)
Right == cur_pos = Width(res)

LEMMA WriteKeeps ==
    ASSUME Rows, NEW u \in Seq(Loose), NEW count, NEW to, Write(u, count, to)
    PROVE  Rows' /\ (Right /\ count = Width(u) => Right')
<1>1. Fits(res \o u, links_list) /\ Width(res \o u) = Width(res) + Width(u)
  BY WriteFits DEF Rows
<1>2. /\ res' = res \o u /\ cur_pos' = cur_pos + count
      /\ links_list' = links_list /\ item_list' = item_list
  BY DEF Write
<1>3. Rows'
  BY <1>1, <1>2 DEF Rows
<1>4. ASSUME Right, count = Width(u) PROVE cur_pos' = Width(res')
  BY <1>1, <1>2, <1>4 DEF Right
<1>5. QED BY <1>3, <1>4 DEF Right

LEMMA LinkKeeps ==
    ASSUME Rows, Right, NEW lead \in Seq(Loose), NEW text \in Seq(Loose), NEW count, NEW to,
           xml_strlen(lead) = Width(lead), count = Width(text), WriteLink(lead, text, count, to)
    PROVE  Rows' /\ Right'
<1> DEFINE new == res \o lead \o Span(For(text, Len(links_list) + 1))
           link == [pos |-> Width(res) + Width(lead), len |-> Width(text)]
<1>1. Fits(new, Append(links_list, link)) /\ Width(new) = Width(res) + Width(lead) + Width(text)
  BY LinkFits DEF Rows
<1>2. Linked(text) = For(text, Len(links_list) + 1)
  BY DEF Linked, For
<1>3. /\ res' = new /\ links_list' = Append(links_list, link)
      /\ cur_pos' = Width(res) + Width(lead) + Width(text) /\ item_list' = item_list
  BY <1>2 DEF WriteLink, Right
<1> HIDE DEF new, link
<1>4. QED BY <1>1, <1>3 DEF Rows, Right

\* An item that is finished.
LEMMA ItemKept ==
    ASSUME Rows, NEW u \in Seq(Loose)
    PROVE  Item(res \o u) \in Items /\ Item(res) \in Items
<1>1. Fits(res \o u, links_list) /\ Fits(res, links_list)
  BY WriteFits DEF Rows
<1>2. /\ Item(res \o u).pango = res \o u /\ Item(res \o u).links_list = links_list
      /\ Item(res).pango = res /\ Item(res).links_list = links_list
  BY DEF Item
<1>3. links_list \in Seq(Links) /\ res \o u \in Seq(Units) /\ res \in Seq(Units)
  BY <1>1 DEF Fits
<1>4. /\ Item(res \o u) \in [type : {"link", "res"}, pango : Seq(Units), links_list : Seq(Links)]
      /\ Item(res) \in [type : {"link", "res"}, pango : Seq(Units), links_list : Seq(Links)]
  BY <1>3 DEF Item
<1>5. QED BY <1>1, <1>2, <1>4 DEF Items

LEMMA FinishKeeps ==
    ASSUME Rows, NEW u \in Seq(Loose), Finish(u)
    PROVE  Rows' /\ res' = res /\ cur_pos' = cur_pos
<1>1. Item(res \o u) \in Items
  BY ItemKept
<1>2. /\ item_list' = Append(item_list, Item(res \o u))
      /\ res' = res /\ cur_pos' = cur_pos /\ links_list' = links_list
  BY DEF Finish
<1>3. QED BY <1>1, <1>2 DEF Rows

LEMMA ResourceKeeps ==
    ASSUME Rows, NEW to, WriteResource(to)
    PROVE  Rows' /\ Right'
<1>1. Item(res) \in Items
  <2>1. <<>> \in Seq(Loose)
    OBVIOUS
  <2>2. QED BY <2>1, ItemKept
<1>2. Resource \in Items
  <2> DEFINE u == Span(<<Char>>)
  <2>1. u \in Seq(Units)
    <3>1. <<Char>> \in Seq(Units)
      BY LooseUnits, LooseType
    <3>2. QED BY <3>1, SpanFacts
  <2>2. Fits(u, <<>>)
    <3>1. \A i \in 1..Len(u) : u[i].by = 0
      <4>1. <<Char>> \in Seq(Units) /\ <<Char>>[1] = Char /\ Len(<<Char>>) = 1
        BY LooseUnits, LooseType
      <4>2. \A i \in 1..Len(u) : u[i] \in {Open("span"), Close("span")} \/ \E j \in 1..1 : u[i] = <<Char>>[j]
        BY <4>1, SpanFacts
      <4>3. \A i \in 1..Len(u) : u[i] \in {Open("span"), Close("span"), Char}
        BY <4>1, <4>2
      <4>4. Open("span").by = 0 /\ Close("span").by = 0 /\ Char.by = 0
        BY SpanBounds DEF Char, Unit
      <4> HIDE DEF u
      <4>5. QED BY <4>3, <4>4
    <3> HIDE DEF u
    <3>2. <<>> \in Seq(Links) /\ Len(<<>>) = 0
      OBVIOUS
    <3>3. QED BY <2>1, <3>1, <3>2 DEF Fits
  <2>3. Resource = [type |-> "res", pango |-> u, links_list |-> <<>>]
    BY DEF Resource
  <2> HIDE DEF u
  <2>4. QED BY <2>1, <2>2, <2>3 DEF Items
<1>3. /\ item_list' = item_list \o <<Item(res), Resource>>
      /\ res' = <<>> /\ cur_pos' = 0 /\ links_list' = <<>>
  BY DEF WriteResource
<1>4. item_list' \in Seq(Items)
  <2> DEFINE both == <<Item(res), Resource>>
  <2>1. both \in Seq(Items)
    BY <1>1, <1>2
  <2> HIDE DEF both
  <2>2. item_list \o both \in Seq(Items)
    BY <2>1 DEF Rows
  <2>3. QED BY <1>3, <2>2 DEF both
<1>5. QED BY <1>3, <1>4, FitsEmpty, NoUnits DEF Rows, Right

\* The next token of some kind.
LEMMA FindFacts ==
    ASSUME NEW T, src \in Seq(T), NEW from \in Nat, NEW toks
    PROVE  /\ Find(toks, from) \in 0..Len(src)
           /\ Find(toks, from) = 0 \/ Find(toks, from) \in from..Len(src)
           /\ from # 0 /\ Find(toks, from) = 0 => \A i \in from..Len(src) : src[i] \notin toks
           /\ (\A i \in from..Len(src) : src[i] \notin toks) => Find(toks, from) = 0
<1> DEFINE I == {i \in from..Len(src) : src[i] \in toks}
<1>1. Find(toks, from) = IF I # {} THEN Min(I) ELSE 0
  BY DEF Find, SelectInSubSeq
<1>2. ASSUME I # {} PROVE Min(I) \in I
  <2>1. I \in SUBSET Nat /\ Min(I) = CHOOSE x \in I : \A y \in I : x <= y
    BY DEF Min
  <2> HIDE DEF I
  <2>2. \E x \in I : \A y \in I : x <= y
    BY <1>2, <2>1, LeastNat
  <2>3. QED BY <2>1, <2>2
<1>3. Len(src) \in Nat
  OBVIOUS
<1>4. \A i \in I : i \in from..Len(src) /\ i \in 0..Len(src)
  BY <1>3
<1>5. I = {} <=> \A i \in from..Len(src) : src[i] \notin toks
  OBVIOUS
<1>6. from # 0 => 0 \notin I
  OBVIOUS
<1> HIDE DEF I
<1>7. QED BY <1>1, <1>2, <1>3, <1>4, <1>5, <1>6

\* A part of the tokens.
LEMMA TokensFacts ==
    ASSUME NEW T, src \in Seq(T), NEW from \in Nat \ {0}, NEW to \in Int, to <= Len(src)
    PROVE  /\ Tokens(from, to) \in Seq(T)
           /\ \A i \in 1..Len(Tokens(from, to)) : \E j \in DOMAIN src : Tokens(from, to)[i] = src[j]
<1>1. from \in Int /\ Len(src) \in Nat /\ DOMAIN src = 1..Len(src)
  OBVIOUS
<1>2. \A i \in from..to : i \in DOMAIN src /\ src[i] \in T
  BY <1>1
<1> DEFINE u == SubSeq(src, from, to)
<1>3. /\ u \in Seq(T) /\ Len(u) = IF from <= to THEN to - from + 1 ELSE 0
      /\ \A i \in 1..to - from + 1 : u[i] = src[from + i - 1]
  BY ONLY from \in Int, to \in Int, <1>2, SubSeqProperties
<1> HIDE DEF u
<1>4. ASSUME NEW i \in 1..Len(u) PROVE \E j \in DOMAIN src : u[i] = src[j]
  <2>1. i \in 1..to - from + 1 /\ from + i - 1 \in from..to
    BY <1>1, <1>3
  <2>2. QED BY <1>2, <1>3, <2>1
<1>5. QED BY <1>3, <1>4 DEF u, Tokens

-----------------------------------------------------------------------------
(* The operators of a plugin are those of all.                             *)

LEMMA HtmlSame ==
    /\ \A u, count, to : Html!Write(u, count, to) <=> Write(u, count, to)
    /\ \A l, u, count, to : Html!WriteLink(l, u, count, to) <=> WriteLink(l, u, count, to)
    /\ \A u : Html!Finish(u) <=> Finish(u)
    /\ \A to : Html!WriteResource(to) <=> WriteResource(to)
    /\ \A toks, from : Html!Find(toks, from) = Find(toks, from)
    /\ \A from, to : Html!Tokens(from, to) = Tokens(from, to)
    /\ \A x : Html!Span(x) = Span(x) /\ Html!Open(x) = Open(x) /\ Html!Close(x) = Close(x)
    /\ Html!Char = Char /\ Html!Entity = Entity /\ Html!Ref = Ref /\ Html!Bad = Bad
    /\ \A x : Html!FlattenSeq(x) = FlattenSeq(x)
    /\ \A x : Html!xml_strlen(x) = xml_strlen(x)
<1>1. \A u, count, to : Html!Write(u, count, to) <=> Write(u, count, to)
  BY DEF Html!Write, Write
<1>2. \A l : Html!xml_strlen(l) = xml_strlen(l)
  BY DEF Html!xml_strlen, xml_strlen, Html!Visible, Visible, Html!RefLen, RefLen, Html!Cardinality, Cardinality
<1>3. \A u : Html!Linked(u) = Linked(u)
  BY DEF Html!Linked, Linked
<1>4. \A x : Html!Span(x) = Span(x) /\ Html!Open(x) = Open(x) /\ Html!Close(x) = Close(x)
  BY DEF Html!Span, Span, Html!Open, Open, Html!Close, Close, Html!Unit, Unit
<1>5. \A l, u, count, to : Html!WriteLink(l, u, count, to) <=> WriteLink(l, u, count, to)
  BY <1>2, <1>3, <1>4 DEF Html!WriteLink, WriteLink
<1>6. Html!Char = Char /\ Html!Entity = Entity /\ Html!Ref = Ref /\ Html!Bad = Bad
  BY DEF Html!Char, Char, Html!Entity, Entity, Html!Ref, Ref, Html!Bad, Bad, Html!Unit, Unit
<1>7. \A u : Html!Finish(u) <=> Finish(u)
  BY DEF Html!Finish, Finish, Html!Item, Item
<1>8. \A to : Html!WriteResource(to) <=> WriteResource(to)
  BY <1>4, <1>6 DEF Html!WriteResource, WriteResource, Html!Item, Item, Html!Resource, Resource
<1>9. \A toks, from : Html!Find(toks, from) = Find(toks, from)
  BY DEF Html!Find, Find, Html!SelectInSubSeq, SelectInSubSeq, Html!Min, Min
<1>10. \A from, to : Html!Tokens(from, to) = Tokens(from, to)
  BY DEF Html!Tokens, Tokens
<1>11. \A x : Html!FlattenSeq(x) = FlattenSeq(x)
  BY DEF Html!FlattenSeq, FlattenSeq
<1>12. QED BY <1>1, <1>2, <1>4, <1>5, <1>6, <1>7, <1>8, <1>9, <1>10, <1>11

LEMMA XdxfSame ==
    /\ \A u, count, to : Xdxf!Write(u, count, to) <=> Write(u, count, to)
    /\ \A l, u, count, to : Xdxf!WriteLink(l, u, count, to) <=> WriteLink(l, u, count, to)
    /\ \A u : Xdxf!Finish(u) <=> Finish(u)
    /\ \A to : Xdxf!WriteResource(to) <=> WriteResource(to)
    /\ \A toks, from : Xdxf!Find(toks, from) = Find(toks, from)
    /\ \A from, to : Xdxf!Tokens(from, to) = Tokens(from, to)
    /\ \A x : Xdxf!Span(x) = Span(x) /\ Xdxf!Open(x) = Open(x) /\ Xdxf!Close(x) = Close(x)
    /\ Xdxf!Char = Char /\ Xdxf!Entity = Entity /\ Xdxf!Ref = Ref /\ Xdxf!Bad = Bad
    /\ \A x : Xdxf!FlattenSeq(x) = FlattenSeq(x)
    /\ \A x : Xdxf!xml_strlen(x) = xml_strlen(x)
<1>1. \A u, count, to : Xdxf!Write(u, count, to) <=> Write(u, count, to)
  BY DEF Xdxf!Write, Write
<1>2. \A l : Xdxf!xml_strlen(l) = xml_strlen(l)
  BY DEF Xdxf!xml_strlen, xml_strlen, Xdxf!Visible, Visible, Xdxf!RefLen, RefLen, Xdxf!Cardinality, Cardinality
<1>3. \A u : Xdxf!Linked(u) = Linked(u)
  BY DEF Xdxf!Linked, Linked
<1>4. \A x : Xdxf!Span(x) = Span(x) /\ Xdxf!Open(x) = Open(x) /\ Xdxf!Close(x) = Close(x)
  BY DEF Xdxf!Span, Span, Xdxf!Open, Open, Xdxf!Close, Close, Xdxf!Unit, Unit
<1>5. \A l, u, count, to : Xdxf!WriteLink(l, u, count, to) <=> WriteLink(l, u, count, to)
  BY <1>2, <1>3, <1>4 DEF Xdxf!WriteLink, WriteLink
<1>6. Xdxf!Char = Char /\ Xdxf!Entity = Entity /\ Xdxf!Ref = Ref /\ Xdxf!Bad = Bad
  BY DEF Xdxf!Char, Char, Xdxf!Entity, Entity, Xdxf!Ref, Ref, Xdxf!Bad, Bad, Xdxf!Unit, Unit
<1>7. \A u : Xdxf!Finish(u) <=> Finish(u)
  BY DEF Xdxf!Finish, Finish, Xdxf!Item, Item
<1>8. \A to : Xdxf!WriteResource(to) <=> WriteResource(to)
  BY <1>4, <1>6 DEF Xdxf!WriteResource, WriteResource, Xdxf!Item, Item, Xdxf!Resource, Resource
<1>9. \A toks, from : Xdxf!Find(toks, from) = Find(toks, from)
  BY DEF Xdxf!Find, Find, Xdxf!SelectInSubSeq, SelectInSubSeq, Xdxf!Min, Min
<1>10. \A from, to : Xdxf!Tokens(from, to) = Tokens(from, to)
  BY DEF Xdxf!Tokens, Tokens
<1>11. \A x : Xdxf!FlattenSeq(x) = FlattenSeq(x)
  BY DEF Xdxf!FlattenSeq, FlattenSeq
<1>12. QED BY <1>1, <1>2, <1>4, <1>5, <1>6, <1>7, <1>8, <1>9, <1>10, <1>11

LEMMA PowerwordSame ==
    /\ \A u, count, to : Powerword!Write(u, count, to) <=> Write(u, count, to)
    /\ \A l, u, count, to : Powerword!WriteLink(l, u, count, to) <=> WriteLink(l, u, count, to)
    /\ \A u : Powerword!Finish(u) <=> Finish(u)
    /\ \A to : Powerword!WriteResource(to) <=> WriteResource(to)
    /\ \A toks, from : Powerword!Find(toks, from) = Find(toks, from)
    /\ \A from, to : Powerword!Tokens(from, to) = Tokens(from, to)
    /\ \A x : Powerword!Span(x) = Span(x) /\ Powerword!Open(x) = Open(x) /\ Powerword!Close(x) = Close(x)
    /\ Powerword!Char = Char /\ Powerword!Entity = Entity /\ Powerword!Ref = Ref /\ Powerword!Bad = Bad
    /\ \A x : Powerword!FlattenSeq(x) = FlattenSeq(x)
    /\ \A x : Powerword!xml_strlen(x) = xml_strlen(x)
<1>1. \A u, count, to : Powerword!Write(u, count, to) <=> Write(u, count, to)
  BY DEF Powerword!Write, Write
<1>2. \A l : Powerword!xml_strlen(l) = xml_strlen(l)
  BY DEF Powerword!xml_strlen, xml_strlen, Powerword!Visible, Visible, Powerword!RefLen, RefLen, Powerword!Cardinality, Cardinality
<1>3. \A u : Powerword!Linked(u) = Linked(u)
  BY DEF Powerword!Linked, Linked
<1>4. \A x : Powerword!Span(x) = Span(x) /\ Powerword!Open(x) = Open(x) /\ Powerword!Close(x) = Close(x)
  BY DEF Powerword!Span, Span, Powerword!Open, Open, Powerword!Close, Close, Powerword!Unit, Unit
<1>5. \A l, u, count, to : Powerword!WriteLink(l, u, count, to) <=> WriteLink(l, u, count, to)
  BY <1>2, <1>3, <1>4 DEF Powerword!WriteLink, WriteLink
<1>6. Powerword!Char = Char /\ Powerword!Entity = Entity /\ Powerword!Ref = Ref /\ Powerword!Bad = Bad
  BY DEF Powerword!Char, Char, Powerword!Entity, Entity, Powerword!Ref, Ref, Powerword!Bad, Bad, Powerword!Unit, Unit
<1>7. \A u : Powerword!Finish(u) <=> Finish(u)
  BY DEF Powerword!Finish, Finish, Powerword!Item, Item
<1>8. \A to : Powerword!WriteResource(to) <=> WriteResource(to)
  BY <1>4, <1>6 DEF Powerword!WriteResource, WriteResource, Powerword!Item, Item, Powerword!Resource, Resource
<1>9. \A toks, from : Powerword!Find(toks, from) = Find(toks, from)
  BY DEF Powerword!Find, Find, Powerword!SelectInSubSeq, SelectInSubSeq, Powerword!Min, Min
<1>10. \A from, to : Powerword!Tokens(from, to) = Tokens(from, to)
  BY DEF Powerword!Tokens, Tokens
<1>11. \A x : Powerword!FlattenSeq(x) = FlattenSeq(x)
  BY DEF Powerword!FlattenSeq, FlattenSeq
<1>12. QED BY <1>1, <1>2, <1>4, <1>5, <1>6, <1>7, <1>8, <1>9, <1>10, <1>11
-----------------------------------------------------------------------------
(* The HTML plugin.                                                        *)

HtmlTokens == Html!TextTokens \cup Html!Tags

\* Two units, and a text of equal ones.
LEMMA Pair ==
    ASSUME NEW u \in Units, NEW v \in Units
    PROVE  /\ <<u, v>> \in Seq(Units)
           /\ Width(<<u, v>>) = (IF u.k \in Visible THEN 1 ELSE 0) + (IF v.k \in Visible THEN 1 ELSE 0)
<1> DEFINE w == <<u, v>>
<1>1. w \in Seq(Units) /\ Len(w) = 2 /\ w[1] = u /\ w[2] = v
  OBVIOUS
<1> HIDE DEF w
<1>2. 0 \in 0..Len(w) - 1 /\ 1 \in 0..Len(w) - 1 /\ 0 + 1 = 1 /\ 1 + 1 = 2
  BY <1>1
<1>3. Places(w)[0] = 0
  BY <1>1, PlacesFacts
<1>4. Places(w)[0 + 1] = Places(w)[0] + IF w[0 + 1].k \in Visible THEN 1 ELSE 0
  BY <1>1, <1>2, PlacesFacts
<1>5. Places(w)[1 + 1] = Places(w)[1] + IF w[1 + 1].k \in Visible THEN 1 ELSE 0
  BY <1>1, <1>2, PlacesFacts
<1>6. Places(w)[1] = IF u.k \in Visible THEN 1 ELSE 0
  BY <1>1, <1>2, <1>3, <1>4
<1>7. Width(w) = (IF u.k \in Visible THEN 1 ELSE 0) + (IF v.k \in Visible THEN 1 ELSE 0)
  BY <1>1, <1>2, <1>5, <1>6 DEF Width
<1>8. QED BY <1>1, <1>7 DEF w

LEMMA Shown ==
    ASSUME NEW n \in Nat, NEW u, u = [i \in 1..n |-> u[i]], \A i \in 1..n : u[i] \in {Char, Entity}
    PROVE  u \in Seq(Loose) /\ Len(u) = n /\ Width(u) = n
<1>1. \A i \in 1..n : u[i] \in Loose /\ u[i].k \in Visible
  BY LooseUnits, LooseType
<1>2. u \in Seq(Loose) /\ Len(u) = n
  BY <1>1
<1>3. u \in Seq(Units)
  BY <1>2, LooseType, SeqMono
<1>4. QED BY <1>1, <1>2, <1>3, AllVisible

\* One unit that is shown for no link.
LEMMA OneShown ==
    ASSUME NEW u \in {Char, Entity, Bad, Ref}
    PROVE  <<u>> \in Seq(Loose) /\ Width(<<u>>) = 1
<1>1. u \in Loose /\ u \in Units /\ u.k \in Visible
  BY LooseUnits, LooseType
<1>2. QED BY <1>1, OneUnit

ShownTexts == {<<Char>>, <<Entity>>, <<Bad>>, <<Ref>>}
LEMMA EachShown ==
    /\ \A w \in ShownTexts : w \in Seq(Loose) /\ Width(w) = 1
    /\ <<Char>> \in ShownTexts /\ <<Entity>> \in ShownTexts
    /\ <<Bad>> \in ShownTexts /\ <<Ref>> \in ShownTexts
<1>1. <<Char>> \in Seq(Loose) /\ Width(<<Char>>) = 1
  BY OneShown
<1>2. <<Entity>> \in Seq(Loose) /\ Width(<<Entity>>) = 1
  BY OneShown
<1>3. <<Bad>> \in Seq(Loose) /\ Width(<<Bad>>) = 1
  BY OneShown
<1>4. <<Ref>> \in Seq(Loose) /\ Width(<<Ref>>) = 1
  BY OneShown
<1>5. QED BY <1>1, <1>2, <1>3, <1>4 DEF ShownTexts

LEMMA OneTag ==
    ASSUME NEW tag \in {"b", "span", "unknown"}, NEW u \in {Open(tag), Close(tag)}
    PROVE  <<u>> \in Seq(Loose) /\ Width(<<u>>) = 0
<1>1. u \in Loose /\ u \in Units /\ u.k \notin Visible
  BY LooseUnits, LooseType
<1>2. QED BY <1>1, OneUnit

\* html_topango writes as many characters as it counts, but for a reference read as 0.
LEMMA HtmlToken ==
    ASSUME NEW t \in HtmlTokens
    PROVE  /\ Html!topango(t) \in Seq(Loose) /\ Html!topango_len(t) \in Nat
           /\ t # "&#0" => Width(Html!topango(t)) = Html!topango_len(t)
           /\ Html!Raw(t) \in Seq(Loose)
<1>1. CASE t \in Html!Closing
  <2>1. TagWidth \in Nat
    BY SourcesAssumption
  <2> DEFINE u == [i \in 1..TagWidth |-> IF i \in {1, TagWidth} THEN Entity ELSE Char]
  <2>2. Html!topango(t) = u /\ Html!topango_len(t) = TagWidth
    BY <1>1, HtmlSame DEF Html!topango, Html!topango_len, Html!Closing
  <2>3. u = [i \in 1..TagWidth |-> u[i]] /\ \A i \in 1..TagWidth : u[i] \in {Char, Entity}
    OBVIOUS
  <2> HIDE DEF u
  <2>4. u \in Seq(Loose) /\ Width(u) = TagWidth
    BY <2>1, <2>3, Shown
  <2>5. Html!Raw(t) = <<Bad>>
    BY <1>1, HtmlSame DEF Html!Raw, Html!Closing
  <2>6. QED BY <2>1, <2>2, <2>4, <2>5, OneShown
<1>2. CASE t \notin Html!Closing
  <2>1. t \in {"c", "newline", "&lt", "&nbsp", "&", "&#n", "&#0", "&#60", ">", "<"}
    BY <1>2 DEF HtmlTokens, Html!TextTokens, Html!Tags
  <2>2. CASE t = "newline"
    <3>1. Html!topango(t) = <<>> /\ Html!topango_len(t) = 0
      BY <2>2, <1>2 DEF Html!topango, Html!topango_len
    <3>2. Html!Raw(t) \in ShownTexts
      BY <2>2, HtmlSame, EachShown DEF Html!Raw
    <3>3. <<>> \in Seq(Loose)
      OBVIOUS
    <3>4. Html!topango(t) \in Seq(Loose) /\ Width(Html!topango(t)) = 0
      BY <3>1, <3>3, NoUnits
    <3>5. Html!Raw(t) \in Seq(Loose)
      BY <3>2, EachShown
    <3>6. QED BY <3>1, <3>4, <3>5
  <2>3. CASE t = "&#0"
    <3>1. Html!topango(t) = <<>> /\ Html!topango_len(t) = 1
      BY <2>3, <1>2 DEF Html!topango, Html!topango_len
    <3>2. Html!Raw(t) \in ShownTexts
      BY <2>3, HtmlSame, EachShown DEF Html!Raw
    <3>3. <<>> \in Seq(Loose)
      OBVIOUS
    <3>4. Html!topango(t) \in Seq(Loose)
      BY <3>1, <3>3
    <3>5. Html!Raw(t) \in Seq(Loose)
      BY <3>2, EachShown
    <3>6. QED BY <2>3, <3>1, <3>4, <3>5
  <2>4. CASE t \notin {"newline", "&#0"}
    <3>1. Html!topango_len(t) = 1
      BY <1>2, <2>4 DEF Html!topango_len
    <3>2. Html!topango(t) \in ShownTexts
      BY <1>2, <2>1, <2>4, HtmlSame DEF Html!topango, ShownTexts
    <3>3. Html!Raw(t) \in ShownTexts
      BY <2>1, <2>4, HtmlSame DEF Html!Raw, ShownTexts
    <3>4. Html!topango(t) \in Seq(Loose) /\ Width(Html!topango(t)) = 1
      BY <3>2, EachShown
    <3>5. Html!Raw(t) \in Seq(Loose)
      BY <3>3, EachShown
    <3>6. Html!topango_len(t) \in Nat
      BY <3>1
    <3>7. QED BY <3>1, <3>4, <3>5, <3>6
  <2>5. QED BY <2>2, <2>3, <2>4
<1>3. QED BY <1>1, <1>2

\* The running length that html_topango keeps: there is such a function, up to any number.
IsSum(g, u, m) ==
    g = [i \in 0..m |-> IF i = 0 THEN 0 ELSE g[i - 1] + Html!topango_len(u[i])]

LEMMA SumExists ==
    ASSUME NEW u, NEW n \in Nat
    PROVE  \E g : IsSum(g, u, n)
<1> DEFINE T == {m \in 0..n : \E g : IsSum(g, u, m)}
<1>1. 0 \in T
  <2>1. IsSum([i \in 0..0 |-> 0], u, 0)
    BY DEF IsSum
  <2>2. QED BY <2>1
<1>2. ASSUME NEW m \in 0..n - 1, m \in T PROVE m + 1 \in T
  <2>1. PICK f : IsSum(f, u, m)
    BY <1>2
  <2> DEFINE g == [i \in 0..m + 1 |-> IF i <= m THEN f[i] ELSE f[m] + Html!topango_len(u[m + 1])]
  <2>2. \A i \in 0..m : g[i] = f[i]
    OBVIOUS
  <2>3. g[m + 1] = f[m] + Html!topango_len(u[m + 1])
    <3>1. m + 1 \in 0..m + 1 /\ ~(m + 1 <= m)
      OBVIOUS
    <3>2. QED BY <3>1
  <2>4. g = [i \in 0..m + 1 |-> g[i]]
    OBVIOUS
  <2>5. \A i \in 0..m : f[i] = IF i = 0 THEN 0 ELSE f[i - 1] + Html!topango_len(u[i])
    BY <2>1 DEF IsSum
  <2> HIDE DEF g
  <2>6. ASSUME NEW i \in 0..m + 1
        PROVE  g[i] = IF i = 0 THEN 0 ELSE g[i - 1] + Html!topango_len(u[i])
    <3>1. CASE i \in 0..m
      <4>1. i # 0 => i - 1 \in 0..m
        BY <3>1
      <4>2. QED BY <2>2, <2>5, <3>1, <4>1
    <3>2. CASE i = m + 1
      <4>1. i - 1 = m /\ i # 0 /\ m \in 0..m
        BY <3>2
      <4>2. QED BY <2>2, <2>3, <3>2, <4>1
    <3>3. QED BY <3>1, <3>2
  <2>7. g = [i \in 0..m + 1 |-> IF i = 0 THEN 0 ELSE g[i - 1] + Html!topango_len(u[i])]
    BY <2>4, <2>6
  <2>8. IsSum(g, u, m + 1)
    BY <2>7 DEF IsSum
  <2>9. m + 1 \in 0..n
    OBVIOUS
  <2>10. QED BY <2>8, <2>9
<1> HIDE DEF T
<1>3. n \in T
  BY <1>1, <1>2, CountUp
<1>4. QED BY <1>3 DEF T

\* Of a text, too.
LEMMA HtmlText ==
    ASSUME NEW u \in Seq(HtmlTokens)
    PROVE  /\ Html!ToPango(u) \in Seq(Loose)
           /\ (\A i \in 1..Len(u) : u[i] # "&#0") => Html!ToPangoLen(u) = Width(Html!ToPango(u))
<1> DEFINE ss == [i \in DOMAIN u |-> Html!topango(u[i])]
           n == Len(u)
<1>1. n \in Nat /\ DOMAIN u = 1..n /\ \A i \in 1..n : u[i] \in HtmlTokens
  OBVIOUS
<1>2. DOMAIN ss = DOMAIN u /\ ss = [i \in DOMAIN u |-> ss[i]] /\ \A i \in DOMAIN u : ss[i] = Html!topango(u[i])
  OBVIOUS
<1>3. \A i \in DOMAIN u : ss[i] \in Seq(Loose)
  BY <1>1, <1>2, HtmlToken
<1>4. Html!ToPango(u) = FlattenSeq(ss)
  BY HtmlSame DEF Html!ToPango, Html!Each
<1> HIDE DEF ss
<1>5. ss \in Seq(Seq(Loose)) /\ Len(ss) = n /\ FlattenSeq(ss) \in Seq(Loose)
  BY <1>2, <1>3, LooseType, EachFacts
<1>6. ASSUME \A i \in 1..n : u[i] # "&#0"
      PROVE  Html!ToPangoLen(u) = Width(FlattenSeq(ss))
  <2> DEFINE g == CHOOSE f : IsSum(f, u, n)
  <2>1. IsSum(g, u, n)
    BY <1>1, SumExists
  <2>2. Html!ToPangoLen(u) = g[n]
    BY DEF Html!ToPangoLen, IsSum
  <2> HIDE DEF g, n
  <2>3. \A i \in 0..n : g[i] = IF i = 0 THEN 0 ELSE g[i - 1] + Html!topango_len(u[i])
    BY <2>1 DEF IsSum
  <2>4. g[0] = 0 /\ \A j \in 1..n : g[j] = g[j - 1] + Width(ss[j])
    <3>1. \A j \in 1..n : j \in 0..n /\ j # 0
      BY <1>1
    <3>2. \A j \in 1..n : Width(ss[j]) = Html!topango_len(u[j])
      BY <1>1, <1>2, <1>6, HtmlToken
    <3>3. 0 \in 0..n
      BY <1>1
    <3>4. QED BY <2>3, <3>1, <3>2, <3>3
  <2>5. ss \in Seq(Seq(Units))
    <3> DEFINE A == Seq(Loose)
               B == Seq(Units)
    <3>1. A \subseteq B
      BY LooseType, SeqMono
    <3>2. ss \in Seq(A)
      BY <1>5
    <3> HIDE DEF A, B
    <3>3. ss \in Seq(B)
      BY <3>1, <3>2, SeqMono
    <3>4. QED BY <3>3 DEF B
  <2>6. Width(FlattenSeq(ss)) = g[n]
    <3>1. n \in Nat /\ n = Len(ss)
      BY <1>1, <1>5
    <3> HIDE DEF n
    <3>2. QED BY <2>4, <2>5, <3>1, FlattenWidth
  <2>7. QED BY <2>2, <2>6
<1>7. QED BY <1>4, <1>5, <1>6

\* What stands for a tag.
LEMMA HtmlReplaced ==
    ASSUME NEW t \in DOMAIN Html!replace_arr
    PROVE  /\ Html!replace_arr[t] \in Seq(Loose)
           /\ Width(Html!replace_arr[t]) = Html!char_len(t)
<1>1. t \in {"<b>", "</b>", "<br>", "<hr>", "</font>"}
  BY DEF Html!replace_arr
<1>2. CASE t = "<b>"
  <2>1. Html!replace_arr[t] = <<Open("b")>> /\ Html!char_len(t) = 0
    BY <1>2, HtmlSame DEF Html!replace_arr, Html!char_len
  <2>2. QED BY <2>1, OneTag
<1>3. CASE t = "</b>"
  <2>1. Html!replace_arr[t] = <<Close("b")>> /\ Html!char_len(t) = 0
    BY <1>3, HtmlSame DEF Html!replace_arr, Html!char_len
  <2>2. QED BY <2>1, OneTag
<1>4. CASE t = "</font>"
  <2>1. Html!replace_arr[t] = <<Close("span")>> /\ Html!char_len(t) = 0
    BY <1>4, HtmlSame DEF Html!replace_arr, Html!char_len
  <2>2. QED BY <2>1, OneTag
<1>5. CASE t = "<br>"
  <2>1. Html!replace_arr[t] = <<Char>> /\ Html!char_len(t) = 1
    BY <1>5, HtmlSame DEF Html!replace_arr, Html!char_len
  <2>2. QED BY <2>1, OneShown
<1>6. CASE t = "<hr>"
  <2> DEFINE rule == [i \in 1..5 |-> Char]
  <2>1. Html!replace_arr[t] = <<Char>> \o Span(rule) \o <<Char>> /\ Html!char_len(t) = 7
    BY <1>6, HtmlSame DEF Html!replace_arr, Html!char_len
  <2>2. rule = [i \in 1..5 |-> rule[i]] /\ \A i \in 1..5 : rule[i] \in {Char, Entity}
    OBVIOUS
  <2> HIDE DEF rule
  <2>3. rule \in Seq(Loose) /\ Width(rule) = 5
    <3>1. 5 \in Nat
      OBVIOUS
    <3>2. QED BY <2>2, <3>1, Shown
  <2>4. Span(rule) \in Seq(Loose) /\ Width(Span(rule)) = 5
    BY <2>3, LooseSpan
  <2>5. <<Char>> \o Span(rule) \in Seq(Loose) /\ Width(<<Char>> \o Span(rule)) = 1 + 5
    <3> DEFINE v == Span(rule)
               w == <<Char>>
    <3>1. v \in Seq(Loose) /\ Width(v) = 5 /\ w \in Seq(Loose) /\ Width(w) = 1
      BY <2>4, EachShown
    <3> HIDE DEF v, w
    <3>2. w \o v \in Seq(Loose) /\ Width(w \o v) = 1 + 5
      BY <3>1, LooseConcat
    <3>3. QED BY <3>2 DEF v, w
  <2> DEFINE front == <<Char>> \o Span(rule)
  <2> HIDE DEF front
  <2>6. front \o <<Char>> \in Seq(Loose) /\ Width(front \o <<Char>>) = 1 + 5 + 1
    <3> DEFINE w == <<Char>>
    <3>1. w \in Seq(Loose) /\ Width(w) = 1 /\ front \in Seq(Loose) /\ Width(front) = 1 + 5
      BY <2>5, EachShown DEF front
    <3> HIDE DEF w
    <3>2. front \o w \in Seq(Loose) /\ Width(front \o w) = 1 + 5 + 1
      BY <3>1, LooseConcat
    <3>3. QED BY <3>2 DEF w
  <2>7. QED BY <2>1, <2>6 DEF front
<1>7. QED BY <1>1, <1>2, <1>3, <1>4, <1>5, <1>6

\* What the rest of an article is copied to.
LEMMA HtmlRest ==
    ASSUME NEW u \in Seq(HtmlTokens)
    PROVE  Html!Each(Html!Raw, u) \in Seq(Loose)
<1> DEFINE ss == [i \in DOMAIN u |-> Html!Raw(u[i])]
<1>1. \A i \in DOMAIN u : u[i] \in HtmlTokens
  OBVIOUS
<1>2. DOMAIN ss = DOMAIN u /\ ss = [i \in DOMAIN u |-> ss[i]] /\ \A i \in DOMAIN u : ss[i] = Html!Raw(u[i])
  OBVIOUS
<1>3. \A i \in DOMAIN u : ss[i] \in Seq(Loose)
  BY <1>1, <1>2, HtmlToken
<1>4. Html!Each(Html!Raw, u) = FlattenSeq(ss)
  BY HtmlSame DEF Html!Each
<1> HIDE DEF ss
<1>5. FlattenSeq(ss) \in Seq(Loose)
  BY <1>2, <1>3, LooseType, EachFacts
<1>6. QED BY <1>4, <1>5

\* A tag without its "<", as text and as it is copied.
LEMMA HtmlTail ==
    LET rest == Tail(Html!topango("<ref>"))
    IN  /\ rest \in Seq(Loose) /\ Width(rest) = TagWidth - 1
        /\ [i \in DOMAIN rest |-> Html!Char] \in Seq(Loose)
<1> DEFINE u == [i \in 1..TagWidth |-> IF i \in {1, TagWidth} THEN Entity ELSE Char]
           rest == Tail(u)
           n == TagWidth - 1
           copied == [i \in DOMAIN rest |-> Char]
<1>1. TagWidth \in Nat \ {0, 1} /\ n \in Nat
  BY SourcesAssumption
<1>2. Html!topango("<ref>") = u
  BY HtmlSame DEF Html!topango, Html!Closing
<1>3. \A i \in 1..TagWidth : u[i] \in {Char, Entity}
  OBVIOUS
<1>4. u \in Seq({Char, Entity}) /\ Len(u) = TagWidth
  <2>1. u = [i \in 1..TagWidth |-> u[i]]
    OBVIOUS
  <2> HIDE DEF u
  <2>2. QED BY <1>1, <1>3, <2>1
<1> HIDE DEF u
<1>5. rest \in Seq({Char, Entity}) /\ Len(rest) = n
  BY <1>1, <1>4
<1> HIDE DEF rest, n
<1>6. rest = [i \in 1..n |-> rest[i]] /\ \A i \in 1..n : rest[i] \in {Char, Entity}
  BY <1>1, <1>5
<1>7. rest \in Seq(Loose) /\ Width(rest) = n
  BY <1>1, <1>6, Shown
<1>8. copied = [i \in 1..n |-> copied[i]] /\ \A i \in 1..n : copied[i] \in {Char, Entity}
  BY <1>1, <1>5
<1>9. copied \in Seq(Loose)
  <2> HIDE DEF copied
  <2>1. QED BY <1>1, <1>8, Shown
<1>10. QED BY <1>2, <1>7, <1>9, HtmlSame DEF rest, n

\* Where the HTML plugin is: at the end, only what is copied may be left to count.
HtmlAt == src \in Seq(HtmlTokens) /\ p \in Nat \ {0}
HtmlRight == Rows /\ (Right \/ Find(Html!Tags, p) = 0)

\* One token behind another.
LEMMA NextPlace == ASSUME p \in Nat \ {0} PROVE p + 1 \in Nat \ {0}
OBVIOUS

\* Behind a tag that is still to come the positions are right.
LEMMA HtmlBefore ==
    ASSUME HtmlAt, HtmlRight, p <= Len(src), src[p] \in Html!Tags
    PROVE  Right
<1>1. Len(src) \in Nat /\ p \in p..Len(src)
  BY DEF HtmlAt
<1>2. Find(Html!Tags, p) # 0
  <2>1. p \in Nat /\ p # 0
    BY DEF HtmlAt
  <2>2. QED BY <1>1, <2>1, FindFacts DEF HtmlAt
<1>3. QED BY <1>2 DEF HtmlRight

\* The text of a link.
LEMMA HtmlLink ==
    ASSUME HtmlAt, HtmlRight, p <= Len(src), src[p] \in Html!Tags,
           ~Has("&#0"), NEW toks, NEW next, next = Find(toks, p + 1), next # 0,
           WriteLink(<<>>, Html!ToPango(Tokens(p + 1, next - 1)), Html!ToPangoLen(Tokens(p + 1, next - 1)),
                     next + 1)
    PROVE  Rows' /\ Right' /\ p' \in Nat \ {0}
<1>1. p + 1 \in Nat \ {0} /\ p + 1 \in Nat /\ Len(src) \in Nat
  BY DEF HtmlAt
<1>2. next \in 0..Len(src)
  BY <1>1, FindFacts DEF HtmlAt
<1> DEFINE u == Tokens(p + 1, next - 1)
<1>3. u \in Seq(HtmlTokens) /\ \A i \in 1..Len(u) : \E j \in DOMAIN src : u[i] = src[j]
  <2>1. next - 1 \in Int /\ next - 1 <= Len(src)
    BY <1>1, <1>2
  <2>2. QED BY <1>1, <2>1, TokensFacts DEF HtmlAt
<1> HIDE DEF u
<1>4. \A i \in 1..Len(u) : u[i] # "&#0"
  BY <1>3 DEF Has
<1>5. Html!ToPango(u) \in Seq(Loose) /\ Html!ToPangoLen(u) = Width(Html!ToPango(u))
  BY <1>3, <1>4, HtmlText
<1>6. <<>> \in Seq(Loose) /\ xml_strlen(<<>>) = Width(<<>>)
  BY Nothing
<1>7. Right /\ Rows
  BY HtmlBefore DEF HtmlRight
<1> DEFINE text == Html!ToPango(u)
           count == Html!ToPangoLen(u)
<1>8. WriteLink(<<>>, text, count, next + 1)
  BY DEF u
<1>9. text \in Seq(Loose) /\ count = Width(text)
  BY <1>5
<1> HIDE DEF text, count
<1>10. Rows' /\ Right'
  BY <1>6, <1>7, <1>8, <1>9, LinkKeeps
<1>11. p' = next + 1
  BY <1>8 DEF WriteLink
<1>12. QED BY <1>2, <1>10, <1>11

\* A step that writes what is counted, or nothing.
LEMMA HtmlWrite ==
    ASSUME HtmlAt, HtmlRight, p <= Len(src), src[p] \in Html!Tags,
           NEW u \in Seq(Loose), NEW count, count = Width(u), NEW to \in Nat \ {0}, Write(u, count, to)
    PROVE  HtmlRight' /\ p' \in Nat \ {0}
<1>1. Rows /\ Right
  BY HtmlBefore DEF HtmlRight
<1>2. Rows' /\ Right'
  BY <1>1, WriteKeeps
<1>3. p' = to
  BY DEF Write
<1>4. QED BY <1>2, <1>3 DEF HtmlRight

LEMMA HtmlStep ==
    ASSUME HtmlAt, HtmlRight, ~Has("&#0"), Html!html2result
    PROVE  HtmlRight' /\ p' \in Nat \ {0}
<1>1. p \in Nat \ {0} /\ p + 1 \in Nat \ {0} /\ Len(src) \in Nat /\ src \in Seq(HtmlTokens)
  BY DEF HtmlAt
<1>2. <<>> \in Seq(Loose) /\ Width(<<>>) = 0
  BY NoUnits
<1>3. ASSUME NEW t \in Html!Tags, Html!At(t) PROVE p <= Len(src) /\ src[p] \in Html!Tags
  BY <1>3 DEF Html!At
<1>4. CASE Html!chunk
  <2> DEFINE t == src[p]
  <2>1. /\ p <= Len(src) /\ t \in Html!TextTokens /\ Find(Html!Tags, p) # 0
        /\ Write(Html!topango(t), Html!topango_len(t), p + 1)
    BY <1>4, HtmlSame DEF Html!chunk
  <2>2. t \in HtmlTokens /\ t # "&#0"
    <3>1. p \in DOMAIN src
      BY <1>1, <2>1
    <3>2. QED BY <2>1, <3>1 DEF HtmlTokens, Has
  <2> HIDE DEF t
  <2>3. Html!topango(t) \in Seq(Loose) /\ Width(Html!topango(t)) = Html!topango_len(t)
    BY <2>2, HtmlToken
  <2>4. Rows /\ Right
    BY <2>1 DEF HtmlRight
  <2>5. Rows' /\ Right'
    BY <2>1, <2>3, <2>4, WriteKeeps
  <2>6. p' = p + 1
    BY <2>1 DEF Write
  <2>7. QED BY <1>1, <2>5, <2>6 DEF HtmlRight
<1>5. CASE Html!replace
  <2>1. PICK t \in DOMAIN Html!replace_arr : Html!At(t) /\ Write(Html!replace_arr[t], Html!char_len(t), p + 1)
    BY <1>5, HtmlSame DEF Html!replace
  <2>2. Html!replace_arr[t] \in Seq(Loose) /\ Width(Html!replace_arr[t]) = Html!char_len(t)
    BY HtmlReplaced
  <2>3. t \in Html!Tags
    BY DEF Html!replace_arr, Html!Tags, Html!Closing
  <2>4. QED BY <1>1, <1>3, <2>1, <2>2, <2>3, HtmlWrite
<1>6. CASE Html!font
  <2>1. Html!At("<font>") /\ Write(<<Open("span")>>, 0, p + 1)
    BY <1>6, HtmlSame DEF Html!font
  <2>2. <<Open("span")>> \in Seq(Loose) /\ Width(<<Open("span")>>) = 0
    BY OneTag
  <2>3. "<font>" \in Html!Tags
    BY DEF Html!Tags, Html!Closing
  <2>4. QED BY <1>1, <1>3, <2>1, <2>2, <2>3, HtmlWrite
<1>7. CASE Html!a_href
  <2> DEFINE next == Find({"</a>"}, p + 1)
             text == Tokens(p + 1, next - 1)
  <2>1. /\ Html!At("<a>")
        /\ IF next = 0 THEN Write(<<>>, 0, p + 1)
           ELSE WriteLink(<<>>, Html!ToPango(text), Html!ToPangoLen(text), next + 1)
    BY <1>7, HtmlSame DEF Html!a_href
  <2>2. p <= Len(src) /\ src[p] \in Html!Tags
    BY <1>3, <2>1 DEF Html!Tags, Html!Closing
  <2>3. CASE next = 0
    BY <1>1, <1>2, <2>1, <2>2, <2>3, HtmlWrite
  <2>4. CASE next # 0
    <3>1. Rows' /\ Right' /\ p' \in Nat \ {0}
      BY <2>1, <2>2, <2>4, HtmlLink
    <3>2. QED BY <3>1 DEF HtmlRight
  <2>5. QED BY <2>3, <2>4
<1>8. CASE Html!ref
  <2> DEFINE next == Find({"</ref>"}, p + 1)
             text == Tokens(p + 1, next - 1)
             rest == Tail(Html!topango("<ref>"))
             copied == [i \in DOMAIN rest |-> Html!Char]
  <2>1. /\ Html!At("<ref>")
        /\ \/ next # 0 /\ WriteLink(<<>>, Html!ToPango(text), Html!ToPangoLen(text), next + 1)
           \/ next = 0 /\ Find(Html!Tags, p + 1) # 0 /\ Write(rest, TagWidth - 1, p + 1)
           \/ next = 0 /\ Find(Html!Tags, p + 1) = 0 /\ Write(copied, 0, p + 1)
    BY <1>8, HtmlSame DEF Html!ref
  <2>2. p <= Len(src) /\ src[p] \in Html!Tags
    BY <1>3, <2>1 DEF Html!Tags, Html!Closing
  <2>3. rest \in Seq(Loose) /\ Width(rest) = TagWidth - 1 /\ copied \in Seq(Loose)
    BY HtmlTail
  <2>4. CASE next # 0
    <3>1. Rows' /\ Right' /\ p' \in Nat \ {0}
      BY <2>1, <2>2, <2>4, HtmlLink
    <3>2. QED BY <3>1 DEF HtmlRight
  <2> HIDE DEF next, rest, copied
  <2>5. CASE Write(rest, TagWidth - 1, p + 1)
    BY <1>1, <2>2, <2>3, <2>5, HtmlWrite
  <2>6. CASE Find(Html!Tags, p + 1) = 0 /\ Write(copied, 0, p + 1)
    <3>1. Rows'
      BY <2>3, <2>6, WriteKeeps DEF HtmlRight
    <3>2. p' = p + 1 /\ src' = src
      BY <2>6 DEF Write
    <3>3. Find(Html!Tags, p)' = 0
      BY <2>6, <3>2 DEF Find, SelectInSubSeq, Html!Tags, Html!Closing
    <3>4. QED BY <1>1, <3>1, <3>2, <3>3 DEF HtmlRight
  <2>7. QED BY <2>1, <2>4, <2>5, <2>6
<1>9. CASE Html!img
  <2>1. Html!At("<img>") /\ (WriteResource(p + 1) \/ Write(<<>>, 0, p + 1))
    BY <1>9, HtmlSame DEF Html!img
  <2>2. p <= Len(src) /\ src[p] \in Html!Tags
    BY <1>3, <2>1 DEF Html!Tags, Html!Closing
  <2>3. CASE WriteResource(p + 1)
    <3>1. Rows' /\ Right'
      BY <2>3, ResourceKeeps DEF HtmlRight
    <3>2. p' = p + 1
      BY <2>3 DEF WriteResource
    <3>3. QED BY <1>1, <3>1, <3>2 DEF HtmlRight
  <2>4. CASE Write(<<>>, 0, p + 1)
    BY <1>1, <1>2, <2>2, <2>4, HtmlWrite
  <2>5. QED BY <2>1, <2>3, <2>4
<1>10. CASE Html!other
  <2> DEFINE next == Find(Html!Closing \cup {">"}, p + 1)
  <2>1. \/ \E t \in {"</a>", "</ref>", "<x>"} : Html!At(t) /\ Write(<<>>, 0, p + 1)
        \/ Html!At("<") /\ IF next = 0 THEN Write(<<Entity>>, 1, p + 1) ELSE Write(<<>>, 0, next + 1)
    BY <1>10, HtmlSame DEF Html!other
  <2>2. p <= Len(src) /\ src[p] \in Html!Tags
    <3>1. \A t \in {"</a>", "</ref>", "<x>", "<"} : t \in Html!Tags
      BY DEF Html!Tags, Html!Closing
    <3>2. PICK t \in {"</a>", "</ref>", "<x>", "<"} : Html!At(t)
      BY <2>1
    <3>3. QED BY <1>3, <3>1, <3>2
  <2>3. next + 1 \in Nat \ {0}
    <3>1. next \in 0..Len(src)
      BY <1>1, FindFacts
    <3>2. QED BY <1>1, <3>1
  <2> HIDE DEF next
  <2>4. CASE Write(<<>>, 0, p + 1)
    BY <1>1, <1>2, <2>2, <2>4, HtmlWrite
  <2>5. CASE Write(<<>>, 0, next + 1)
    BY <1>2, <2>2, <2>3, <2>5, HtmlWrite
  <2>6. CASE Write(<<Entity>>, 1, p + 1)
    <3>1. <<Entity>> \in Seq(Loose) /\ Width(<<Entity>>) = 1
      BY EachShown
    <3>2. QED BY <1>1, <2>2, <2>6, <3>1, HtmlWrite
  <2>7. QED BY <2>1, <2>4, <2>5, <2>6
<1>11. CASE Html!tail
  <2> DEFINE u == Html!Each(Html!Raw, Tokens(p, Len(src)))
  <2>1. Finish(u)
    BY <1>11, HtmlSame DEF Html!tail
  <2>2. u \in Seq(Loose)
    <3>1. Tokens(p, Len(src)) \in Seq(HtmlTokens)
      <4>1. Len(src) \in Int /\ Len(src) <= Len(src)
        BY <1>1
      <4>2. QED BY <1>1, <4>1, TokensFacts
    <3>2. QED BY <3>1, HtmlRest
  <2> HIDE DEF u
  <2>3. Rows' /\ res' = res /\ cur_pos' = cur_pos
    BY <2>1, <2>2, FinishKeeps DEF HtmlRight
  <2>4. p' = p /\ src' = src
    BY <2>1 DEF Finish
  <2>5. Find(Html!Tags, p)' = Find(Html!Tags, p)
    BY <2>4 DEF Find, SelectInSubSeq, Html!Tags, Html!Closing
  <2>6. Right' <=> Right
    BY <2>3 DEF Right
  <2>7. QED BY <1>1, <2>3, <2>4, <2>5, <2>6 DEF HtmlRight
<1>12. QED
  BY <1>4, <1>5, <1>6, <1>7, <1>8, <1>9, <1>10, <1>11 DEF Html!html2result

-----------------------------------------------------------------------------
(* The XDXF plugin, which counts what it copies by xml_strlen.             *)

XdxfTokens == Xdxf!TextTokens \cup Xdxf!Tags

\* Texts without references are counted as they are shown.
LEMMA CountedFacts ==
    ASSUME NEW u \in Seq(Counted)
    PROVE  u \in Seq(Loose) /\ xml_strlen(u) = Width(u)
<1>1. u \in Seq(Loose) /\ u \in Seq(Units)
  BY LooseType, SeqMono
<1>2. \A i \in 1..Len(u) : u[i].k # "ref"
  BY DEF Counted
<1>3. QED BY <1>1, <1>2, StrlenFacts

LEMMA CountedJoin ==
    /\ \A x, y \in Seq(Counted) : x \o y \in Seq(Counted)
    /\ \A x \in Seq(Counted) : Span(x) \in Seq(Counted)
    /\ <<Char>> \in Seq(Counted) /\ <<Entity>> \in Seq(Counted) /\ <<Bad>> \in Seq(Counted)
    /\ \A tag \in {"b", "span", "unknown"} :
          <<Open(tag)>> \in Seq(Counted) /\ <<Close(tag)>> \in Seq(Counted)
<1>1. \A x, y \in Seq(Counted) : x \o y \in Seq(Counted)
  OBVIOUS
<1>2. /\ <<Char>> \in Seq(Counted) /\ <<Entity>> \in Seq(Counted) /\ <<Bad>> \in Seq(Counted)
      /\ \A tag \in {"b", "span", "unknown"} :
          <<Open(tag)>> \in Seq(Counted) /\ <<Close(tag)>> \in Seq(Counted)
  BY LooseUnits
<1>3. ASSUME NEW x \in Seq(Counted) PROVE Span(x) \in Seq(Counted)
  <2>1. <<Open("span")>> \in Seq(Counted) /\ <<Close("span")>> \in Seq(Counted)
    BY <1>2
  <2>2. <<Open("span")>> \o x \o <<Close("span")>> \in Seq(Counted)
    BY <2>1
  <2>3. QED BY <2>2 DEF Span
<1>4. QED BY <1>1, <1>2, <1>3

LEMMA XdxfToken ==
    ASSUME NEW t \in XdxfTokens
    PROVE  /\ Xdxf!Raw(t) \in Seq(Loose)
           /\ t # "&#n" => Xdxf!Raw(t) \in Seq(Counted)
<1>1. CASE t = "&#n"
  <2>1. Xdxf!Raw(t) = <<Ref>>
    BY <1>1, XdxfSame DEF Xdxf!Raw
  <2>2. QED BY <1>1, <2>1, EachShown
<1>2. CASE t # "&#n"
  <2>1. Xdxf!Raw(t) \in {<<Char>>, <<Entity>>, <<Open("b")>>, <<Close("b")>>, <<Bad>>, <<Open("unknown")>>}
    BY <1>2, XdxfSame DEF Xdxf!Raw
  <2>2. Xdxf!Raw(t) \in Seq(Counted)
    BY <2>1, CountedJoin
  <2>3. QED BY <1>2, <2>2, CountedFacts
<1>3. QED BY <1>1, <1>2

LEMMA XdxfText ==
    ASSUME NEW u \in Seq(XdxfTokens)
    PROVE  /\ Xdxf!Each(Xdxf!Raw, u) \in Seq(Loose)
           /\ (\A i \in 1..Len(u) : u[i] # "&#n") => Xdxf!Each(Xdxf!Raw, u) \in Seq(Counted)
<1> DEFINE ss == [i \in DOMAIN u |-> Xdxf!Raw(u[i])]
<1>1. DOMAIN u = 1..Len(u) /\ \A i \in DOMAIN u : u[i] \in XdxfTokens
  OBVIOUS
<1>2. DOMAIN ss = DOMAIN u /\ ss = [i \in DOMAIN u |-> ss[i]] /\ \A i \in DOMAIN u : ss[i] = Xdxf!Raw(u[i])
  OBVIOUS
<1>3. Xdxf!Each(Xdxf!Raw, u) = FlattenSeq(ss)
  BY XdxfSame DEF Xdxf!Each
<1> HIDE DEF ss
<1>4. FlattenSeq(ss) \in Seq(Loose)
  <2>1. \A i \in DOMAIN u : ss[i] \in Seq(Loose)
    BY <1>1, <1>2, XdxfToken
  <2>2. Loose \in SUBSET Units
    BY LooseType
  <2>3. QED BY <1>2, <2>1, <2>2, EachFacts
<1>5. ASSUME \A i \in 1..Len(u) : u[i] # "&#n" PROVE FlattenSeq(ss) \in Seq(Counted)
  <2>1. \A i \in DOMAIN u : ss[i] \in Seq(Counted)
    BY <1>1, <1>2, <1>5, XdxfToken
  <2>2. Counted \in SUBSET Units
    BY LooseType
  <2>3. QED BY <1>2, <2>1, <2>2, EachFacts
<1>6. QED BY <1>3, <1>4, <1>5

\* What stands for a tag.
LEMMA XdxfReplaced ==
    ASSUME NEW t \in DOMAIN Xdxf!replace_arr
    PROVE  /\ Xdxf!replace_arr[t] \in Seq(Loose)
           /\ Width(Xdxf!replace_arr[t]) = Xdxf!char_len(t)
<1>1. t \in {"<b>", "</b>", "<tr>", "</tr>", "</c>"}
  BY DEF Xdxf!replace_arr
<1>2. CASE t = "<b>"
  <2>1. Xdxf!replace_arr[t] = <<Open("b")>> /\ Xdxf!char_len(t) = 0
    BY <1>2, XdxfSame DEF Xdxf!replace_arr, Xdxf!char_len
  <2>2. QED BY <2>1, OneTag
<1>3. CASE t = "</b>"
  <2>1. Xdxf!replace_arr[t] = <<Close("b")>> /\ Xdxf!char_len(t) = 0
    BY <1>3, XdxfSame DEF Xdxf!replace_arr, Xdxf!char_len
  <2>2. QED BY <2>1, OneTag
<1>4. CASE t = "</c>"
  <2>1. Xdxf!replace_arr[t] = <<Close("span")>> /\ Xdxf!char_len(t) = 0
    BY <1>4, XdxfSame DEF Xdxf!replace_arr, Xdxf!char_len
  <2>2. QED BY <2>1, OneTag
<1>5. CASE t = "<tr>"
  <2>1. Xdxf!replace_arr[t] = <<Open("b"), Char>> /\ Xdxf!char_len(t) = 1
    BY <1>5, XdxfSame DEF Xdxf!replace_arr, Xdxf!char_len
  <2>2. Width(<<Open("b"), Char>>) = 0 + 1
    BY LooseUnits, LooseType, Pair
  <2>3. <<Open("b"), Char>> \in Seq(Loose)
    BY LooseUnits, LooseType
  <2>4. QED BY <2>1, <2>2, <2>3
<1>6. CASE t = "</tr>"
  <2>1. Xdxf!replace_arr[t] = <<Char, Close("b")>> /\ Xdxf!char_len(t) = 1
    BY <1>6, XdxfSame DEF Xdxf!replace_arr, Xdxf!char_len
  <2>2. Width(<<Char, Close("b")>>) = 1 + 0
    BY LooseUnits, LooseType, Pair
  <2>3. <<Char, Close("b")>> \in Seq(Loose)
    BY LooseUnits, LooseType
  <2>4. QED BY <2>1, <2>2, <2>3
<1>7. QED BY <1>1, <1>2, <1>3, <1>4, <1>5, <1>6

XdxfAt == src \in Seq(XdxfTokens) /\ p \in Nat \ {0}

\* A part of the article.
LEMMA XdxfPart ==
    ASSUME XdxfAt, ~Has("&#n"), NEW toks, NEW next, next = Find(toks, p + 1)
    PROVE  /\ next \in 0..Len(src)
           /\ Xdxf!Chunk(p + 1, next - 1) \in Seq(Counted)
           /\ p + 1 \in Nat \ {0} /\ next + 1 \in Nat \ {0} /\ next + 2 \in Nat \ {0}
<1>1. p + 1 \in Nat \ {0} /\ p + 1 \in Nat /\ Len(src) \in Nat
  BY DEF XdxfAt
<1>2. next \in 0..Len(src)
  BY <1>1, FindFacts DEF XdxfAt
<1> DEFINE u == Tokens(p + 1, next - 1)
<1>3. u \in Seq(XdxfTokens) /\ \A i \in 1..Len(u) : \E j \in DOMAIN src : u[i] = src[j]
  <2>1. next - 1 \in Int /\ next - 1 <= Len(src)
    BY <1>1, <1>2
  <2>2. QED BY <1>1, <2>1, TokensFacts DEF XdxfAt
<1>4. Xdxf!Chunk(p + 1, next - 1) = Xdxf!Each(Xdxf!Raw, u)
  BY XdxfSame DEF Xdxf!Chunk
<1> HIDE DEF u
<1>5. \A i \in 1..Len(u) : u[i] # "&#n"
  BY <1>3 DEF Has
<1>6. QED BY <1>1, <1>2, <1>3, <1>4, <1>5, XdxfText

LEMMA XdxfWrite ==
    ASSUME Rows, Right, NEW u \in Seq(Loose), NEW count, count = Width(u), NEW to \in Nat \ {0},
           Write(u, count, to)
    PROVE  Rows' /\ Right' /\ p' \in Nat \ {0}
<1>1. Rows' /\ Right'
  BY WriteKeeps
<1>2. p' = to
  BY DEF Write
<1>3. QED BY <1>1, <1>2

LEMMA XdxfStep ==
    ASSUME XdxfAt, Rows, Right, ~Has("&#n"), Xdxf!xdxf2result
    PROVE  Rows' /\ Right' /\ p' \in Nat \ {0}
<1>1. p \in Nat \ {0} /\ p + 1 \in Nat \ {0} /\ Len(src) \in Nat /\ src \in Seq(XdxfTokens)
  BY DEF XdxfAt
<1>2. <<>> \in Seq(Loose) /\ Width(<<>>) = 0
  BY Nothing
<1>3. CASE Xdxf!k
  <2> DEFINE next == Find({"</k>"}, p + 1)
             text == Xdxf!Chunk(p + 1, next - 1)
             newline == next < Len(src) /\ src[next + 1] = "newline"
             to == next + (IF newline THEN 2 ELSE 1)
  <2>1. \/ Write(<<>>, 0, p + 1)
        \/ Write(<<>>, 0, to)
        \/ Write(Span(text), xml_strlen(Span(text)), next + 1)
    <3>1. xml_strlen(Span(text)) = xml_strlen(text)
      BY <1>1, XdxfPart, CountedJoin, CountedFacts, LooseSpan
    <3>2. \/ Write(<<>>, 0, p + 1)
          \/ Write(<<>>, 0, to)
          \/ Write(Span(text), xml_strlen(text), next + 1)
      BY <1>3, XdxfSame DEF Xdxf!k
    <3>3. QED BY <3>1, <3>2
  <2>2. text \in Seq(Counted) /\ next + 1 \in Nat \ {0} /\ next + 2 \in Nat \ {0}
    BY XdxfPart
  <2>3. to \in Nat \ {0}
    BY <2>2
  <2> HIDE DEF text, next, to
  <2>4. Span(text) \in Seq(Loose) /\ xml_strlen(Span(text)) = Width(Span(text))
    BY <2>2, CountedJoin, CountedFacts
  <2>5. CASE Write(<<>>, 0, p + 1)
    BY <1>1, <1>2, <2>5, XdxfWrite
  <2>6. CASE Write(<<>>, 0, to)
    BY <1>2, <2>3, <2>6, XdxfWrite
  <2>7. CASE Write(Span(text), xml_strlen(Span(text)), next + 1)
    BY <2>2, <2>4, <2>7, XdxfWrite
  <2>8. QED BY <2>1, <2>5, <2>6, <2>7
<1>4. CASE Xdxf!chunk
  <2> DEFINE t == src[p]
  <2>1. /\ p <= Len(src) /\ t \in Xdxf!TextTokens
        /\ Write(Xdxf!Raw(t), xml_strlen(Xdxf!Raw(t)), p + 1)
    BY <1>4, XdxfSame DEF Xdxf!chunk
  <2>2. t \in XdxfTokens /\ t # "&#n"
    <3>1. p \in DOMAIN src
      BY <1>1, <2>1
    <3>2. QED BY <2>1, <3>1 DEF XdxfTokens, Has
  <2> HIDE DEF t
  <2>3. Xdxf!Raw(t) \in Seq(Loose) /\ xml_strlen(Xdxf!Raw(t)) = Width(Xdxf!Raw(t))
    BY <2>2, XdxfToken, CountedFacts
  <2>4. QED BY <1>1, <2>1, <2>3, XdxfWrite
<1>5. CASE Xdxf!replace
  <2>1. PICK t \in DOMAIN Xdxf!replace_arr : Write(Xdxf!replace_arr[t], Xdxf!char_len(t), p + 1)
    BY <1>5, XdxfSame DEF Xdxf!replace
  <2>2. Xdxf!replace_arr[t] \in Seq(Loose) /\ Width(Xdxf!replace_arr[t]) = Xdxf!char_len(t)
    BY XdxfReplaced
  <2>3. QED BY <1>1, <2>1, <2>2, XdxfWrite
<1>6. CASE Xdxf!c
  <2>1. Write(<<Open("span")>>, 0, p + 1)
    BY <1>6, XdxfSame DEF Xdxf!c
  <2>2. <<Open("span")>> \in Seq(Loose) /\ Width(<<Open("span")>>) = 0
    BY OneTag
  <2>3. QED BY <1>1, <2>1, <2>2, XdxfWrite
<1>7. CASE Xdxf!rref
  <2> DEFINE next == Find({"</rref>"}, p + 1)
  <2>1. Write(<<>>, 0, p + 1) \/ WriteResource(next + 1)
    BY <1>7, XdxfSame DEF Xdxf!rref
  <2>2. next + 1 \in Nat \ {0}
    BY XdxfPart
  <2> HIDE DEF next
  <2>3. CASE Write(<<>>, 0, p + 1)
    BY <1>1, <1>2, <2>3, XdxfWrite
  <2>4. CASE WriteResource(next + 1)
    <3>1. Rows' /\ Right'
      BY <2>4, ResourceKeeps
    <3>2. p' = next + 1
      BY <2>4 DEF WriteResource
    <3>3. QED BY <2>2, <3>1, <3>2
  <2>5. QED BY <2>1, <2>3, <2>4
<1>8. CASE Xdxf!kref
  <2> DEFINE next == Find({"</kref>"}, p + 1)
             text == Xdxf!Chunk(p + 1, next - 1)
  <2>1. Write(<<>>, 0, p + 1) \/ WriteLink(<<>>, text, xml_strlen(text), next + 1)
    BY <1>8, XdxfSame DEF Xdxf!kref
  <2>2. text \in Seq(Counted) /\ next + 1 \in Nat \ {0}
    BY XdxfPart
  <2> HIDE DEF text, next
  <2>3. text \in Seq(Loose) /\ xml_strlen(text) = Width(text)
    BY <2>2, CountedFacts
  <2>4. CASE Write(<<>>, 0, p + 1)
    BY <1>1, <1>2, <2>4, XdxfWrite
  <2>5. CASE WriteLink(<<>>, text, xml_strlen(text), next + 1)
    <3>1. Rows' /\ Right'
      BY <2>3, <2>5, Nothing, LinkKeeps
    <3>2. p' = next + 1
      BY <2>5 DEF WriteLink
    <3>3. QED BY <2>2, <3>1, <3>2
  <2>6. QED BY <2>1, <2>4, <2>5
<1>9. CASE Xdxf!other
  <2> DEFINE next == Find(Xdxf!Closing \cup {">"}, p + 1)
  <2>1. Write(<<>>, 0, p + 1) \/ Write(<<Entity>>, 1, p + 1) \/ Write(<<>>, 0, next + 1)
    BY <1>9, XdxfSame DEF Xdxf!other
  <2>2. next + 1 \in Nat \ {0}
    BY XdxfPart
  <2> HIDE DEF next
  <2>3. CASE Write(<<>>, 0, p + 1)
    BY <1>1, <1>2, <2>3, XdxfWrite
  <2>4. CASE Write(<<>>, 0, next + 1)
    BY <1>2, <2>2, <2>4, XdxfWrite
  <2>5. CASE Write(<<Entity>>, 1, p + 1)
    <3>1. <<Entity>> \in Seq(Loose) /\ Width(<<Entity>>) = 1
      BY EachShown
    <3>2. QED BY <1>1, <2>5, <3>1, XdxfWrite
  <2>6. QED BY <2>1, <2>3, <2>4, <2>5
<1>10. CASE Xdxf!tail
  <2> DEFINE u == Xdxf!Each(Xdxf!Raw, Tokens(p, Len(src)))
  <2>1. Finish(u)
    BY <1>10, XdxfSame DEF Xdxf!tail, Xdxf!Chunk
  <2>2. u \in Seq(Loose)
    <3>1. Tokens(p, Len(src)) \in Seq(XdxfTokens)
      <4>1. Len(src) \in Int /\ Len(src) <= Len(src)
        BY <1>1
      <4>2. QED BY <1>1, <4>1, TokensFacts
    <3>2. QED BY <3>1, XdxfText
  <2> HIDE DEF u
  <2>3. Rows' /\ res' = res /\ cur_pos' = cur_pos
    BY <2>1, <2>2, FinishKeeps
  <2>4. p' = p
    BY <2>1 DEF Finish
  <2>5. QED BY <1>1, <2>3, <2>4 DEF Right
<1>11. QED
  BY <1>3, <1>4, <1>5, <1>6, <1>7, <1>8, <1>9, <1>10 DEF Xdxf!xdxf2result

-----------------------------------------------------------------------------
(* The PowerWord plugin, which counts all it writes by xml_strlen.         *)

PowerwordTokens == Powerword!Kinds \cup Powerword!TextTokens \cup {"start", "first", "end"}
Marks == {"b", "?"}
Context == [first : BOOLEAN, elem : Powerword!Kinds \cup {""}, marks : Seq(Marks), islink : BOOLEAN]
PowerwordAt == src \in PowerwordSources /\ p \in Nat \ {0} /\ ctx \in Context

LEMMA PowerwordTyped ==
    ASSUME PowerwordAt
    PROVE  /\ p \in Nat /\ p + 1 \in Nat \ {0} /\ p + 1 \in Nat
           /\ Len(src) \in Nat /\ src \in Seq(PowerwordTokens)
<1>1. src \in Seq(PowerwordTokens)
  BY SourcesAssumption DEF PowerwordAt, PowerwordTokens
<1>2. QED BY <1>1 DEF PowerwordAt

LEMMA ContextMarks == \A x \in Context : x.marks \in Seq(Marks)
BY DEF Context

LEMMA ThreeCounted ==
    ASSUME NEW u \in {Char, Entity}, NEW v \in {Char, Entity}, NEW w \in {Char, Entity}
    PROVE  <<u, v, w>> \in Seq(Counted)
BY LooseUnits

LEMMA PowerwordEscaped ==
    ASSUME NEW t, t # "'"
    PROVE  Powerword!Escaped(t) \in Seq(Counted)
<1>1. Powerword!Escaped(t) \in {<<Char>>, <<Entity>>, <<Entity, Char, Char>>}
  BY PowerwordSame DEF Powerword!Escaped
<1>2. <<Entity, Char, Char>> \in Seq(Counted)
  BY ThreeCounted
<1>3. QED BY <1>1, <1>2, CountedJoin

LEMMA PowerwordText ==
    ASSUME NEW u \in Seq(PowerwordTokens), \A i \in 1..Len(u) : u[i] # "'"
    PROVE  Powerword!EscapedText(u) \in Seq(Counted)
<1> DEFINE ss == [i \in DOMAIN u |-> Powerword!Escaped(u[i])]
<1>1. DOMAIN u = 1..Len(u)
  OBVIOUS
<1>2. DOMAIN ss = DOMAIN u /\ ss = [i \in DOMAIN u |-> ss[i]] /\ \A i \in DOMAIN u : ss[i] = Powerword!Escaped(u[i])
  OBVIOUS
<1>3. Powerword!EscapedText(u) = FlattenSeq(ss)
  BY PowerwordSame DEF Powerword!EscapedText, Powerword!Each
<1> HIDE DEF ss
<1>4. \A i \in DOMAIN u : ss[i] \in Seq(Counted)
  BY <1>1, <1>2, PowerwordEscaped
<1>5. Counted \in SUBSET Units
  BY LooseType
<1>6. QED BY <1>2, <1>3, <1>4, <1>5, EachFacts

\* The marks that a section leaves open, and what it ends with.
LEMMA PowerwordLeftover ==
    ASSUME PowerwordAt
    PROVE  FlattenSeq(Powerword!Leftover) \in Seq(Counted)
<1> DEFINE u == Powerword!Reverse(ctx.marks)
           ss == [i \in DOMAIN u |-> Powerword!CloseMark(u[i])]
           ends == Powerword!Suffix(ctx.elem)
<1>1. \A m : Powerword!CloseMark(m) \in Seq(Counted)
  <2>1. \A m : Powerword!CloseMark(m) \in {<<>>, <<Close("b")>>}
    BY PowerwordSame DEF Powerword!CloseMark
  <2>2. QED BY <2>1, Nothing, CountedJoin
<1>2. \A kind_ : Powerword!Suffix(kind_) \in Seq(Counted)
  <2> SUFFICES ASSUME NEW kind_ PROVE Powerword!Suffix(kind_) \in Seq(Counted)
    OBVIOUS
  <2>1. Powerword!Suffix(kind_) \in {<<>>, <<Close("b")>>, <<Close("span")>>, <<Close("span"), Char>>}
    BY PowerwordSame DEF Powerword!Suffix
  <2>2. <<Close("span"), Char>> \in Seq(Counted)
    BY LooseUnits
  <2>3. QED BY <2>1, <2>2, Nothing, CountedJoin
<1>3. u \in Seq(Marks)
  <2>1. ctx.marks \in Seq(Marks)
    BY ContextMarks DEF PowerwordAt
  <2> DEFINE marks == ctx.marks
  <2> HIDE DEF marks
  <2>2. marks \in Seq(Marks) /\ Len(marks) \in Nat
    BY <2>1 DEF marks
  <2>3. \A i \in 1..Len(marks) : Len(marks) - i + 1 \in 1..Len(marks)
    BY <2>2
  <2>4. \A i \in 1..Len(marks) : marks[Len(marks) - i + 1] \in Marks
    BY <2>2, <2>3
  <2>5. [i \in 1..Len(marks) |-> marks[Len(marks) - i + 1]] \in Seq(Marks)
    BY <2>2, <2>4
  <2>6. QED BY <2>5 DEF Powerword!Reverse, marks
<1> HIDE DEF u
<1>4. DOMAIN ss = DOMAIN u /\ ss = [i \in DOMAIN u |-> ss[i]] /\ \A i \in DOMAIN u : ss[i] = Powerword!CloseMark(u[i])
  OBVIOUS
<1>5. Powerword!Each(Powerword!CloseMark, u) = FlattenSeq(ss)
  BY PowerwordSame DEF Powerword!Each
<1> HIDE DEF ss
<1>6. Counted \in SUBSET Units
  BY LooseType
<1>7. FlattenSeq(ss) \in Seq(Counted)
  <2>1. \A i \in DOMAIN u : ss[i] \in Seq(Counted)
    BY <1>1, <1>4
  <2>2. QED BY <1>3, <1>4, <1>6, <2>1, EachFacts
<1>8. Powerword!Leftover = <<FlattenSeq(ss), ends>>
  BY <1>5 DEF Powerword!Leftover, u
<1>9. <<FlattenSeq(ss), ends>> \in Seq(Seq(Counted))
  <2> DEFINE A == Seq(Counted)
             x == FlattenSeq(ss)
  <2>1. x \in A /\ ends \in A
    BY <1>2, <1>7
  <2> HIDE DEF A, x, ends
  <2>2. <<x, ends>> \in Seq(A)
    BY <2>1
  <2>3. QED BY <2>2 DEF A, x
<1>10. QED BY <1>6, <1>8, <1>9, FlattenIn

LEMMA PowerwordAdd ==
    ASSUME Rows, Right, NEW u \in Seq(Counted), NEW to, Powerword!Add(u, to)
    PROVE  Rows' /\ Right' /\ p' = to /\ src' = src
<1>1. Write(u, xml_strlen(u), to)
  BY PowerwordSame DEF Powerword!Add
<1>2. u \in Seq(Loose) /\ xml_strlen(u) = Width(u)
  BY CountedFacts
<1>3. Rows' /\ Right'
  BY <1>1, <1>2, WriteKeeps
<1>4. QED BY <1>1, <1>3 DEF Write

\* Where the text of a transcription or of a link ends.
LEMMA PowerwordPart ==
    ASSUME PowerwordAt, ~Has("'"), p <= Len(src), src[p] \in Powerword!TextTokens
    PROVE  /\ Powerword!Beyond \in Nat \ {0}
           /\ Powerword!EscapedText(Tokens(p + 1, Powerword!TagEnd - 1)) \in Seq(Counted)
<1> DEFINE next == Powerword!TagEnd
           u == Tokens(p + 1, next - 1)
<1>1. /\ p + 1 \in Nat \ {0} /\ p + 1 \in Nat /\ p + 1 # 0
      /\ Len(src) \in Nat /\ src \in Seq(PowerwordTokens) /\ p \in DOMAIN src
  <2>1. p \in Nat \ {0} /\ Len(src) \in Nat /\ src \in Seq(PowerwordTokens)
    BY PowerwordTyped DEF PowerwordAt
  <2>2. p \in DOMAIN src
    BY <2>1
  <2>3. QED BY <2>1, <2>2
<1>2. next = Find({")", "end"}, p + 1)
  BY PowerwordSame DEF Powerword!TagEnd
<1>3. next \in 0..Len(src) /\ next # 0
  <2>1. PICK j \in (p + 1)..Len(src) : src[j] = "end"
    BY <1>1, SourcesAssumption DEF PowerwordAt
  <2>2. src[j] \in {")", "end"}
    BY <2>1
  <2>3. QED BY <1>1, <1>2, <2>2, FindFacts
<1>4. Powerword!Beyond \in {next, next + 1}
  BY DEF Powerword!Beyond
<1> HIDE DEF next
<1>5. u \in Seq(PowerwordTokens) /\ \A i \in 1..Len(u) : \E j \in DOMAIN src : u[i] = src[j]
  <2>1. next - 1 \in Int /\ next - 1 <= Len(src)
    BY <1>1, <1>3
  <2>2. QED BY <1>1, <2>1, TokensFacts
<1> HIDE DEF u
<1>6. \A i \in 1..Len(u) : u[i] # "'"
  BY <1>5 DEF Has
<1>7. Powerword!EscapedText(u) \in Seq(Counted)
  BY <1>5, <1>6, PowerwordText
<1>8. next \in Nat \ {0} /\ next + 1 \in Nat \ {0}
  BY <1>1, <1>3
<1>9. QED BY <1>4, <1>7, <1>8 DEF u, next

LEMMA PowerwordStep ==
    ASSUME PowerwordAt, Rows, Right, ~Has("'"), Powerword!powerword2link
    PROVE  Rows' /\ Right' /\ PowerwordAt'
<1>1. /\ p \in Nat /\ p \in Nat \ {0} /\ p + 1 \in Nat \ {0}
      /\ Len(src) \in Nat /\ src \in Seq(PowerwordTokens)
  BY PowerwordTyped DEF PowerwordAt
<1>2. ctx \in Context
  BY DEF PowerwordAt
<1>3. ASSUME NEW u \in Seq(Counted), NEW to \in Nat \ {0}, Powerword!Add(u, to), ctx' \in Context
      PROVE  Rows' /\ Right' /\ PowerwordAt'
  <2>1. Rows' /\ Right' /\ p' = to /\ src' = src
    BY <1>3, PowerwordAdd
  <2>2. QED BY <1>1, <1>3, <2>1 DEF PowerwordAt
<1>4. <<>> \in Seq(Counted)
  BY Nothing
<1>5. CASE Powerword!start_element
  <2>1. Powerword!Heading \in Seq(Counted)
    <3>1. <<Entity, Char, Entity>> \in Seq(Counted)
      BY ThreeCounted
    <3>2. Span(<<Entity, Char, Entity>>) \in Seq(Counted) /\ <<Char>> \in Seq(Counted)
      BY <3>1, CountedJoin
    <3>3. Powerword!Heading = <<Char>> \o Span(<<Entity, Char, Entity>>)
      BY PowerwordSame DEF Powerword!Heading
    <3>4. QED BY <3>2, <3>3, CountedJoin
  <2>2. CASE Powerword!Add(Powerword!Heading, p + 1) /\ UNCHANGED ctx
    BY <1>1, <1>2, <1>3, <2>1, <2>2
  <2>3. CASE /\ Powerword!Add(IF ctx.first THEN <<>> ELSE Powerword!Heading, p + 1)
             /\ ctx' = [ctx EXCEPT !.first = FALSE]
    <3>1. (IF ctx.first THEN <<>> ELSE Powerword!Heading) \in Seq(Counted)
      BY <1>4, <2>1
    <3>2. ctx' \in Context
      BY <1>2, <2>3 DEF Context
    <3>3. QED BY <1>1, <1>3, <2>3, <3>1, <3>2
  <2>4. QED BY <1>5, <2>2, <2>3 DEF Powerword!start_element
<1>6. CASE Powerword!passthrough
  <2>1. PICK kind_ \in Powerword!Kinds :
          \/ /\ Powerword!Add(Powerword!NewLine \o Powerword!Prefix(kind_), p + 1)
             /\ ctx' = [ctx EXCEPT !.elem = kind_, !.marks = <<>>, !.islink = FALSE]
          \/ Powerword!Add(<<>>, Find({"end"}, p) + 1) /\ UNCHANGED ctx
    BY <1>6, PowerwordSame DEF Powerword!passthrough
  <2>2. CASE /\ Powerword!Add(Powerword!NewLine \o Powerword!Prefix(kind_), p + 1)
             /\ ctx' = [ctx EXCEPT !.elem = kind_, !.marks = <<>>, !.islink = FALSE]
    <3>1. Powerword!NewLine \in Seq(Counted)
      <4>1. Powerword!NewLine \in {<<>>, <<Char>>}
        BY PowerwordSame DEF Powerword!NewLine
      <4>2. QED BY <1>4, <4>1, CountedJoin
    <3>2. Powerword!Prefix(kind_) \in Seq(Counted)
      <4>1. Powerword!Prefix(kind_) \in {<<>>, <<Open("b")>>, <<Open("span")>>, <<Char, Open("span")>>}
        BY PowerwordSame DEF Powerword!Prefix
      <4>2. <<Char, Open("span")>> \in Seq(Counted)
        BY LooseUnits
      <4>3. QED BY <1>4, <4>1, <4>2, CountedJoin
    <3>3. Powerword!NewLine \o Powerword!Prefix(kind_) \in Seq(Counted)
      BY <3>1, <3>2, CountedJoin
    <3>4. ctx' \in Context
      <4>1. <<>> \in Seq(Marks)
        OBVIOUS
      <4>2. QED BY <1>2, <2>2, <4>1 DEF Context
    <3>5. QED BY <1>1, <1>3, <2>2, <3>3, <3>4
  <2>3. CASE Powerword!Add(<<>>, Find({"end"}, p) + 1) /\ UNCHANGED ctx
    <3>1. Find({"end"}, p) \in 0..Len(src)
      BY <1>1, FindFacts
    <3>2. Find({"end"}, p) + 1 \in Nat \ {0}
      BY <1>1, <3>1
    <3>3. QED BY <1>2, <1>3, <1>4, <2>3, <3>2
  <2>4. QED BY <2>1, <2>2, <2>3
<1>7. CASE Powerword!escape
  <2>1. PICK t \in Powerword!TextTokens :
          Powerword!At(t) /\ Powerword!Add(Powerword!Escaped(t), p + 1) /\ UNCHANGED ctx
    BY <1>7 DEF Powerword!escape
  <2>2. t # "'"
    <3>1. p \in DOMAIN src
      BY <1>1, <2>1 DEF Powerword!At
    <3>2. QED BY <2>1, <3>1 DEF Powerword!At, Has
  <2>3. Powerword!Escaped(t) \in Seq(Counted)
    BY <2>2, PowerwordEscaped
  <2>4. QED BY <1>1, <1>2, <1>3, <2>1, <2>3
<1>8. CASE Powerword!end
  <2>1. /\ Powerword!Add(FlattenSeq(Powerword!Leftover), p + 1)
        /\ ctx' = [ctx EXCEPT !.elem = "", !.marks = <<>>]
    BY <1>8, PowerwordSame DEF Powerword!end
  <2>2. FlattenSeq(Powerword!Leftover) \in Seq(Counted)
    BY PowerwordLeftover
  <2>3. ctx' \in Context
    <3>1. <<>> \in Seq(Marks)
      OBVIOUS
    <3>2. QED BY <1>2, <2>1, <3>1 DEF Context
  <2>4. QED BY <1>1, <1>3, <2>1, <2>2, <2>3
<1>9. CASE Powerword!character
  <2>1. PICK t : /\ Powerword!Add(<<IF t = "c" THEN Char ELSE Entity>>, p + 1)
                 /\ ctx' = [ctx EXCEPT !.islink = FALSE]
    BY <1>9, PowerwordSame DEF Powerword!character
  <2>2. <<IF t = "c" THEN Char ELSE Entity>> \in Seq(Counted)
    BY CountedJoin
  <2>3. ctx' \in Context
    BY <1>2, <2>1 DEF Context
  <2>4. QED BY <1>1, <1>3, <2>1, <2>2, <2>3
<1>10. CASE Powerword!open_mark
  <2>1. PICK mark \in Marks : /\ Powerword!Add(IF mark = "b" THEN <<Open("b")>> ELSE <<>>, p + 1)
                              /\ ctx' = [ctx EXCEPT !.marks = Append(@, mark)]
    BY <1>10, PowerwordSame DEF Powerword!open_mark, Marks
  <2>2. (IF mark = "b" THEN <<Open("b")>> ELSE <<>>) \in Seq(Counted)
    BY <1>4, CountedJoin
  <2>3. ctx' \in Context
    <3>1. ctx.marks \in Seq(Marks)
      BY <1>2, ContextMarks
    <3>2. Append(ctx.marks, mark) \in Seq(Marks)
      BY <3>1
    <3>3. QED BY <1>2, <2>1, <3>2 DEF Context
  <2>4. QED BY <1>1, <1>3, <2>1, <2>2, <2>3
<1>11. CASE Powerword!close_mark
  <2> DEFINE shown == IF ctx.marks = <<>> THEN <<Char>> ELSE Powerword!CloseMark(Powerword!Last(ctx.marks))
             left == IF ctx.marks = <<>> THEN ctx.marks ELSE Powerword!Front(ctx.marks)
  <2>1. Powerword!Add(shown, p + 1) /\ ctx' = [ctx EXCEPT !.marks = left, !.islink = FALSE]
    BY <1>11, PowerwordSame DEF Powerword!close_mark
  <2>2. shown \in Seq(Counted)
    <3>1. shown \in {<<Char>>, <<>>, <<Close("b")>>}
      BY PowerwordSame DEF Powerword!CloseMark
    <3>2. QED BY <1>4, <3>1, CountedJoin
  <2>3. left \in Seq(Marks)
    <3>1. ctx.marks \in Seq(Marks)
      BY <1>2, ContextMarks
    <3> DEFINE marks == ctx.marks
    <3> HIDE DEF marks
    <3>2. marks \in Seq(Marks) /\ Len(marks) \in Nat
      BY <3>1 DEF marks
    <3>3. \A i \in 1..Len(marks) - 1 : marks[i] \in Marks
      BY <3>2
    <3>4. SubSeq(marks, 1, Len(marks) - 1) \in Seq(Marks)
      BY <3>2, <3>3, SubSeqProperties
    <3>5. QED BY <3>1, <3>4 DEF marks, Powerword!Front
  <2> HIDE DEF shown, left
  <2>4. ctx' \in Context
    BY <1>2, <2>1, <2>3 DEF Context
  <2>5. QED BY <1>1, <1>3, <2>1, <2>2, <2>4
<1>12. CASE Powerword!transcription
  <2> DEFINE text == Powerword!EscapedText(Tokens(p + 1, Powerword!TagEnd - 1))
  <2>1. Powerword!Add(Span(text), Powerword!Beyond) /\ ctx' = [ctx EXCEPT !.islink = FALSE]
    BY <1>12, PowerwordSame DEF Powerword!transcription
  <2>2. text \in Seq(Counted) /\ Powerword!Beyond \in Nat \ {0}
    <3>1. p <= Len(src) /\ src[p] \in Powerword!TextTokens
      BY <1>12 DEF Powerword!transcription, Powerword!InText, Powerword!At, Powerword!TextTokens
    <3>2. QED BY <3>1, PowerwordPart
  <2> HIDE DEF text
  <2>3. Span(text) \in Seq(Counted)
    BY <2>2, CountedJoin
  <2>4. ctx' \in Context
    BY <1>2, <2>1 DEF Context
  <2>5. QED BY <1>3, <2>1, <2>2, <2>3, <2>4
<1>13. CASE Powerword!link
  <2> DEFINE text == Powerword!EscapedText(Tokens(p + 1, Powerword!TagEnd - 1))
             tab == IF ctx.islink THEN <<Char>> ELSE <<>>
             to == Powerword!Beyond
  <2>1. WriteLink(tab, text, xml_strlen(text), to) /\ ctx' = [ctx EXCEPT !.islink = TRUE]
    BY <1>13, PowerwordSame DEF Powerword!link
  <2>2. text \in Seq(Counted) /\ to \in Nat \ {0}
    <3>1. p <= Len(src) /\ src[p] \in Powerword!TextTokens
      BY <1>13 DEF Powerword!link, Powerword!InText, Powerword!At, Powerword!TextTokens
    <3>2. QED BY <3>1, PowerwordPart
  <2>3. tab \in Seq(Counted)
    BY <1>4, CountedJoin
  <2> HIDE DEF text, tab, to
  <2>4. text \in Seq(Loose) /\ xml_strlen(text) = Width(text) /\ tab \in Seq(Loose) /\ xml_strlen(tab) = Width(tab)
    BY <2>2, <2>3, CountedFacts
  <2>5. Rows' /\ Right'
    BY <2>1, <2>4, LinkKeeps
  <2>6. ctx' \in Context
    BY <1>2, <2>1 DEF Context
  <2>7. p' = to /\ src' = src
    BY <2>1 DEF WriteLink
  <2>8. QED BY <1>1, <2>2, <2>5, <2>6, <2>7 DEF PowerwordAt
<1>14. CASE Powerword!finish
  <2>1. Finish(<<>>) /\ UNCHANGED ctx
    BY <1>14, PowerwordSame DEF Powerword!finish
  <2>2. Rows' /\ res' = res /\ cur_pos' = cur_pos
    BY <2>1, Nothing, FinishKeeps
  <2>3. p' = p /\ src' = src /\ ctx' = ctx
    BY <2>1 DEF Finish
  <2>4. QED BY <2>2, <2>3 DEF Right, PowerwordAt
<1>15. QED
  BY <1>5, <1>6, <1>7, <1>8, <1>9, <1>10, <1>11, <1>12, <1>13, <1>14 DEF Powerword!powerword2link

-----------------------------------------------------------------------------
(* All plugins.                                                            *)

\* An article is not changed while it is parsed.
LEMMA HtmlSource == ASSUME Html!html2result PROVE src' = src
<1>1. ASSUME NEW u, NEW n, NEW to, Html!Write(u, n, to) PROVE src' = src
  BY <1>1 DEF Html!Write
<1>2. ASSUME NEW l, NEW u, NEW n, NEW to, Html!WriteLink(l, u, n, to) PROVE src' = src
  BY <1>2 DEF Html!WriteLink
<1>3. ASSUME NEW to, Html!WriteResource(to) PROVE src' = src
  BY <1>3 DEF Html!WriteResource
<1>4. ASSUME NEW u, Html!Finish(u) PROVE src' = src
  BY <1>4 DEF Html!Finish
<1>5. QED
  BY <1>1, <1>2, <1>3, <1>4
  DEF Html!html2result, Html!chunk, Html!replace, Html!font, Html!a_href, Html!ref, Html!img,
      Html!other, Html!tail

LEMMA XdxfSource == ASSUME Xdxf!xdxf2result PROVE src' = src
<1>1. ASSUME NEW u, NEW n, NEW to, Xdxf!Write(u, n, to) PROVE src' = src
  BY <1>1 DEF Xdxf!Write
<1>2. ASSUME NEW l, NEW u, NEW n, NEW to, Xdxf!WriteLink(l, u, n, to) PROVE src' = src
  BY <1>2 DEF Xdxf!WriteLink
<1>3. ASSUME NEW to, Xdxf!WriteResource(to) PROVE src' = src
  BY <1>3 DEF Xdxf!WriteResource
<1>4. ASSUME NEW u, Xdxf!Finish(u) PROVE src' = src
  BY <1>4 DEF Xdxf!Finish
<1>5. QED
  BY <1>1, <1>2, <1>3, <1>4
  DEF Xdxf!xdxf2result, Xdxf!k, Xdxf!chunk, Xdxf!replace, Xdxf!c, Xdxf!rref, Xdxf!kref,
      Xdxf!other, Xdxf!tail

LEMMA PowerwordSource == ASSUME Powerword!powerword2link PROVE src' = src
<1>1. ASSUME NEW u, NEW to, Powerword!Add(u, to) PROVE src' = src
  BY <1>1 DEF Powerword!Add, Powerword!Write
<1>2. ASSUME NEW l, NEW u, NEW n, NEW to, Powerword!WriteLink(l, u, n, to) PROVE src' = src
  BY <1>2 DEF Powerword!WriteLink
<1>3. ASSUME NEW u, Powerword!Finish(u) PROVE src' = src
  BY <1>3 DEF Powerword!Finish
<1>4. QED
  BY <1>1, <1>2, <1>3
  DEF Powerword!powerword2link, Powerword!start_element, Powerword!passthrough, Powerword!escape,
      Powerword!end, Powerword!character, Powerword!open_mark, Powerword!close_mark,
      Powerword!transcription, Powerword!link, Powerword!finish

\* Every item fits its links, and the position is that of what was written; what it
\* takes for that, plugin by plugin.
Placed ==
    /\ kind = "h" => HtmlAt /\ HtmlRight
    /\ kind = "x" => XdxfAt /\ Rows /\ Right
    /\ kind = "k" => PowerwordAt /\ Rows /\ Right
    /\ kind \in {"w", "W"} => Rows
ParseInv == kind \in {"h", "x", "k", "w", "W"} /\ (Countable => Placed)

LEMMA ParseInit == Init => ParseInv
<1> SUFFICES ASSUME Init PROVE ParseInv
  OBVIOUS
<1>1. p = 1 /\ res = <<>> /\ cur_pos = 0 /\ links_list = <<>> /\ item_list = <<>>
  BY DEF Init, Start
<1>2. kind \in {"h", "x", "k", "w", "W"}
  BY DEF Init
<1>3. /\ kind = "h" => src \in HtmlSources
      /\ kind = "x" => src \in XdxfSources
      /\ kind = "k" => src \in PowerwordSources
  BY DEF Init, Start
<1>4. Rows /\ Right
  <2>1. item_list \in Seq(Items)
    BY <1>1
  <2>2. QED BY <1>1, <2>1, FitsEmpty, NoUnits DEF Rows, Right
<1>5. kind = "h" => HtmlAt
  BY <1>1, <1>3, SourcesAssumption DEF HtmlAt, HtmlTokens
<1>6. kind = "x" => XdxfAt
  BY <1>1, <1>3, SourcesAssumption DEF XdxfAt, XdxfTokens
<1>7. kind = "k" => PowerwordAt
  <2>1. ctx \in Context
    <3>1. <<>> \in Seq(Marks)
      OBVIOUS
    <3>2. ctx = [first |-> TRUE, elem |-> "", marks |-> <<>>, islink |-> FALSE]
      BY DEF Init, Start
    <3>3. QED BY <3>1, <3>2 DEF Context
  <2>2. QED BY <1>1, <1>3, <2>1 DEF PowerwordAt
<1>8. QED BY <1>2, <1>4, <1>5, <1>6, <1>7 DEF ParseInv, Placed, HtmlRight

LEMMA ParseStep == ParseInv /\ [Next]_vars => ParseInv'
<1> SUFFICES ASSUME ParseInv, [Next]_vars PROVE ParseInv'
  OBVIOUS
<1> USE DEF ParseInv
<1>1. CASE html
  <2>1. kind = "h" /\ kind' = kind /\ Html!html2result
    BY <1>1 DEF html
  <2>2. src' = src
    BY <2>1, HtmlSource
  <2>3. Countable' <=> Countable
    BY <2>1, <2>2 DEF Countable, Has
  <2>4. ASSUME Countable PROVE Placed'
    <3>1. HtmlAt /\ HtmlRight /\ ~Has("&#0")
      BY <2>1, <2>4 DEF Placed, Countable
    <3>2. HtmlRight' /\ p' \in Nat \ {0}
      BY <2>1, <3>1, HtmlStep
    <3>3. HtmlAt'
      BY <2>2, <3>1, <3>2 DEF HtmlAt
    <3>4. QED BY <2>1, <3>2, <3>3 DEF Placed
  <2>5. QED BY <2>1, <2>3, <2>4
<1>2. CASE xdxf
  <2>1. kind = "x" /\ kind' = kind /\ Xdxf!xdxf2result
    BY <1>2 DEF xdxf
  <2>2. src' = src
    BY <2>1, XdxfSource
  <2>3. Countable' <=> Countable
    BY <2>1, <2>2 DEF Countable, Has
  <2>4. ASSUME Countable PROVE Placed'
    <3>1. XdxfAt /\ Rows /\ Right /\ ~Has("&#n")
      BY <2>1, <2>4 DEF Placed, Countable
    <3>2. Rows' /\ Right' /\ p' \in Nat \ {0}
      BY <2>1, <3>1, XdxfStep
    <3>3. XdxfAt'
      BY <2>2, <3>1, <3>2 DEF XdxfAt
    <3>4. QED BY <2>1, <3>2, <3>3 DEF Placed
  <2>5. QED BY <2>1, <2>3, <2>4
<1>3. CASE powerword
  <2>1. kind = "k" /\ kind' = kind /\ Powerword!powerword2link
    BY <1>3 DEF powerword
  <2>2. src' = src
    BY <2>1, PowerwordSource
  <2>3. Countable' <=> Countable
    BY <2>1, <2>2 DEF Countable, Has
  <2>4. ASSUME Countable PROVE Placed'
    <3>1. PowerwordAt /\ Rows /\ Right /\ ~Has("'")
      BY <2>1, <2>4 DEF Placed, Countable
    <3>2. Rows' /\ Right' /\ PowerwordAt'
      BY <2>1, <3>1, PowerwordStep
    <3>3. QED BY <2>1, <3>2 DEF Placed
  <2>5. QED BY <2>1, <2>3, <2>4
<1>4. CASE wiki \/ wikihtml \/ UNCHANGED vars
  <2>1. UNCHANGED <<kind, src, p, res, cur_pos, links_list, item_list, done, ctx>>
    BY <1>4 DEF wiki, wikihtml, vars, tokens
  <2>2. Countable' <=> Countable
    BY <2>1 DEF Countable, Has
  <2>3. Rows' <=> Rows
    BY <2>1 DEF Rows
  <2>4. Right' <=> Right
    BY <2>1 DEF Right
  <2>5. Find(Html!Tags, p)' = Find(Html!Tags, p)
    BY <2>1 DEF Find, SelectInSubSeq, Html!Tags, Html!Closing
  <2>6. (HtmlAt' <=> HtmlAt) /\ (XdxfAt' <=> XdxfAt) /\ (PowerwordAt' <=> PowerwordAt)
    BY <2>1 DEF HtmlAt, XdxfAt, PowerwordAt
  <2>7. HtmlRight' <=> HtmlRight
    BY <2>3, <2>4, <2>5 DEF HtmlRight
  <2>8. Placed' <=> Placed
    BY <2>1, <2>3, <2>4, <2>6, <2>7 DEF Placed
  <2>9. QED BY <2>1, <2>2, <2>8
<1>5. QED BY <1>1, <1>2, <1>3, <1>4 DEF Next

\* An item that fits its links has them in place.
LEMMA ItemInPlace ==
    ASSUME NEW item \in Items
    PROVE  InPlace(item)
<1>1. Fits(item.pango, item.links_list)
  BY DEF Items
<1>2. DOMAIN item.links_list = 1..Len(item.links_list)
  BY <1>1 DEF Fits
<1>3. QED BY <1>1, <1>2 DEF Fits, InPlace

LEMMA ParseImplies == ParseInv => LinksInPlace
<1> SUFFICES ASSUME ParseInv, Countable
             PROVE  /\ \A i \in DOMAIN item_list : InPlace(item_list[i])
                    /\ InPlace(Item(res))
  BY DEF LinksInPlace
<1>1. Rows
  BY DEF ParseInv, Placed, HtmlRight
<1>2. Item(res) \in Items
  BY <1>1, Nothing, ItemKept
<1>3. \A i \in DOMAIN item_list : item_list[i] \in Items
  BY <1>1 DEF Rows
<1>4. QED BY <1>2, <1>3, ItemInPlace

\* In the items of every plugin, for every article, each link covers the text that
\* was written for it: the positions a plugin counts are those of what is shown,
\* but for the references that Countable names.
THEOREM LinksStayInPlace == Spec => []LinksInPlace
<1>1. Init => ParseInv
  BY ParseInit
<1>2. ParseInv /\ [Next]_vars => ParseInv'
  BY ParseStep
<1>3. ParseInv => LinksInPlace
  BY ParseImplies
<1>4. QED BY <1>1, <1>2, <1>3, PTL DEF Spec
=============================================================================
