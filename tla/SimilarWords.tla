---------------------------- MODULE SimilarWords ----------------------------
(***************************************************************************)
(* The words that are tried in place of one a dictionary does not have     *)
(* (Libs::LookupSimilarWord and LookupSynonymSimilarWord in                *)
(* lib/stddict.cpp): the word in other cases, and what may be its stem if  *)
(* it is English.  Words are sequences of bytes; only the case of ASCII    *)
(* letters is looked at.                                                   *)
(***************************************************************************)
EXTENDS Integers, Sequences, SequencesExt, FiniteSetsExt

IsUpper(c) == c \in 65..90
Down(c) == IF IsUpper(c) THEN c + 32 ELSE c
Up(c) == IF c \in 97..122 THEN c - 32 ELSE c
Lower(w) == [k \in DOMAIN w |-> Down(w[k])]
Upper(w) == [k \in DOMAIN w |-> Up(w[k])]
Title(w) == [k \in DOMAIN w |-> IF k = 1 THEN Up(w[k]) ELSE Down(w[k])]

bIsVowel(c) == Up(c) \in {65, 69, 73, 79, 85}
bIsPureEnglish(w) == \A k \in DOMAIN w : w[k] < 128

\* In lower case, in upper case, and with only the first letter in upper case.
CaseForms(w) == SelectSeq(<<Lower(w), Upper(w), Title(w)>>, LAMBDA v : v # w)

-----------------------------------------------------------------------------
s_ == <<115>>  d_ == <<100>>  y_ == <<121>>  e_ == <<101>>
ly == <<108, 121>>  ing == <<105, 110, 103>>  es == <<101, 115>>  ed == <<101, 100>>
ied == <<105, 101, 100>>  ies == <<105, 101, 115>>  er == <<101, 114>>
est == <<101, 115, 116>>
Sibilants == {<<115>>, <<120>>, <<111>>, <<99, 104>>, <<115, 104>>}

\* A suffix counts if all of it is in lower case or all of it in upper case.
Capital(w, t) == IsSuffix(Upper(t), w)
Ends(w, t) == IsSuffix(t, w) \/ Capital(w, t)

Cut(w, t) == SubSeq(w, 1, Len(w) - Len(t))
With(up, t) == IF up THEN Upper(t) ELSE t

\* A stem and, if the suffix or the first letter was in upper case, the stem in
\* lower case.
Tried(w, up, stem) ==
    <<stem>> \o IF (up \/ IsUpper(w[1])) /\ Lower(stem) # stem THEN <<Lower(stem)>> ELSE <<>>

\* The stem of a word that doubles its last consonant is tried first.
Doubled(stem) ==
    LET n == Len(stem)
    IN  n > 3 /\ stem[n] = stem[n - 1] /\ ~bIsVowel(stem[n]) /\ bIsVowel(stem[n - 2])

\* Mutant of Suffix: the doubled consonant that was cut is not put back.
SuffixShort(w, t, CanDouble, ending) ==
    LET up == Capital(w, t)
        stem == IF CanDouble /\ Doubled(Cut(w, t)) THEN Front(Cut(w, t)) ELSE Cut(w, t)
    IN  IF ~(Ends(w, t) /\ Len(stem) > 0) THEN <<>>
        ELSE Tried(w, up, stem)
             \o IF ending # <<>> THEN Tried(w, up, stem \o With(up, ending)) ELSE <<>>

\* What is tried for a suffix: the stem, before it a shorter one, after it one
\* with another ending.
Suffix(w, t, CanDouble, ending) ==
    LET up == Capital(w, t)
        stem == Cut(w, t)
    IN  IF ~(Ends(w, t) /\ Len(stem) > 0) THEN <<>>
        ELSE (IF CanDouble /\ Doubled(stem) THEN Tried(w, up, Front(stem)) ELSE <<>>)
             \o Tried(w, up, stem)
             \o IF ending # <<>> THEN Tried(w, up, stem \o With(up, ending)) ELSE <<>>

\* For -ied and -ies only the stem with its y.
Replaced(w, t, ending) ==
    IF Ends(w, t) /\ Len(w) > 3
    THEN Tried(w, Capital(w, t), Cut(w, t) \o With(Capital(w, t), ending)) ELSE <<>>

\* All that is tried, in this order.
StemForms(w) ==
    LET Long == Len(w) > 3
        cutES == \E x \in Sibilants :
                    /\ Long /\ Len(w) > Len(x) + 2
                    /\ \/ IsSuffix(x \o es, w)
                       \/ IsSuffix(Upper(x \o es), w)
        up == w[Len(w)] = 83 \/ Capital(w, ed)
    IN  IF ~bIsPureEnglish(w) THEN <<>>
        ELSE (IF Len(w) > 1 /\ (Ends(w, s_) \/ Ends(w, ed)) THEN Tried(w, up, Cut(w, s_))
              ELSE <<>>)
             \o Suffix(w, ly, TRUE, <<>>)
             \o Suffix(w, ing, TRUE, e_)
             \o (IF cutES THEN Tried(w, Capital(w, es), Cut(w, es)) ELSE <<>>)
             \o (IF Long THEN Suffix(w, ed, TRUE, <<>>) ELSE <<>>)
             \o Replaced(w, ied, y_)
             \o Replaced(w, ies, y_)
             \o Suffix(w, er, FALSE, <<>>)
             \o Suffix(w, est, FALSE, <<>>)

-----------------------------------------------------------------------------
\* For the properties: the inflected forms of an English word, as a grammar has
\* them, of which the code undoes what it can.
Inflected(v) ==
    LET last == v[Len(v)]
        Double(t) == IF Len(v) > 2 /\ ~bIsVowel(last) /\ bIsVowel(v[Len(v) - 1])
                     THEN {v \o <<last>> \o t} ELSE {}
        WithoutE == IF last = 101 THEN {Front(v) \o ing} ELSE {}
        Ied == IF last = 121 /\ Len(v) > 1 THEN {Front(v) \o ied, Front(v) \o ies} ELSE {}
        Es == IF \E x \in Sibilants : IsSuffix(x, v) THEN {v \o es} ELSE {}
        D == IF last = 101 THEN {v \o d_} ELSE {}
    IN  {v \o s_, v \o ly, v \o ing, v \o er, v \o ed, v \o est}
        \cup Double(ly) \cup Double(ing) \cup Double(ed)
        \cup WithoutE \cup Ied \cup Es \cup D
=============================================================================
