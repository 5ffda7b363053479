----------------------------- MODULE Collation -----------------------------
(***************************************************************************)
(* The orders in which stardict can sort a dictionary (lib/collation.cpp   *)
(* and the charset files lib/ctype-mb.cpp, ctype-utf8.cpp, ctype-uca.cpp). *)
(*                                                                         *)
(* A word is a sequence of bytes.  utf8_bin compares the bytes,            *)
(* utf8_general_ci one sort value per character, and the other orders the  *)
(* weights of the characters: those of the Unicode Collation Algorithm     *)
(* after the rules of a language, its tailoring, have been worked in.  A   *)
(* comparison is given by its sign, which is all its callers look at.      *)
(*                                                                         *)
(* A table has a width for every page of 256 characters and, for a page    *)
(* that it has at all, width weights per character, padded with zeros.     *)
(***************************************************************************)
EXTENDS Languages, FiniteSetsExt

CONSTANTS
    uca_length,     \* the width of a page
    uca_weight,     \* the default weights of a character, of its page's width
    Sort,           \* the sort value of a character (my_unicase_default)
    Alphabet,       \* the letters of a language, as its speakers order them
    Sample,         \* words to compare
    MY_MAX_COLL_RULE

ASSUME WidthAssumption ==
    \A c \in DOMAIN uca_weight :
        /\ c \div 256 \in DOMAIN uca_length
        /\ Len(uca_weight[c]) = uca_length[c \div 256]
        \* a scan of the weights stops inside those of the character
        /\ uca_weight[c][Len(uca_weight[c])] = 0

Sign(n) == IF n > 0 THEN 1 ELSE IF n < 0 THEN -1 ELSE 0

\* Two sequences of numbers by their first difference; the end of one, which
\* reads as -1, comes before anything.
At(a, k) == IF k <= Len(a) THEN a[k] ELSE -1
LexCmp(a, b) ==
    LET Differ == {k \in 1..Max({Len(a), Len(b)}) : At(a, k) # At(b, k)}
    IN  IF Differ = {} THEN 0 ELSE Sign(At(a, Min(Differ)) - At(b, Min(Differ)))

From(s, i) == SubSeq(s, i, Len(s))

-----------------------------------------------------------------------------
(* Characters.                                                             *)

Continues(b) == b \in 128..191

\* One character at s[i]: its length, or 0 where the bytes are not UTF-8 and
\* less than that where the text ends first.  Of four bytes and more none is
\* read: UNICODE_32BIT is not defined.
my_utf8_uni(s, i) ==
    LET left == Len(s) - i + 1
        Need == IF s[i] < 224 THEN 2 ELSE 3
        Low(k) == s[i + k] - 128
    IN  IF left <= 0 THEN [len |-> -1, wc |-> 0]
        ELSE IF s[i] < 128 THEN [len |-> 1, wc |-> s[i]]
        ELSE IF s[i] \notin 194..239 THEN [len |-> 0, wc |-> 0]
        ELSE IF left < Need THEN [len |-> -Need, wc |-> 0]
        ELSE IF (\E k \in 1..Need - 1 : ~Continues(s[i + k]))
                \/ (s[i] = 224 /\ s[i + 1] < 160)
             THEN [len |-> 0, wc |-> 0]
        ELSE IF Need = 2 THEN [len |-> 2, wc |-> (s[i] - 192) * 64 + Low(1)]
        ELSE [len |-> 3, wc |-> (s[i] - 224) * 4096 + Low(1) * 64 + Low(2)]

my_strnncoll_mb_bin(s, t) == LexCmp(s, t)

my_strnncoll_utf8(s, t) ==
    LET loop[i \in 1..Len(s) + 1, j \in 1..Len(t) + 1] ==
            LET u == my_utf8_uni(s, i)
                v == my_utf8_uni(t, j)
            IN  IF i > Len(s) \/ j > Len(t)
                THEN Sign((Len(s) - i) - (Len(t) - j))
                ELSE IF u.len <= 0 \/ v.len <= 0 THEN LexCmp(From(s, i), From(t, j))
                ELSE IF Sort[u.wc] # Sort[v.wc] THEN Sign(Sort[u.wc] - Sort[v.wc])
                ELSE loop[i + u.len, j + v.len]
    IN  loop[1, 1]

-----------------------------------------------------------------------------
(* The rules of a language, from their text.                               *)

NoBase == -1
IsLetter(c) == c \in 65..90 \cup 97..122

\* One lexem at or after position i: what it is, its diff or code, and where
\* the next one may start.
my_coll_lexem_next(text, i) ==
    LET Solid == {p \in i..Len(text) : text[p] \notin {32, 9, 13, 10}}
        p == Min(Solid)
        Less == Max({n \in 1..3 : p + n - 1 <= Len(text)
                                  /\ \A k \in 0..n - 1 : text[p + k] = 60})
    IN  IF Solid = {} THEN [num |-> "eof", val |-> 0, next |-> Len(text) + 1]
        ELSE IF text[p] = 38 THEN [num |-> "shift", val |-> 0, next |-> p + 1]
        ELSE IF text[p] = 60 THEN [num |-> "diff", val |-> Less, next |-> p + Less]
        ELSE IF IsLetter(text[p]) THEN [num |-> "char", val |-> text[p], next |-> p + 1]
        ELSE IF text[p] >= Escape
             THEN [num |-> "char", val |-> text[p] - Escape, next |-> p + 1]
        ELSE [num |-> "error", val |-> 0, next |-> p]

\* Mutant of Step: a smaller difference moves a letter as far as a great one.
StepFirst(diff, d) == <<diff[1] + 1, 0, 0>>

\* What a diff command adds to the differences from the base: a greater one
\* starts the smaller ones anew.
Step(diff, d) ==
    IF d = 3 THEN [diff EXCEPT ![3] = @ + 1]
    ELSE IF d = 2 THEN <<diff[1], diff[2] + 1, 0>>
    ELSE <<diff[1] + 1, 0, 0>>

\* One command of the rules, of its sign and the two lexems after it: a shift gives
\* a base and a diff command a rule, for one character or two that are sorted as one.
Command(at, lex, first, second) ==
    LET Pair == second.num = "char"
        diff == Step(at.diff, lex.val)
        rule == [base |-> at.base, diff |-> diff,
                 curr |-> IF Pair THEN <<first.val, second.val>> ELSE <<first.val>>]
    IN  IF at.end # "none" THEN at
        ELSE IF lex.num = "eof" THEN [at EXCEPT !.end = "ok"]
        ELSE IF \/ lex.num \notin {"shift", "diff"}
                \/ lex.num = "diff" /\ at.base = NoBase
                \/ first.num \notin {"char", "eof"}
             THEN [at EXCEPT !.end = "error"]
        ELSE IF first.num = "eof" THEN [at EXCEPT !.end = "ok"]
        ELSE IF lex.num = "shift"
             THEN [at EXCEPT !.next = first.next, !.base = first.val, !.diff = <<0, 0, 0>>]
        ELSE IF Len(at.rules) >= MY_MAX_COLL_RULE THEN [at EXCEPT !.end = "error"]
        ELSE [at EXCEPT !.next = IF Pair THEN second.next ELSE first.next,
                        !.diff = diff, !.rules = Append(@, rule)]

\* The command that begins where the last one ended.
NextCommand(text, at) ==
    LET lex == my_coll_lexem_next(text, at.next)
        first == my_coll_lexem_next(text, lex.next)
    IN  Command(at, lex, first, my_coll_lexem_next(text, first.next))

Parsed(at) == [ok |-> at.end = "ok", rules |-> at.rules]

\* The rules of a text: every command begins with its sign.
my_coll_rule_parse(text) ==
    LET Signs == {p \in DOMAIN text : \/ text[p] = 38
                                      \/ text[p] = 60 /\ (p > 1 => text[p - 1] # 60)}
        after[n \in 0..Cardinality(Signs) + 1] ==
            IF n = 0
            THEN [next |-> 1, base |-> NoBase, diff |-> <<0, 0, 0>>, rules |-> <<>>,
                  end |-> "none"]
            ELSE NextCommand(text, after[n - 1])
    IN  Parsed(after[Cardinality(Signs) + 1])

RulesOf(func) == my_coll_rule_parse(Tailoring[func])

-----------------------------------------------------------------------------
(* The weights of a language.                                              *)

\* A page without weights, a null pointer in uca_weight, has no width here.
HasPage(p) == p \in DOMAIN uca_length
Pad(w, n) == [k \in 1..n |-> IF k <= Len(w) THEN w[k] ELSE 0]
Simple(rules) == SelectSeq(rules, LAMBDA r : Len(r.curr) = 1)
Contracted(rules) == SelectSeq(rules, LAMBDA r : Len(r.curr) = 2)

\* A page is as wide as the widest page a rule takes weights from for it.
NewLengths(rules) ==
    [p \in DOMAIN uca_length |->
        Max({uca_length[p]} \cup
            {uca_length[r.base \div 256] :
                r \in {q \in ToSet(Simple(rules)) : q.curr[1] \div 256 = p}})]

\* The default weights of the base, the first of them made greater by the
\* primary difference.
Shifted(r) == [uca_weight[r.base] EXCEPT ![1] = (@ + r.diff[1]) % 65536]

\* The table of the language: a later rule for a character replaces an earlier.
Weights(rules) ==
    LET len == NewLengths(rules)
        plain == [c \in DOMAIN uca_weight |-> Pad(uca_weight[c], len[c \div 256])]
    IN  FoldLeft(LAMBDA w, r : [w EXCEPT ![r.curr[1]] =
                     Pad(Shifted(r), len[r.curr[1] \div 256])],
                 plain, Simple(rules))

\* The pairs that are sorted as one: only of the codes from '@' to 127, and
\* only with a base of one weight.
Contractible(r) == r.curr[1] \in 64..127 /\ r.curr[2] \in 64..127
                   /\ uca_weight[r.base][2] = 0
Contractions(rules) ==
    [p \in {r.curr : r \in ToSet(Contracted(rules))} |->
        LET Latest == Max({k \in DOMAIN rules : rules[k].curr = p})
        IN  Shifted(rules[Latest])[1]]

\* The charset of a language; one that cannot be made has no weights, and
\* utf8_collate_init says so.
Tailored(parsed) ==
    IF ~parsed.ok \/ \E r \in ToSet(Contracted(parsed.rules)) : ~Contractible(r)
    THEN [coll |-> "none", weight |-> <<>>, contractions |-> <<>>]
    ELSE [coll |-> "uca", weight |-> Weights(parsed.rules),
          contractions |-> Contractions(parsed.rules)]
create_tailoring(func) == Tailored(RulesOf(func))

-----------------------------------------------------------------------------
(* Comparing by weights.                                                   *)

\* A character of a page without weights has two made from its code.
Implicit(wc) ==
    LET Base == IF wc \in 13312..19893 THEN 64384       \* 3400..4DB5, FB80
                ELSE IF wc \in 19968..40869 THEN 64320  \* 4E00..9FA5, FB40
                ELSE 64448                               \* FBC0
    IN  <<Base + wc \div 32768, 32768 + (wc % 32768)>>

\* The weights of one character: none for one that is ignored.
WeightsOf(weight, wc) ==
    IF HasPage(wc \div 256)
    THEN SubSeq(weight[wc], 1, Min({k \in DOMAIN weight[wc] : weight[wc][k] = 0}) - 1)
    ELSE Implicit(wc)

\* Everything my_uca_scanner_next_any returns before the end of the text, or
\* before what is not UTF-8.  Where the second character of a pair is not, wc
\* still holds the first.
Scan(cs, s) ==
    LET next[i \in 1..Len(s) + 1] ==
            LET u == my_utf8_uni(s, i)
                v == my_utf8_uni(s, i + u.len)
                pair == <<u.wc, IF v.len > 0 THEN v.wc ELSE u.wc>>
            IN  IF u.len <= 0 THEN <<>>
                ELSE IF /\ v.len >= 0
                        /\ pair \in DOMAIN cs.contractions
                        /\ pair[1] # 64 /\ pair[2] # 64
                     THEN <<cs.contractions[pair]>> \o next[i + u.len + v.len]
                ELSE WeightsOf(cs.weight, u.wc) \o next[i + u.len]
    IN  next[1]

my_strnncoll_uca(cs, s, t) == LexCmp(Scan(cs, s), Scan(cs, t))

\* get_cs, with what utf8_collate_init makes of it.
get_cs(func) ==
    IF func \in DOMAIN Tailoring THEN create_tailoring(func)
    ELSE [coll |-> IF func = "utf8_bin" THEN "bin" ELSE "ci",
          weight |-> <<>>, contractions |-> <<>>]

utf8_collate(cs, s, t) ==
    CASE cs.coll = "bin" -> my_strnncoll_mb_bin(s, t)
      [] cs.coll = "ci"  -> my_strnncoll_utf8(s, t)
      [] cs.coll = "uca" -> my_strnncoll_uca(cs, s, t)

\* What utf8_collate calls equal is told apart by its bytes.
OrElse(x, y) == IF x = 0 THEN y ELSE x
stardict_collate(cs, s, t) == OrElse(utf8_collate(cs, s, t), LexCmp(s, t))

-----------------------------------------------------------------------------
\* Whether an order can be made and puts the letters of an alphabet where its
\* speakers look for them: the forms of a letter in one place, before those of
\* the next.
InAlphabet(cs, letters) ==
    /\ cs.coll # "none"
    /\ \A k \in DOMAIN letters : \A s \in letters[k] :
        /\ \A t \in letters[k] : utf8_collate(cs, s, t) = 0
        /\ k < Len(letters) => \A t \in letters[k + 1] :
               utf8_collate(cs, s, t) < 0 /\ utf8_collate(cs, t, s) > 0
Alphabetic == [f \in DOMAIN Alphabet |-> InAlphabet(get_cs(f), Alphabet[f])]

\* Whether a table of comparisons is a total order.
TotalOn(S, cmp) ==
    \A s, t \in S :
        /\ cmp[s][t] \in {-1, 0, 1}
        /\ cmp[s][t] = -cmp[t][s]
        /\ cmp[s][t] = 0 <=> s = t
        /\ \A u \in S : cmp[s][t] < 0 /\ cmp[t][u] < 0 => cmp[s][u] < 0

\* Whether stardict_collate is one.
Total ==
    [f \in DOMAIN Sample |->
        LET cs == get_cs(f)
        IN  TotalOn(Sample[f],
                    [s \in Sample[f] |-> [t \in Sample[f] |-> stardict_collate(cs, s, t)]])]
=============================================================================
