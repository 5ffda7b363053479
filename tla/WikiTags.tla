------------------------------ MODULE WikiTags ------------------------------
(***************************************************************************)
(* The wiki plugin, before it looks at lines (WIKI2XML::init): it lists    *)
(* the HTML tags of the text by their places, writing any other "<" or ">" *)
(* as an entity, and then does so for the tags it does not allow, while it *)
(* keeps the places of all of them up to date.                             *)
(*                                                                         *)
(* The text is a sequence of characters: "<", ">", "!", the quote "q", "b" *)
(* (the name of a tag that is allowed), "x" and the characters of the      *)
(* entities that are written.                                              *)
(***************************************************************************)
EXTENDS Integers, Sequences, SequencesExt, FiniteSets

VARIABLES
    s, a,            \* the text, and the place to look at next
    taglist,         \* the tags: [from, to, name]
    evil             \* remove_evil_html: the tag to look at next, 0 before

vars == <<s, a, taglist, evil>>

AllowedHtml == {<<"b">>}

Gt == <<"&", "g", "t", ";">>
Lt == <<"&", "l", "t", ";">>

\* The first one that is not between two quotes, 0 for none.
find_next_unquoted(c, text, start) ==
    SelectInSubSeq([i \in DOMAIN text |->
                        text[i] = c /\ Cardinality({j \in start..(i - 1) : text[j] = "q"}) % 2 = 0],
                   start, Len(text), LAMBDA x : x)

replace_part(text, from, to, with) ==
    SubSeq(text, 1, from - 1) \o with \o SubSeq(text, to + 1, Len(text))

\* TXML: in a comment "<" and ">" become entities, and the tag grows with them.
IsComment(text, from, to) == from + 1 < to /\ text[from + 1] = "!"

Fixed(text) ==
    FlattenSeq([i \in DOMAIN text |-> IF text[i] = ">" THEN Gt
                                      ELSE IF text[i] = "<" THEN Lt ELSE <<text[i]>>])

Start(texts) == s \in texts /\ a = 1 /\ taglist = <<>> /\ evil = 0

make_tag_list ==
    /\ evil = 0 /\ a <= Len(s)
    /\ LET to == find_next_unquoted(">", s, a)
           inner == SubSeq(s, a + 1, to - 1)
           fixed == IF IsComment(s, a, to) THEN Fixed(inner) ELSE inner
       IN \/ /\ s[a] \notin {"<", ">"}
             /\ a' = a + 1 /\ UNCHANGED <<s, taglist>>
          \/ /\ s[a] = ">" \/ (s[a] = "<" /\ to = 0)
             /\ s' = replace_part(s, a, a, IF s[a] = ">" THEN Gt ELSE Lt)
             /\ a' = a + 1 /\ UNCHANGED taglist
          \/ /\ s[a] = "<" /\ to # 0
             /\ s' = replace_part(s, a + 1, to - 1, fixed)
             /\ taglist' = Append(taglist, [from |-> a, to |-> a + Len(fixed) + 1, name |-> inner])
             /\ a' = a + Len(fixed) + 2
    /\ UNCHANGED evil

Listed == evil = 0 /\ a > Len(s) /\ evil' = 1 /\ UNCHANGED <<s, a, taglist>>

\* Places from a replaced character on move with the text; its own stays.
Moved(n, pos, by) == IF pos < n THEN n + by ELSE n

replace_part_sync(list, pos, by) ==
    [i \in DOMAIN list |-> [list[i] EXCEPT !.from = Moved(@, pos, by), !.to = Moved(@, pos, by)]]

remove_evil_html ==
    /\ evil \in DOMAIN taglist
    /\ IF taglist[evil].name \in AllowedHtml
       THEN UNCHANGED <<s, taglist>>
       ELSE LET first == replace_part_sync(taglist, taglist[evil].from, 3)
                opened == replace_part(s, taglist[evil].from, taglist[evil].from, Lt)
            IN /\ s' = replace_part(opened, first[evil].to, first[evil].to, Gt)
               /\ taglist' = replace_part_sync(first, first[evil].to, 3)
    /\ evil' = evil + 1
    /\ UNCHANGED a

init == make_tag_list \/ Listed \/ remove_evil_html

-----------------------------------------------------------------------------
\* Each tag that is still to be looked at is where the list says, however much the
\* text has grown before it; places are never mixed up with those of other tags.
TagsInPlace ==
    \A i \in DOMAIN taglist : i >= evil => s[taglist[i].from] = "<" /\ s[taglist[i].to] = ">"

\* In the end there is no "<" or ">" but those of tags that are allowed, and, which
\* no step looks for, those within a tag that is no comment.
Sanitized ==
    evil > Len(taglist) =>
        \A i \in DOMAIN s : s[i] \in {"<", ">"} =>
            \E t \in DOMAIN taglist :
                LET tag == taglist[t]
                IN \/ i \in {tag.from, tag.to} /\ tag.name \in AllowedHtml
                   \/ i \in (tag.from + 1)..(tag.to - 1) /\ tag.name[1] # "!"
=============================================================================
