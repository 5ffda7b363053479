----------------------------- MODULE HtmlParse ------------------------------
(***************************************************************************)
(* The HTML plugin (stardict_html_parsedata.cpp).  The tokens of an        *)
(* article: characters, references and tags, and "<" for one that starts   *)
(* no tag.  "&lt" and "&nbsp" stand for the references of these names,     *)
(* "&#n" for any that html_topango decodes, "&#0" for one that it reads as *)
(* 0 (every hexadecimal one too), "&#60" for one of a character that       *)
(* markup has to escape.  A tag taken as text has TagWidth characters.     *)
(***************************************************************************)
EXTENDS Markup

CONSTANT TagWidth

TextTokens == {"c", "newline", "&lt", "&nbsp", "&", "&#n", "&#0", "&#60", ">"}
Closing == {"<b>", "</b>", "<br>", "<hr>", "<font>", "</font>", "<a>", "</a>",
            "<ref>", "</ref>", "<img>", "<x>"}        \* tags: what ends in ">"
Tags == Closing \cup {"<"}

\* html_topango of one token, and what it adds to the length it returns.
topango(t) ==
    CASE t = "newline" -> <<>>
      [] t = "&#0" -> <<>>
      [] t = "&#60" -> <<Bad>>
      [] t \in {"&", "&lt", ">", "<"} -> <<Entity>>
      [] t \in {"c", "&nbsp", "&#n"} -> <<Char>>
      [] t \in Closing -> [i \in 1..TagWidth |-> IF i \in {1, TagWidth} THEN Entity ELSE Char]

\* Mutant of topango_len: a newline, of which nothing is shown, is counted.
topango_len_nl(t) == IF t \in Closing THEN TagWidth ELSE 1

topango_len(t) == CASE t = "newline" -> 0
                    [] t \in Closing -> TagWidth
                    [] OTHER -> 1

ToPango(tokens) == Each(topango, tokens)
ToPangoLen(tokens) ==
    LET upto[n \in 0..Len(tokens)] ==
            IF n = 0 THEN 0 ELSE upto[n - 1] + topango_len(tokens[n])
    IN upto[Len(tokens)]

\* Behind the last tag the article is copied as it is.
Raw(t) == CASE t \in {"c", "newline", ">"} -> <<Char>>
            [] t = "&lt" -> <<Entity>>
            [] t \in {"&#n", "&#60"} -> <<Ref>>
            [] OTHER -> <<Bad>>

replace_arr ==
    [t \in {"<b>", "</b>", "<br>", "<hr>", "</font>"} |->
        CASE t = "<b>" -> <<Open("b")>>
          [] t = "</b>" -> <<Close("b")>>
          [] t = "<br>" -> <<Char>>
          [] t = "<hr>" -> <<Char>> \o Span([i \in 1..5 |-> Char]) \o <<Char>>
          [] t = "</font>" -> <<Close("span")>>]
char_len(t) == CASE t = "<br>" -> 1 [] t = "<hr>" -> 7 [] OTHER -> 0

At(t) == ~done /\ p <= Len(src) /\ src[p] = t

chunk ==
    /\ ~done /\ p <= Len(src) /\ src[p] \in TextTokens
    /\ Find(Tags, p) # 0
    /\ Write(topango(src[p]), topango_len(src[p]), p + 1)

replace ==
    \E t \in DOMAIN replace_arr : At(t) /\ Write(replace_arr[t], char_len(t), p + 1)

font == At("<font>") /\ Write(<<Open("span")>>, 0, p + 1)

\* Without </a> the tag alone is passed over.
a_href ==
    /\ At("<a>")
    /\ LET next == Find({"</a>"}, p + 1)
           text == Tokens(p + 1, next - 1)
       IN IF next = 0 THEN Write(<<>>, 0, p + 1)
          ELSE WriteLink(<<>>, ToPango(text), ToPangoLen(text), next + 1)

\* Without </ref> the "<" is passed over and the rest of the tag is text.
ref ==
    /\ At("<ref>")
    /\ LET next == Find({"</ref>"}, p + 1)
           text == Tokens(p + 1, next - 1)
           rest == Tail(topango("<ref>"))
       IN CASE next # 0 -> WriteLink(<<>>, ToPango(text), ToPangoLen(text), next + 1)
            [] next = 0 /\ Find(Tags, p + 1) # 0 -> Write(rest, TagWidth - 1, p + 1)
            [] OTHER -> Write([i \in DOMAIN rest |-> Char], 0, p + 1)

\* An img without a src is passed over.
img ==
    /\ At("<img>")
    /\ \/ WriteResource(p + 1)
       \/ Write(<<>>, 0, p + 1)

\* Any other tag, and a "<" up to the next ">" wherever that is, are left out.
other ==
    \/ \E t \in {"</a>", "</ref>", "<x>"} : At(t) /\ Write(<<>>, 0, p + 1)
    \/ /\ At("<")
       /\ LET next == Find(Closing \cup {">"}, p + 1)
          IN IF next = 0 THEN Write(<<Entity>>, 1, p + 1) ELSE Write(<<>>, 0, next + 1)

tail ==
    /\ ~done /\ Find(Tags, p) = 0
    /\ Finish(Each(Raw, Tokens(p, Len(src))))

html2result ==
    (chunk \/ replace \/ font \/ a_href \/ ref \/ img \/ other \/ tail) /\ UNCHANGED ctx

-----------------------------------------------------------------------------
\* Articles whose text is shown: tags in order, references that can be decoded, and
\* behind the last tag, where the text is copied, only what Pango understands too.
Nested == Proper({<<"<b>", "</b>">>, <<"<font>", "</font>">>},
                 {<<"<a>", "</a>">>, <<"<ref>", "</ref>">>})
Behind == SelectLastInSubSeq(src, 1, Len(src), LAMBDA t : t \in Tags)
Plain ==
    /\ ~ \E i \in DOMAIN src : src[i] \in {"<", "&#60"}
    /\ \A i \in (Behind + 1)..Len(src) : src[i] \notin {"&nbsp", "&", "&#0"}
=============================================================================
