----------------------------- MODULE XdxfParse ------------------------------
(***************************************************************************)
(* The XDXF plugin (stardict_xdxf_parsedata.cpp).  Its text is XML already *)
(* and is copied as it is; "&#n" is a character reference, "&" and "<"     *)
(* are characters that XML would have escaped, "<nu>" is an element that   *)
(* the plugin does not know.                                               *)
(***************************************************************************)
EXTENDS Markup

TextTokens == {"c", "newline", "&lt", "&#n", "&", ">"}
Closing == {"<b>", "</b>", "<tr>", "</tr>", "<c>", "</c>", "<k>", "</k>", "<rref>", "</rref>",
            "<kref>", "</kref>", "<nu>"}
Tags == Closing \cup {"<"}

Raw(t) ==
    CASE t \in {"c", "newline", ">"} -> <<Char>>
      [] t = "&lt" -> <<Entity>>
      [] t = "&#n" -> <<Ref>>
      [] t = "<b>" -> <<Open("b")>>
      [] t = "</b>" -> <<Close("b")>>
      [] t \in {"&", "<"} -> <<Bad>>
      [] OTHER -> <<Open("unknown")>>       \* refused by Pango, opening or closing
Chunk(from, to) == Each(Raw, Tokens(from, to))

replace_arr ==
    [t \in {"<b>", "</b>", "<tr>", "</tr>", "</c>"} |->
        CASE t = "<b>" -> <<Open("b")>>
          [] t = "</b>" -> <<Close("b")>>
          [] t = "<tr>" -> <<Open("b"), Char>>
          [] t = "</tr>" -> <<Char, Close("b")>>
          [] t = "</c>" -> <<Close("span")>>]

\* Mutant of char_len: the brackets around a transcription are not counted.
char_len_0(t) == 0

char_len(t) == IF t \in {"<tr>", "</tr>"} THEN 1 ELSE 0

At(t) == ~done /\ p <= Len(src) /\ src[p] = t

chunk ==
    /\ ~done /\ p <= Len(src) /\ src[p] \in TextTokens
    /\ Find(Tags, p) # 0
    /\ Write(Raw(src[p]), xml_strlen(Raw(src[p])), p + 1)

replace ==
    \E t \in DOMAIN replace_arr : At(t) /\ Write(replace_arr[t], char_len(t), p + 1)

\* The first key is the headword and is left out, with the newline behind it.
k ==
    /\ At("<k>")
    /\ LET next == Find({"</k>"}, p + 1)
           text == Chunk(p + 1, next - 1)
           newline == next < Len(src) /\ src[next + 1] = "newline"
       IN /\ CASE next = 0 -> Write(<<>>, 0, p + 1)
               [] next # 0 /\ ctx.first -> Write(<<>>, 0, next + (IF newline THEN 2 ELSE 1))
               [] OTHER -> Write(Span(text), xml_strlen(text), next + 1)
          /\ ctx' = [ctx EXCEPT !.first = @ /\ next = 0]

c == At("<c>") /\ Write(<<Open("span")>>, 0, p + 1)

rref ==
    /\ At("<rref>")
    /\ LET next == Find({"</rref>"}, p + 1)
       IN IF next = 0 THEN Write(<<>>, 0, p + 1) ELSE WriteResource(next + 1)

\* kref and iref, which differ in where the link leads.
kref ==
    /\ At("<kref>")
    /\ LET next == Find({"</kref>"}, p + 1)
           text == Chunk(p + 1, next - 1)
       IN IF next = 0 THEN Write(<<>>, 0, p + 1) ELSE WriteLink(<<>>, text, xml_strlen(text), next + 1)

other ==
    \/ \E t \in {"</k>", "</rref>", "</kref>", "<nu>"} : At(t) /\ Write(<<>>, 0, p + 1)
    \/ /\ At("<")
       /\ LET next == Find(Closing \cup {">"}, p + 1)
          IN IF next = 0 THEN Write(<<Entity>>, 1, p + 1) ELSE Write(<<>>, 0, next + 1)

tail ==
    /\ ~done /\ Find(Tags, p) = 0
    /\ Finish(Chunk(p, Len(src)))

xdxf2result ==
    \/ k
    \/ (chunk \/ replace \/ c \/ rref \/ kref \/ other \/ tail) /\ UNCHANGED ctx

-----------------------------------------------------------------------------
\* Articles that are XML, without elements in links and keys.
Nested == Proper({<<"<b>", "</b>">>, <<"<tr>", "</tr>">>, <<"<c>", "</c>">>},
                 {<<"<k>", "</k>">>, <<"<rref>", "</rref>">>, <<"<kref>", "</kref>">>})
Within(i) ==
    \E from \in 1..(i - 1), pair \in {<<"<k>", "</k>">>, <<"<kref>", "</kref>">>} :
        src[from] = pair[1] /\ \A j \in from..i : src[j] # pair[2]
Plain ==
    /\ ~ \E i \in DOMAIN src : src[i] \in {"&", "<"}
    /\ \A i \in DOMAIN src : src[i] \in Tags => ~Within(i)
=============================================================================
