---------------------------- MODULE MCParseData -----------------------------
(***************************************************************************)
(* Articles of every plugin: all short ones, and longer ones of the tokens *)
(* that meet in the hard cases.                                            *)
(***************************************************************************)
EXTENDS ParseData

Upto(S, n) == UNION {[1..m -> S] : m \in 1..n}

MCHtml == Upto(Html!TextTokens \cup Html!Tags, 2) \cup
          Upto({"&", "&#60", "&lt", "<a>", "</a>"}, 4) \cup
          Upto({"c", "newline", "&#0", "<b>", "</b>", "<a>", "</a>", "<img>", "<"}, 4)
MCXdxf == Upto(Xdxf!TextTokens \cup Xdxf!Tags, 2) \cup
          Upto({"&", "&lt", "<kref>", "</kref>"}, 4) \cup
          Upto({"<tr>", "</tr>", "<b>", "c", "<kref>", "</kref>"}, 4) \cup
          Upto({"c", "&#n", "<c>", "</c>", "<k>", "</k>", "<kref>", "</kref>", "<rref>", "</rref>"}, 4)

\* One element after another, each with one section of text.
Section(kind_, text) == <<kind_>> \o text \o <<"end">>
MCPowerword ==
    {Section(k, text) : k \in Powerword!Kinds, text \in Upto(Powerword!TextTokens, 3)} \cup
    {<<start>> \o Section(k, t) \o <<start>> \o Section("plain", u) :
        start \in {"start", "first"}, k \in Powerword!Kinds,
        t \in Upto({"c", "&l(", ")"}, 2), u \in Upto({"'", "&l(", ")"}, 2)}

MCWiki == Upto([prefix : {<<>>, <<"*">>, <<":">>, <<"*", ":">>}, body : {"text", "{|"}] \cup
               [prefix : {<<>>}, body : Lines!Bodies], 3) \cup
          Upto([prefix : {<<>>}, body : Lines!Bodies \ {"", "text"}], 5)
MCTexts == Upto({"<", ">", "!", "q", "b", "x"}, 5)
=============================================================================
