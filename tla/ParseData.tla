------------------------------ MODULE ParseData -----------------------------
(***************************************************************************)
(* The parse data plugins together.  An article is given to the plugin     *)
(* whose letter it begins with, which takes all of it (kind is that        *)
(* letter; the two halves of the wiki plugin are "w" and "W").  Plugins    *)
(* share no state, so each works on its own variables here.                *)
(***************************************************************************)
EXTENDS Markup

CONSTANTS
    TagWidth,
    HtmlSources, XdxfSources, PowerwordSources, WikiSources, WikiTexts

VARIABLES
    kind,
    lines, a, xml, list, tables, undefined,
    s, evil, taglist

tokens == <<src, p, res, cur_pos, links_list, item_list, done, ctx>>
wikilines == <<lines, xml, list, tables, undefined>>
wikitags == <<s, evil, taglist>>
vars == <<kind, tokens, wikilines, wikitags, a>>

Html == INSTANCE HtmlParse
Xdxf == INSTANCE XdxfParse
Powerword == INSTANCE PowerwordParse
Lines == INSTANCE WikiLines
WikiTag == INSTANCE WikiTags

ASSUME SourcesAssumption ==
    /\ TagWidth \in Nat \ {0, 1}      \* it begins and ends with a bracket
    /\ HtmlSources \subseteq Seq(Html!TextTokens \cup Html!Tags)
    /\ XdxfSources \subseteq Seq(Xdxf!TextTokens \cup Xdxf!Tags)
    /\ PowerwordSources \subseteq
           Seq(Powerword!Kinds \cup Powerword!TextTokens \cup {"start", "first", "end"})
    /\ \A x \in PowerwordSources : \A i \in DOMAIN x :        \* a section has an end
           x[i] \in Powerword!TextTokens => \E j \in (i + 1)..Len(x) : x[j] = "end"
    /\ WikiSources \subseteq Seq([prefix : Seq({"*", "#", ":"}), body : Lines!Bodies])
    /\ WikiTexts \subseteq Seq(STRING)

Init ==
    /\ kind \in {"h", "x", "k", "w", "W"}
    /\ Start(CASE kind = "h" -> HtmlSources [] kind = "x" -> XdxfSources
                    [] kind = "k" -> PowerwordSources [] OTHER -> {<<>>})
    /\ Lines!Start(IF kind = "w" THEN WikiSources ELSE {<<>>})
    /\ WikiTag!Start(IF kind = "W" THEN WikiTexts ELSE {<<>>})

html == kind = "h" /\ Html!html2result /\ UNCHANGED <<kind, wikilines, wikitags, a>>
xdxf == kind = "x" /\ Xdxf!xdxf2result /\ UNCHANGED <<kind, wikilines, wikitags, a>>
powerword == kind = "k" /\ Powerword!powerword2link /\ UNCHANGED <<kind, wikilines, wikitags, a>>
wiki == kind = "w" /\ Lines!parse_lines /\ UNCHANGED <<kind, tokens, wikitags>>
wikihtml == kind = "W" /\ WikiTag!init /\ UNCHANGED <<kind, tokens, wikilines>>

Next == html \/ xdxf \/ powerword \/ wiki \/ wikihtml

Spec == Init /\ [][Next]_vars

-----------------------------------------------------------------------------
\* Every link of an item covers the text that was written for it: positions count
\* what is shown, whatever markup, entities, line breaks or resources came before.
\* References that are counted by their characters, or shown as nothing, are the
\* exceptions: in HTML those not in decimal, in XDXF all of them, and in PowerWord the
\* apostrophe where the text is escaped by GLib.
Has(t) == \E i \in DOMAIN src : src[i] = t
Countable == CASE kind = "h" -> ~Has("&#0")
               [] kind = "x" -> ~Has("&#n") /\ ~Has("<")
               [] kind = "k" -> ~Has("'")
               [] OTHER -> TRUE
LinksInPlace ==
    Countable => /\ \A i \in DOMAIN item_list : InPlace(item_list[i])
                 /\ InPlace(Item(res))

\* The text the program joins of all items is markup that Pango accepts, when the
\* article is in order: each tag that is opened is closed, in one item or another.
MarkupSound ==
    (done /\ CASE kind = "h" -> Html!Nested /\ Html!Plain
               [] kind = "x" -> Xdxf!Nested /\ Xdxf!Plain
               [] OTHER -> TRUE)
    => WellFormed(Joined)

\* The XML made of wiki lines is nested and its tables are known (wikixml2pango
\* stops at what is not); tags are found where they are while text is replaced
\* before them, and in the end only allowed ones are left.
WikiSound ==
    /\ kind = "w" => Lines!XmlNested /\ Lines!TablesKnown
    /\ kind = "W" => WikiTag!TagsInPlace /\ WikiTag!Sanitized
=============================================================================
